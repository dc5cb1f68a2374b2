----------------------------- MODULE MCOpdAlone -----------------------------
(* One submission, without calendar or history, for what the desk says and   *)
(* does not keep.                                                            *)
EXTENDS OpdSubmission

NeedsNone == [v \in Service |-> {}]
NeedsAll == [v \in Service |-> DocType]

=============================================================================
