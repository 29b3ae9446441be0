----------------------------- MODULE StreamSpec -----------------------------
(***************************************************************************)
(* What the record-batch stream returned by query_arrow promises its      *)
(* reader, with the worker, the channel and the attachments abstracted    *)
(* away.  A stream is opened; the result it stands for has some number of *)
(* batches, fixed before the first batch is yielded; it yields the next  *)
(* batch of the result, in order, one at a time; it ends cleanly only     *)
(* after the last one, may end with an error at any time, and may be      *)
(* dropped by its reader.                                                  *)
(***************************************************************************)
EXTENDS Naturals, Sequences

CONSTANTS
    Streams,     \* the streams (one per query_arrow call)
    MaxBatches   \* bound on the batches of one result

VARIABLES
    sstate,  \* sstate[s]: "none", "open", "ok", "err" or "dropped"
    out,     \* out[s]: the batches the stream has yielded
    size     \* size[s]: the number of batches of the result

svars == <<sstate, out, size>>

StreamStates == {"none", "open", "ok", "err", "dropped"}

SInit ==
    /\ sstate = [s \in Streams |-> "none"]
    /\ out = [s \in Streams |-> <<>>]
    /\ size = [s \in Streams |-> 0]

Open(s) ==
    /\ sstate[s] = "none"
    /\ sstate' = [sstate EXCEPT ![s] = "open"]
    /\ UNCHANGED <<out, size>>

(* The result's size is known before anything is yielded.                 *)
Plan(s) ==
    /\ sstate[s] # "none"
    /\ out[s] = <<>>
    /\ \E n \in 0 .. MaxBatches : size' = [size EXCEPT ![s] = n]
    /\ UNCHANGED <<sstate, out>>

Emit(s) ==
    /\ sstate[s] = "open"
    /\ Len(out[s]) < size[s]
    /\ out' = [out EXCEPT ![s] = Append(@, Len(@) + 1)]
    /\ UNCHANGED <<sstate, size>>

Complete(s) ==
    /\ sstate[s] = "open"
    /\ Len(out[s]) = size[s]
    /\ sstate' = [sstate EXCEPT ![s] = "ok"]
    /\ UNCHANGED <<out, size>>

Fail(s) ==
    /\ sstate[s] = "open"
    /\ sstate' = [sstate EXCEPT ![s] = "err"]
    /\ UNCHANGED <<out, size>>

Close(s) ==
    /\ sstate[s] = "open"
    /\ sstate' = [sstate EXCEPT ![s] = "dropped"]
    /\ UNCHANGED <<out, size>>

SNext ==
    \E s \in Streams :
        Open(s) \/ Plan(s) \/ Emit(s) \/ Complete(s) \/ Fail(s) \/ Close(s)

SafeSpec == SInit /\ [][SNext]_svars

(* A stream that is polled ends: an open stream does not stay open.       *)
SSpec == SafeSpec /\ \A s \in Streams : WF_svars(Complete(s) \/ Fail(s))

=============================================================================
