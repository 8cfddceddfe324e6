----------------------------- MODULE DurableLog -----------------------------
(***************************************************************************)
(* What the write-ahead log promises its callers: records are kept in the  *)
(* order in which they were accepted, the disk always holds a prefix of    *)
(* them, and Flush returns only when everything its caller had written     *)
(* before the call is on disk.  LogBuffer is shown to implement this for   *)
(* one client; TransactionManager uses it in the form of log and durable.  *)
(***************************************************************************)
EXTENDS Integers, Sequences

CONSTANTS Clients,   \* the threads that write and flush
          Records    \* the records they may write, as sequences of bytes

VARIABLES accepted,   \* everything accepted so far, in order
          stored,     \* what is on disk
          mine,       \* per client: where its last accepted record ends
          goal        \* per client: what its pending Flush waits for, or -1

durableLogVars == <<accepted, stored, mine, goal>>

DLInit ==
    /\ accepted = <<>>
    /\ stored = <<>>
    /\ mine = [c \in Clients |-> 0]
    /\ goal = [c \in Clients |-> -1]

(* A record is accepted whole. *)
Accept(c) ==
    /\ \E r \in Records : accepted' = accepted \o r
    /\ mine' = [mine EXCEPT ![c] = Len(accepted')]
    /\ UNCHANGED <<stored, goal>>

(* More of the log reaches the disk. *)
Store ==
    /\ \E n \in (Len(stored) + 1) .. Len(accepted) : stored' = SubSeq(accepted, 1, n)
    /\ UNCHANGED <<accepted, mine, goal>>

FlushCall(c) ==
    /\ goal[c] = -1
    /\ goal' = [goal EXCEPT ![c] = mine[c]]
    /\ UNCHANGED <<accepted, stored, mine>>

FlushReturn(c) ==
    /\ goal[c] >= 0
    /\ Len(stored) >= goal[c]
    /\ goal' = [goal EXCEPT ![c] = -1]
    /\ UNCHANGED <<accepted, stored, mine>>

DLNext ==
    \/ Store
    \/ \E c \in Clients : Accept(c) \/ FlushCall(c) \/ FlushReturn(c)

(* A pending Flush gets the log stored, and then returns. *)
DLFairness ==
    /\ WF_durableLogVars(Store /\ \E c \in Clients : goal[c] > Len(stored))
    /\ \A c \in Clients : WF_durableLogVars(FlushReturn(c))

DLSafety == DLInit /\ [][DLNext]_durableLogVars

DLSpec == DLSafety /\ DLFairness
=============================================================================
