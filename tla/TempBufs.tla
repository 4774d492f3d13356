------------------------------- MODULE TempBufs -------------------------------
(***************************************************************************)
(* The preallocated buffers of tempbufsmanager.h, in which every task that *)
(* logs a message formats it.  get() has no lock: it goes round the        *)
(* buffers, comparing and setting the status of each, until it finds one   *)
(* that is free.                                                           *)
(***************************************************************************)
EXTENDS Naturals, FiniteSets

CONSTANTS Tasks,  \* the tasks that log
          NumBufs \* NUM_BUFS

ASSUME BufsAssumption == IsFiniteSet(Tasks) /\ NumBufs \in Nat \ {0}

Bufs == 0..(NumBufs - 1)

VARIABLES
  status, \* status[b]: 1 if b is in use
  mode,   \* "out", in "get" or "owns" a buffer
  index   \* index[t]: the buffer that t looks at, or owns

bufvars == <<status, mode, index>>

BInit ==
  /\ status = [b \in Bufs |-> 0]
  /\ mode = [t \in Tasks |-> "out"]
  /\ index = [t \in Tasks |-> 0]

\* Mutant: the search begins one buffer too early.
StartGet_FromLast(t) ==
  /\ mode[t] = "out"
  /\ mode' = [mode EXCEPT ![t] = "get"]
  /\ index' = [index EXCEPT ![t] = NumBufs - 1]
  /\ UNCHANGED status

StartGet(t) ==
  /\ mode[t] = "out"
  /\ mode' = [mode EXCEPT ![t] = "get"]
  /\ index' = [index EXCEPT ![t] = 0]
  /\ UNCHANGED status

\* Mutant: the status is read, and set whatever it was.
CompareAndSet_Blind(t) ==
  /\ mode[t] = "get"
  /\ status' = [status EXCEPT ![index[t]] = 1]
  /\ mode' = [mode EXCEPT ![t] = "owns"]
  /\ UNCHANGED index

\* compare_and_set_native() finds the buffer free and takes it.
CompareAndSet(t) ==
  /\ mode[t] = "get"
  /\ status[index[t]] = 0
  /\ status' = [status EXCEPT ![index[t]] = 1]
  /\ mode' = [mode EXCEPT ![t] = "owns"]
  /\ UNCHANGED index

TryNext(t) ==
  /\ mode[t] = "get"
  /\ status[index[t]] = 1
  /\ index' = [index EXCEPT ![t] = (index[t] + 1) % NumBufs]
  /\ UNCHANGED <<status, mode>>

\* Mutant: the buffer stays reserved.
release_Not(t) ==
  /\ mode[t] = "owns"
  /\ mode' = [mode EXCEPT ![t] = "out"]
  /\ UNCHANGED <<status, index>>

release(t) ==
  /\ mode[t] = "owns"
  /\ status' = [status EXCEPT ![index[t]] = 0]
  /\ mode' = [mode EXCEPT ![t] = "out"]
  /\ UNCHANGED index

BNext == \E t \in Tasks : StartGet(t) \/ CompareAndSet(t) \/ TryNext(t) \/ release(t)

BSpec == BInit /\ [][BNext]_bufvars

-----------------------------------------------------------------------------
BTypeOK ==
  /\ status \in [Bufs -> {0, 1}]
  /\ mode \in [Tasks -> {"out", "get", "owns"}]
  /\ index \in [Tasks -> Bufs]

\* tempbufsmanager.h:5-7, "an unused buffer [...] without using locks": two tasks
\* never format a message in the same buffer.
Exclusive ==
  \A t, u \in Tasks : mode[t] = "owns" /\ mode[u] = "owns" /\ index[t] = index[u] => t = u

\* No buffer stays reserved that nobody owns, and none is free that is owned.
NoLeak ==
  \A b \in Bufs : status[b] = 1 <=> \E t \in Tasks : mode[t] = "owns" /\ index[t] = b

\* tempbufsmanager.h:7-8, "As long as we never actually use all available
\* buffers, this should never block": while there are no more tasks than
\* buffers, a task that comes to the last one finds it free, however the others
\* take and release theirs in the meantime.
NeverBlocks ==
  Cardinality(Tasks) <= NumBufs =>
    \A t \in Tasks : mode[t] = "get" /\ index[t] = NumBufs - 1 => status[index[t]] = 0
===============================================================================
