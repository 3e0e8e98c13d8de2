---------------------------- MODULE OrderedBuffer ---------------------------
(***************************************************************************)
(* The buffer of lib/orderedBuffer.c between two threads, one that inserts *)
(* numbered elements and one that pulls them by their numbers and waits on *)
(* a System V semaphore (lib/semaphore.c) when the first element is not    *)
(* the one it asks for.  There is no lock: each thread's accesses to       *)
(* `index', `blocked' and the semaphore are steps of their own, those of   *)
(* one call to the slots, and of OB_pull's memmove to the index it is      *)
(* given, are taken together.                                              *)
(*                                                                         *)
(* memmove is given numbers of elements where it takes numbers of bytes,   *)
(* so elements are bytes here: NumberBytes of the number, the lowest one   *)
(* first, then DataBytes of data.  A byte of data is told apart by the     *)
(* number of the element it came with.                                     *)
(***************************************************************************)
EXTENDS Integers

CONSTANTS
  Size,         \* the slots OB_create is asked for
  NumberBytes,  \* sizeof(uint32_t)
  DataBytes,    \* DATA_SIZE
  Byte,         \* what a byte holds
  Number,       \* the numbers of elements that are inserted or asked for
  Zeros,        \* what calloc leaves in the data
  Word,         \* 2^32, the values of an index
  SemMax        \* SEMVMX, the largest value of a semaphore

NumberByte == 0 .. NumberBytes - 1

DataByte == 0 .. DataBytes - 1

ElementSize == NumberBytes + DataBytes   \* sizeof(OB_Node)

ASSUME SizeAssumption == Size \in Nat \ {0} /\ 2 * Size < Word
ASSUME BytesAssumption ==
  NumberBytes \in Nat \ {0} /\ DataBytes \in Nat \ {0} /\ Byte \subseteq Nat /\ 0 \in Byte
ASSUME NumberAssumption == Number \subseteq [NumberByte -> Byte]
ASSUME WordAssumption == Word \in Nat
ASSUME SemMaxAssumption == SemMax \in Nat \ {0, 1}

VARIABLES
  created,    \* between OB_create and OB_destroy
  tsn,        \* of each slot, the bytes of its number
  payload,    \* and of its data, told apart by the number they came with
  index,      \* the number of elements
  blocked,    \* the puller is about to wait, waits, or has waited
  sem,        \* the semaphore's value
  inserter,   \* [pc, tsn, first, loaded]: its call of OB_insert
  puller,     \* [pc, tsn, waited, loaded, got]: its call of OB_pull
  outside,    \* memory outside of the slots was accessed
  disturbed,  \* history: a call met another's halfway, or a second signal
  most,       \* history: the most elements there have been
  due,        \* history: the numbers inserted and not yet pulled
  apart,      \* history: two of them differed above their lowest byte
  missed      \* history: the last insertion looked at blocked too early

buffer == <<created, tsn, payload, index>>
sync == <<blocked, sem>>
OB_vars == <<buffer, sync, inserter, puller, outside, disturbed, most, due,
             apart, missed>>

Slot == 0 .. Size - 1

\* OB_create stores it and nothing ever changes it.
expected_tsn == [b \in NumberByte |-> 0]

\* The bytes of data that an element numbered n is inserted with.
DataOf(n) == [d \in DataByte |-> n]

\* n < m of two numbers, decided by the highest byte in which they differ.
Less(n, m) ==
  \E b \in NumberByte : /\ n[b] < m[b]
                        /\ \A c \in NumberByte : c > b => n[c] = m[c]

Idle == [pc |-> "idle", tsn |-> expected_tsn, first |-> FALSE, loaded |-> 0]

AtRest == [pc |-> "idle", tsn |-> expected_tsn, waited |-> FALSE, loaded |-> 0,
           got |-> DataOf(expected_tsn)]

OB_Init ==
  /\ created = FALSE
  /\ tsn = [i \in Slot |-> expected_tsn]
  /\ payload = [i \in Slot |-> DataOf(Zeros)]
  /\ index = 0
  /\ blocked = FALSE
  /\ sem = 0
  /\ inserter = Idle
  /\ puller = AtRest
  /\ outside = FALSE
  /\ disturbed = FALSE
  /\ most = 0
  /\ due = {}
  /\ apart = FALSE
  /\ missed = FALSE

-----------------------------------------------------------------------------
OB_create ==
  /\ ~created
  /\ created' = TRUE
  /\ UNCHANGED <<tsn, payload, index, sync, inserter, puller, outside>>

\* With both threads out of it; what is left is what OB_Init has.
OB_destroy ==
  /\ created
  /\ inserter.pc = "idle" /\ puller.pc = "idle"
  /\ created' = FALSE
  /\ tsn' = [i \in Slot |-> expected_tsn]
  /\ payload' = [i \in Slot |-> DataOf(Zeros)]
  /\ index' = 0
  /\ blocked' = FALSE
  /\ sem' = 0
  /\ inserter' = Idle
  /\ puller' = AtRest
  /\ UNCHANGED outside

-----------------------------------------------------------------------------
\* The places of the elements; none if the index has wrapped below 0, which
\* makes the int the loop starts from negative.
Held == IF index <= Size THEN 0 .. index - 1 ELSE {}

Smaller(n) == {i \in Held : Less(tsn[i], n)}

LastSmaller(n) == CHOOSE i \in Smaller(n) : \A j \in Smaller(n) : j <= i

\* memmove(&data[to], &data[from], bytes) writes to byte b of element s.
Covers(to, bytes, s, b) == s >= to /\ (s - to) * ElementSize + b < bytes

MovedNumbers(to, from, bytes) ==
  [s \in Slot |-> [b \in NumberByte |->
     IF Covers(to, bytes, s, b) THEN tsn[s - to + from][b] ELSE tsn[s][b]]]

MovedData(to, from, bytes) ==
  [s \in Slot |-> [d \in DataByte |->
     IF Covers(to, bytes, s, NumberBytes + d) THEN payload[s - to + from][d]
     ELSE payload[s][d]]]

\* The number of elements behind place i, given for their bytes.
BytesBehind(i) == index - 1 - i

Inserting(pc) == created /\ ~outside /\ inserter.pc = pc

InsertFirst(n) ==
  /\ Inserting("idle")
  /\ index = 0
  /\ tsn' = [tsn EXCEPT ![0] = n]
  /\ payload' = [payload EXCEPT ![0] = DataOf(n)]
  /\ inserter' = [Idle EXCEPT !.pc = "load", !.tsn = n, !.first = TRUE]
  /\ UNCHANGED <<created, index, sync, puller, outside>>

InsertBehind(n) ==
  /\ Inserting("idle")
  /\ index \notin {0, Size}
  /\ Smaller(n) # {}
  /\ LET i == LastSmaller(n) IN
       /\ tsn' = [MovedNumbers(i + 2, i + 1, BytesBehind(i)) EXCEPT ![i + 1] = n]
       /\ payload' =
            [MovedData(i + 2, i + 1, BytesBehind(i)) EXCEPT ![i + 1] = DataOf(n)]
  /\ inserter' = [Idle EXCEPT !.pc = "load", !.tsn = n]
  /\ UNCHANGED <<created, index, sync, puller, outside>>

\* 0 when it is full, -1 when no element is smaller: no step of a thread.

InsertLoad ==
  /\ Inserting("load")
  /\ inserter' = [inserter EXCEPT !.pc = "store", !.loaded = index]
  /\ UNCHANGED <<buffer, sync, puller, outside>>

InsertStore ==
  /\ Inserting("store")
  /\ index' = (inserter.loaded + 1) % Word
  /\ inserter' = [inserter EXCEPT !.pc = "higher"]
  /\ UNCHANGED <<created, tsn, payload, sync, puller, outside>>

\* higher_tsn is read from the element in front of the index as it is by now.
\* Nothing reads higher_tsn.
InsertHigher ==
  /\ Inserting("higher")
  /\ index - 1 \in Slot
  /\ inserter' = [inserter EXCEPT !.pc = "compare"]
  /\ UNCHANGED <<buffer, sync, puller, outside>>

\* Where a pull has emptied the buffer meanwhile that is data[2^32 - 1].
InsertOutside ==
  /\ Inserting("higher")
  /\ index - 1 \notin Slot
  /\ outside' = TRUE
  /\ UNCHANGED <<buffer, sync, inserter, puller>>

NumberNotified == IF inserter.first THEN inserter.tsn ELSE tsn[0]

AnyNotified == TRUE

OwnNotified == inserter.tsn = expected_tsn

Notified == NumberNotified = expected_tsn

InsertCompare ==
  /\ Inserting("compare")
  /\ inserter' = IF Notified THEN [inserter EXCEPT !.pc = "notify"] ELSE Idle
  /\ UNCHANGED <<buffer, sync, puller, outside>>

InsertNotify ==
  /\ Inserting("notify")
  /\ inserter' = IF blocked THEN [inserter EXCEPT !.pc = "signal"] ELSE Idle
  /\ UNCHANGED <<buffer, sync, puller, outside>>

\* Beyond the largest value semop fails; nobody looks.
SEM_signal == sem' = IF sem < SemMax THEN sem + 1 ELSE sem

InsertSignal ==
  /\ Inserting("signal")
  /\ SEM_signal
  /\ inserter' = Idle
  /\ UNCHANGED <<buffer, blocked, puller, outside>>

-----------------------------------------------------------------------------
Pulling(pc) == created /\ ~outside /\ puller.pc = pc

PullCompare(n) ==
  /\ Pulling("idle")
  /\ puller' = [AtRest EXCEPT !.tsn = n,
                              !.pc = IF tsn[0] = n THEN "take" ELSE "block"]
  /\ UNCHANGED <<buffer, sync, inserter, outside>>

PullBlock ==
  /\ Pulling("block")
  /\ blocked' = TRUE
  /\ puller' = [puller EXCEPT !.pc = "wait", !.waited = TRUE]
  /\ UNCHANGED <<buffer, sem, inserter, outside>>

SEM_wait == sem > 0 /\ sem' = sem - 1

PullWait ==
  /\ Pulling("wait")
  /\ SEM_wait
  /\ puller' = [puller EXCEPT !.pc = "unblock"]
  /\ UNCHANGED <<buffer, blocked, inserter, outside>>

PullUnblock ==
  /\ Pulling("unblock")
  /\ blocked' = FALSE
  /\ puller' = [puller EXCEPT !.pc = "take"]
  /\ UNCHANGED <<buffer, sem, inserter, outside>>

NoBytes == 0

BytesPulled == IF index > 1 THEN index - 1 ELSE 0

PullTake ==
  /\ Pulling("take")
  /\ index <= Size
  /\ tsn' = MovedNumbers(0, 1, BytesPulled)
  /\ payload' = MovedData(0, 1, BytesPulled)
  /\ puller' = [puller EXCEPT !.pc = "load", !.got = payload[0]]
  /\ UNCHANGED <<created, index, sync, inserter, outside>>

\* An index that has wrapped moves nearly 2^32 bytes.
PullOutside ==
  /\ Pulling("take")
  /\ index > Size
  /\ outside' = TRUE
  /\ UNCHANGED <<buffer, sync, inserter, puller>>

PullLoad ==
  /\ Pulling("load")
  /\ puller' = [puller EXCEPT !.pc = "store", !.loaded = index]
  /\ UNCHANGED <<buffer, sync, inserter, outside>>

PullStore ==
  /\ Pulling("store")
  /\ index' = (puller.loaded - 1) % Word
  /\ puller' = [puller EXCEPT !.pc = "idle", !.loaded = 0]
  /\ UNCHANGED <<created, tsn, payload, sync, inserter, outside>>

-----------------------------------------------------------------------------
InsertCall == \E n \in Number : InsertFirst(n) \/ InsertBehind(n)

InsertStep ==
  \/ InsertLoad
  \/ InsertStore
  \/ InsertHigher
  \/ InsertOutside
  \/ InsertCompare
  \/ InsertNotify
  \/ InsertSignal

PullCall == \E n \in Number : PullCompare(n)

PullStep ==
  \/ PullBlock
  \/ PullWait
  \/ PullUnblock
  \/ PullTake
  \/ PullOutside
  \/ PullLoad
  \/ PullStore

\* Both threads are in a call, and the puller does not just wait.
Overlap == inserter.pc # "idle" /\ puller.pc \notin {"idle", "wait"}

\* A signal was sent while the one before had not been waited for.
Surplus == sem > 1

Begins == inserter.pc = "idle" /\ inserter'.pc = "load"

SameAboveLowest(n, m) == \A b \in NumberByte \ {0} : n[b] = m[b]

\* inserter.tsn is the number while the call lasts.
History ==
  /\ disturbed' = (created' /\ (disturbed \/ Overlap' \/ Surplus'))
  /\ most' = IF created' /\ index' < most THEN most ELSE index'
  /\ due' =
       IF ~created' \/ disturbed' THEN {}
       ELSE IF puller.pc = "take" /\ puller'.pc = "load" THEN due \ {tsn[0]}
       ELSE IF Begins THEN due \cup {inserter'.tsn}
       ELSE due
  /\ apart' =
       (created' /\ ~disturbed' /\ (apart \/ (Begins /\ \E n \in due :
                                           ~SameAboveLowest(n, inserter'.tsn))))
  /\ missed' =
       (created' /\ IF inserter.pc = "notify" /\ inserter'.pc # "notify"
                    THEN puller.pc = "block" ELSE missed /\ ~Begins)

OB_Next ==
  /\ OB_create \/ OB_destroy \/ InsertCall \/ InsertStep \/ PullCall \/ PullStep
  /\ History

\* A thread in a call goes on with it; that it makes another one is its own
\* affair.
Fairness == WF_OB_vars(InsertStep /\ History) /\ WF_OB_vars(PullStep /\ History)

OB_Spec == OB_Init /\ [][OB_Next]_OB_vars /\ Fairness

-----------------------------------------------------------------------------
(***************************************************************************)
(* Properties                                                              *)
(***************************************************************************)

\* Between calls the slots in use hold the numbers inserted and not yet pulled,
\* in increasing order, so that the next one to pull is in front: for a single
\* element, and up to two elements if no two in the buffer at once differed
\* above their lowest byte, the only one that is then moved (after 0 and 256 a
\* pull of 0 leaves 0 in front).  A single element also has the data of its
\* number, and a pull has returned the data of the number it asked for, or,
\* having waited, of 0.  With a second element the data stays behind, with a
\* third one the numbers as well.
HeldInOrder ==
  ~disturbed /\ inserter.pc = "idle" /\ puller.pc \in {"idle", "wait"} =>
    /\ most <= 2 /\ ~apart =>
         /\ {tsn[i] : i \in Held} = due
         /\ \A i, j \in Held : i < j => Less(tsn[i], tsn[j])
    /\ most <= 1 => \A i \in Held : payload[i] = DataOf(tsn[i])
    /\ most <= 1 /\ puller.pc = "idle" =>
         puller.got = DataOf(IF puller.waited THEN expected_tsn ELSE puller.tsn)

\* A pull that has waited finds the element numbered 0 in front, unless a call
\* met another's halfway or an insertion signalled before the waiter had
\* answered the last signal: then the next wait is over before it has begun.
WokenByZero ==
  puller.pc = "unblock" /\ ~disturbed => index > 0 /\ tsn[0] = expected_tsn

\* A pull that has not found its number, when an insertion is under way and the
\* number that insertion looks at is 0, comes back, whatever is inserted
\* meanwhile; unless the insertion looks at blocked after the pull has compared
\* the numbers and before it has set blocked.  That wake-up is lost, and the
\* pull waits for the next insertion (of which the same can be said again).  Or
\* one of the two accesses memory outside of the slots, the insertion for one
\* where the buffer was emptied before it looked for the highest number.
WaiterServed ==
  puller.pc \in {"block", "wait"} /\ inserter.pc # "idle"
    /\ NumberNotified = expected_tsn
    ~> puller.pc = "idle" \/ outside \/ missed
=============================================================================
