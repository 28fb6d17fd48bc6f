------------------------------ MODULE DrainSpec ------------------------------
(***************************************************************************)
(* What a completion queue and its drain promise to one who reads them     *)
(* without the lock: each is a sequence of items.  Items come and go one   *)
(* change at a time; what is moved is in neither of them for a moment, and *)
(* arrives complete and in its order.  A drain takes everything from one   *)
(* item of the queue on, to the end of the drain.                          *)
(***************************************************************************)
EXTENDS SequencesExt

CONSTANTS Items

VARIABLES drainable, queue, drain,
          moving        \* what is being moved

vars == <<drainable, queue, drain, moving>>

Known == ToSet(queue) \cup ToSet(drain) \cup ToSet(moving)

Init == /\ drainable \in BOOLEAN
        /\ queue = << >> /\ drain = << >> /\ moving = << >>

\* The sequence in with s put before its kth element.
Inserted(in, s, k) == SubSeq(in, 1, k - 1) \o s \o SubSeq(in, k, Len(in))

Add == /\ \E i \in Items \ Known, k \in 1 .. Len(queue) + 1 :
            \/ queue' = Inserted(queue, <<i>>, k)
            \/ \E j \in Items \ (Known \cup {i}) : queue' = Inserted(queue, <<i, j>>, k)
       /\ drainable => IsPrefix(queue, queue')
       /\ UNCHANGED <<drainable, drain, moving>>

Take == /\ \/ /\ \E k \in DOMAIN queue : queue' = RemoveAt(queue, k)
              /\ UNCHANGED drain
           \/ /\ \E k \in DOMAIN drain : drain' = RemoveAt(drain, k)
              /\ UNCHANGED queue
        /\ UNCHANGED <<drainable, moving>>

Cut == /\ moving = << >>
       /\ \E k \in DOMAIN queue :
            IF drainable
              THEN /\ queue' = SubSeq(queue, 1, k - 1)
                   /\ moving' = SubSeq(queue, k, Len(queue))
              ELSE /\ queue' = RemoveAt(queue, k)
                   /\ moving' = << queue[k] >>
       /\ UNCHANGED <<drainable, drain>>

Join == /\ moving # << >> /\ moving' = << >>
        /\ IF drainable
             THEN drain' = drain \o moving /\ UNCHANGED queue
             ELSE /\ \E k \in 1 .. Len(queue) + 1 : queue' = Inserted(queue, moving, k)
                  /\ UNCHANGED drain
        /\ UNCHANGED drainable

Next == Add \/ Take \/ Cut \/ Join

Spec == Init /\ [][Next]_vars
=============================================================================
