------------------------------ MODULE Lifecycle ------------------------------
(***************************************************************************)
(* The initialization and the destruction of the objects of the library.   *)
(* An init function creates the mutexes of its object one by one, passing  *)
(* each the attributes of the caller, and takes everything back when one   *)
(* step fails.  The destroy function of an object that has completion      *)
(* queues first prepares them, by acquiring every mutex without waiting,   *)
(* and destroys nothing unless all of that succeeds.                       *)
(*                                                                         *)
(* A call is the sequence of its steps, todo.  The flags that tell a call  *)
(* how much it has done (..._was_allocated, ..._prepared) are undo, the    *)
(* steps that take it back, in their order.                                *)
(*                                                                         *)
(* Users of the object hold its mutexes and have items in its lists.  None *)
(* of them begins a call while the object is being destroyed, as its       *)
(* documentation asks, but they may be inside the last one they made.      *)
(***************************************************************************)
EXTENDS LockAttr, SequencesExt

CONSTANTS Kinds,        \* the objects to look at, of AllKinds
          Users,
          Caller,       \* the thread that initializes and destroys the object
          Nobody,
          ChannelArgs   \* arguments of rwlockattr_setwritechannels

AllKinds == {"wheel", "toggle", "worker", "waiter", "queue", "drainable queue",
             "cancelable queue", "maintlock", "rwlock", "trdl_rwlock"}

ASSUME LifecycleAssumption ==
  /\ Kinds \subseteq AllKinds
  /\ Caller \notin Users /\ Nobody \notin Users \cup {Caller}
  /\ ChannelArgs \subseteq Nat

VARIABLES kind,
          missing,      \* the optional attributes the platform does not have
          attr,         \* lock_attr of the caller's attributes object
          channels,     \* the number of reader push locks in its mode_flags
          given,        \* the attributes are passed to init (not NULL)
          gen,          \* the temporary attributes object: genattr or wheelattr
          genAlive,
          alive,        \* the mutexes that are initialized
          attrOf,       \* the attributes each mutex was given (during an init)
          holder,       \* who holds each mutex
          item,         \* the list each user has an item in
          separator,    \* the separator is linked
          phase,        \* "attr", "init", "up", "destroy", "broken"
          todo, undo,
          ok            \* no step of the call has failed

attrVars == <<missing, attr, channels, given>>
lockVars == <<alive, attrOf, holder>>
useVars == <<item, separator>>
vars == <<kind, attrVars, gen, genAlive, lockVars, useVars, phase, todo, undo, ok>>

-----------------------------------------------------------------------------
(* The mutexes and the lists of the objects.                               *)

Access(q) == <<q, "access">>
Detach(q) == <<q, "detach">>
Element(i) == <<"element", i>>
PushLock(i) == <<"push", i>>
TryreadLock == <<"tryread", "lock">>
WaitDetach == <<"waiter", "detach">>

QueuesOf(k) == CASE k \in {"queue", "drainable queue", "cancelable queue"} -> {"queue"}
                 [] k = "maintlock" -> {"acquired", "awaited"}
                 [] k \in {"rwlock", "trdl_rwlock"} -> {"acquired", "writes", "reads"}
                 [] OTHER -> {}

IsRWLock(k) == k \in {"rwlock", "trdl_rwlock"}

\* The mutexes of an object of kind k with n push locks.
LocksOf(k, n) ==
  {Access(q) : q \in QueuesOf(k)} \cup {Detach(q) : q \in QueuesOf(k)}
    \cup (IF k \in {"wheel", "worker"} THEN {Element(i) : i \in 0 .. 2} ELSE {})
    \cup (IF k = "toggle" THEN {Element(i) : i \in 0 .. 1} ELSE {})
    \cup (IF k = "waiter" THEN {WaitDetach} ELSE {})
    \cup (IF IsRWLock(k) THEN {PushLock(i) : i \in 0 .. n - 1} ELSE {})
    \cup (IF k = "trdl_rwlock" THEN {TryreadLock} ELSE {})

AllLocks == UNION {LocksOf(k, 4) : k \in Kinds}

\* "word": a flag or a count of the object that is not zero while it is used
\* (mode_and_lock_flags of the maintlock, wrlock_waits of the try-read rwlock).
ListsOf(k) == QueuesOf(k)
                \cup (IF IsRWLock(k) THEN {"drain", "express"} ELSE {})
                \cup (IF k \in {"maintlock", "trdl_rwlock"} THEN {"word"} ELSE {})

\* The lock a list is changed under (express reads and words have none).
Guard(l) == IF l = "drain" THEN Access("reads") ELSE Access(l)
Guarded(l) == l \notin {"express", "word"}

IsEmpty(l) == \A u \in Users : item[u] # l

-----------------------------------------------------------------------------
(* The steps.  Each but the last of the ways to build one gives the steps  *)
(* that take it back.                                                      *)

Step(op, x, back) == [op |-> op, x |-> x, back |-> back, drops |-> 0]

Release(m) == Step("release", m, << >>)
Destroy(m) == Step("destroy", m, << >>)
TryAcquire(m) == Step("tryacquire", m, << Release(m) >>)
LockInit(m) == Step("init", m, << Destroy(m) >>)
CheckEmpty(l) == Step("empty", l, << >>)
GenDestroy == Step("gendestroy", "gen", << >>)
GenInit == Step("geninit", "gen", << GenDestroy >>)
GenCopy == Step("gencopy", "gen", << >>)
\* From here on nothing is taken back.
Commit == Step("commit", "all", << >>)

\* For each element of a sequence, in turn.
Each(seq, F(_)) == FlattenSeq([i \in DOMAIN seq |-> F(seq[i])])

UpTo(n) == [i \in 1 .. n |-> i - 1]
DownFrom(n) == Reverse(UpTo(n))

\* The temporary attributes object, when the caller gave attributes.
WithGen(steps) == IF given THEN << GenInit, GenCopy >> \o steps \o << GenDestroy >>
                           ELSE steps

WheelInit == Each(UpTo(3), LAMBDA i : << LockInit(Element(i)) >>)
ToggleInit == Each(UpTo(2), LAMBDA i : << LockInit(Element(i)) >>)
WheelDestroy == Each(DownFrom(3), LAMBDA i : << Destroy(Element(i)) >>)
ToggleDestroy == Each(DownFrom(2), LAMBDA i : << Destroy(Element(i)) >>)

WorkerInit == WithGen(WheelInit)
WaiterInit == << LockInit(WaitDetach) >>
WaiterDestroy == << Destroy(WaitDetach) >>
WorkerDestroy == WheelDestroy

\* Mutant: the list is not looked at.
QueuePrepareBlind(q) == << TryAcquire(Access(q)), TryAcquire(Detach(q)) >>

QueuePrepare(q) == << CheckEmpty(q), TryAcquire(Access(q)), TryAcquire(Detach(q)) >>

QueueComplete(q) == << Release(Detach(q)), Destroy(Detach(q)),
                       Release(Access(q)), Destroy(Access(q)), CheckEmpty(q) >>

\* An initialized queue is taken back by destroying it as a whole.
QueueInit(q) ==
  << LockInit(Access(q)),
     [LockInit(Detach(q)) EXCEPT !.back = QueuePrepare(q) \o QueueComplete(q), !.drops = 1] >>

QueueDestroy(q) == QueuePrepare(q) \o << Commit >> \o QueueComplete(q)

\* A drainable queue adds the drain index, a cancelable one nothing.
DrainablePrepare(q) == QueuePrepare(q)
DrainableComplete(q) == QueueComplete(q)
DrainableInit == QueueInit("queue")
DrainableDestroy == QueueDestroy("queue")
CancelableInit == QueueInit("queue")
CancelableDestroy == QueueDestroy("queue")

DrainPrepare == << CheckEmpty("drain") >>
DrainComplete == << CheckEmpty("drain") >>

MaintLockInit == WithGen(QueueInit("acquired") \o QueueInit("awaited"))

MaintLockDestroy ==
  << CheckEmpty("word") >> \o DrainablePrepare("acquired") \o QueuePrepare("awaited")
    \o << Commit >> \o QueueComplete("awaited") \o DrainableComplete("acquired")

RWLockInit ==
  Each(UpTo(channels), LAMBDA i : << LockInit(PushLock(i)) >>)
    \o WithGen(QueueInit("acquired") \o QueueInit("writes") \o QueueInit("reads"))

\* Mutant: the push locks are destroyed without being tried.
RWLockDestroyUntried ==
  << CheckEmpty("express") >> \o DrainPrepare
    \o DrainablePrepare("reads") \o QueuePrepare("writes") \o QueuePrepare("acquired")
    \o << Commit >>
    \o Each(DownFrom(channels), LAMBDA i : << Destroy(PushLock(i)) >>)
    \o QueueComplete("acquired") \o QueueComplete("writes") \o DrainableComplete("reads")
    \o DrainComplete

RWLockDestroy ==
  << CheckEmpty("express") >> \o DrainPrepare
    \o DrainablePrepare("reads") \o QueuePrepare("writes") \o QueuePrepare("acquired")
    \o Each(UpTo(channels), LAMBDA i : << TryAcquire(PushLock(i)) >>)
    \o << Commit >>
    \o Each(DownFrom(channels), LAMBDA i : << Release(PushLock(i)), Destroy(PushLock(i)) >>)
    \o QueueComplete("acquired") \o QueueComplete("writes") \o DrainableComplete("reads")
    \o DrainComplete

LinkSeparator == Step("link", "separator", << >>)
UnlinkSeparator == Step("unlink", "separator", << LinkSeparator >>)

TrdlInit == << LockInit(TryreadLock) >> \o RWLockInit \o << LinkSeparator >>

\* Mutant: the separator is not linked again when the rest fails.
TrdlDestroyForgetful ==
  << CheckEmpty("word"), TryAcquire(TryreadLock), CheckEmpty("acquired"),
     Step("unlink", "separator", << >>) >>
    \o RWLockDestroy \o << Release(TryreadLock), Destroy(TryreadLock) >>

\* The separator must be alone in acquired_reads.
TrdlDestroy ==
  << CheckEmpty("word"), TryAcquire(TryreadLock), CheckEmpty("acquired"), UnlinkSeparator >>
    \o RWLockDestroy \o << Release(TryreadLock), Destroy(TryreadLock) >>

InitSteps == CASE kind = "wheel" -> WheelInit
               [] kind = "toggle" -> ToggleInit
               [] kind = "worker" -> WorkerInit
               [] kind = "waiter" -> WaiterInit
               [] kind = "queue" -> QueueInit("queue")
               [] kind = "drainable queue" -> DrainableInit
               [] kind = "cancelable queue" -> CancelableInit
               [] kind = "maintlock" -> MaintLockInit
               [] kind = "rwlock" -> RWLockInit
               [] kind = "trdl_rwlock" -> TrdlInit

DestroySteps == CASE kind = "wheel" -> WheelDestroy
                  [] kind = "worker" -> WorkerDestroy
                  [] kind = "toggle" -> ToggleDestroy
                  [] kind = "waiter" -> WaiterDestroy
                  [] kind = "queue" -> QueueDestroy("queue")
                  [] kind = "drainable queue" -> DrainableDestroy
                  [] kind = "cancelable queue" -> CancelableDestroy
                  [] kind = "maintlock" -> MaintLockDestroy
                  [] kind = "rwlock" -> RWLockDestroy
                  [] kind = "trdl_rwlock" -> TrdlDestroy

-----------------------------------------------------------------------------
TypeOK == /\ kind \in Kinds /\ missing \subseteq Optional
          /\ attr \in LockAttrs /\ gen \in LockAttrs
          /\ channels \in {1, 2, 4}
          /\ {given, genAlive, separator, ok} \subseteq BOOLEAN
          /\ alive \subseteq LocksOf(kind, channels)
          /\ attrOf \in [AllLocks -> LockAttrs]
          /\ holder \in [AllLocks -> Users \cup {Caller, Nobody}]
          /\ \A u \in Users : item[u] \in ListsOf(kind) \cup {"none"}
          /\ phase \in {"attr", "init", "up", "destroy", "broken"}

Init == /\ kind \in Kinds
        /\ missing \in SUBSET Optional
        /\ attr = DefaultAttr /\ gen = DefaultAttr
        /\ channels = 1
        /\ given = FALSE /\ genAlive = FALSE
        /\ alive = {}
        /\ attrOf = [m \in AllLocks |-> DefaultAttr]
        /\ holder = [m \in AllLocks |-> Nobody]
        /\ item = [u \in Users |-> "none"]
        /\ separator = FALSE
        /\ phase = "attr"
        /\ todo = << >> /\ undo = << >>
        /\ ok = TRUE

-----------------------------------------------------------------------------
(* The attributes object of the caller.                                    *)

SetAttr(a) == /\ phase = "attr" /\ ~given
              /\ attr' = a
              /\ UNCHANGED <<kind, missing, channels, given, gen, genAlive, lockVars,
                             useVars, phase, todo, undo, ok>>

SetPShared(v) == "pshared" \notin missing /\ SetAttr([attr EXCEPT !.pshared = v])
SetPrioCeiling(v) == "prioceiling" \notin missing /\ SetAttr([attr EXCEPT !.prioceiling = v])
SetProtocol(v) == SetAttr([attr EXCEPT !.protocol = v])

\* Copied from a mutex attributes object of the platform, as far as it gets.
SetMutexAttr(from, n) == /\ "pshared" \in missing => from.pshared = Private
                         /\ "prioceiling" \in missing => from.prioceiling = 0
                         /\ SetAttr(Copied(from, attr, n, missing))

WriteChannels(n) == IF n <= 1 THEN 1 ELSE IF n <= 2 THEN 2 ELSE 4

SetWriteChannels(n) == /\ phase = "attr" /\ ~given /\ IsRWLock(kind)
                       /\ channels' = WriteChannels(n)
                       /\ UNCHANGED <<kind, missing, attr, given, gen, genAlive, lockVars,
                                      useVars, phase, todo, undo, ok>>

AttrCall == \/ \E v \in {Private, Shared} : SetPShared(v)
            \/ \E v \in {0, 1} : SetPrioCeiling(v)
            \/ \E v \in {"none", "inherit"} : SetProtocol(v)
            \/ \E from \in LockAttrs, n \in 0 .. 3 : SetMutexAttr(from, n)
            \/ \E n \in ChannelArgs : SetWriteChannels(n)

GiveAttr == /\ phase = "attr" /\ ~given
            /\ given' = TRUE
            /\ UNCHANGED <<kind, missing, attr, channels, gen, genAlive, lockVars,
                           useVars, phase, todo, undo, ok>>

-----------------------------------------------------------------------------
(* The calls and their steps.                                              *)

Running == phase \in {"init", "destroy"}

\* Without attributes there is one push lock.
InitCall == /\ phase = "attr"
            /\ given \/ (attr = DefaultAttr /\ channels = 1)
            /\ phase' = "init"
            /\ todo' = InitSteps /\ undo' = << >> /\ ok' = TRUE
            /\ UNCHANGED <<kind, attrVars, gen, genAlive, lockVars, useVars>>

DestroyCall == /\ phase = "up"
               /\ phase' = "destroy"
               /\ todo' = DestroySteps /\ undo' = << >> /\ ok' = TRUE
               /\ UNCHANGED <<kind, attrVars, gen, genAlive, lockVars, useVars>>

At(op) == Running /\ todo # << >> /\ Head(todo).op = op
Subject == Head(todo).x

\* What is done is taken back as a whole when more of it is done.
Proceed == /\ todo' = Tail(todo)
           /\ undo' = IF ok THEN Head(todo).back
                                   \o SubSeq(undo, Head(todo).drops + 1, Len(undo))
                            ELSE undo
           /\ UNCHANGED <<kind, attrVars, phase, ok>>

\* The call takes back what it has done and fails.
Fail == /\ ok
        /\ ok' = FALSE
        /\ todo' = undo /\ undo' = << >>
        /\ UNCHANGED <<kind, attrVars, phase, gen, genAlive, lockVars, useVars>>

\* The attributes a mutex is initialized with: the temporary copy if there is one.
InitAttr == IF genAlive THEN gen ELSE IF given THEN attr ELSE DefaultAttr

InitLock == /\ At("init")
            /\ \/ /\ alive' = alive \cup {Subject}
                  /\ attrOf' = [attrOf EXCEPT ![Subject] = InitAttr]
                  /\ Proceed
                  /\ UNCHANGED <<gen, genAlive, holder, useVars>>
               \/ Fail

\* A mutex that somebody holds is not destroyed (EBUSY).
DestroyLock == /\ At("destroy")
               /\ IF Subject \in alive /\ holder[Subject] = Nobody
                    THEN /\ alive' = alive \ {Subject}
                         /\ Proceed
                         /\ UNCHANGED <<gen, genAlive, attrOf, holder, useVars>>
                    ELSE Fail

TryAcquireLock == /\ At("tryacquire")
                  /\ IF holder[Subject] = Nobody
                       THEN /\ holder' = [holder EXCEPT ![Subject] = Caller]
                            /\ Proceed
                            /\ UNCHANGED <<gen, genAlive, alive, attrOf, useVars>>
                       ELSE Fail

ReleaseLock == /\ At("release")
               /\ holder[Subject] = Caller
               /\ holder' = [holder EXCEPT ![Subject] = Nobody]
               /\ Proceed
               /\ UNCHANGED <<gen, genAlive, alive, attrOf, useVars>>

LookIfEmpty == /\ At("empty")
               /\ IF IsEmpty(Subject)
                    THEN Proceed /\ UNCHANGED <<gen, genAlive, lockVars, useVars>>
                    ELSE Fail

InitGen == /\ At("geninit")
           /\ \/ genAlive' = TRUE /\ Proceed /\ UNCHANGED <<gen, lockVars, useVars>>
              \/ Fail

CopyToGen == /\ At("gencopy")
             /\ \/ /\ gen' = Copied(attr, gen, 3, missing)
                   /\ Proceed
                   /\ UNCHANGED <<genAlive, lockVars, useVars>>
                \/ Fail

DestroyGen == /\ At("gendestroy")
              /\ genAlive' = FALSE /\ gen' = DefaultAttr
              /\ Proceed
              /\ UNCHANGED <<lockVars, useVars>>

MoveSeparator == /\ At("link") \/ At("unlink")
                 /\ separator' = (Head(todo).op = "link")
                 /\ Proceed
                 /\ UNCHANGED <<gen, genAlive, lockVars, item>>

CommitDestroy == /\ At("commit")
                 /\ todo' = Tail(todo) /\ undo' = << >>
                 /\ UNCHANGED <<kind, attrVars, gen, genAlive, lockVars, useVars, phase, ok>>

\* What the mutexes were given matters no more; other attributes may be made.
Return ==
  /\ Running /\ todo = << >>
  /\ undo' = << >> /\ ok' = TRUE
  /\ phase' = IF alive = {} THEN "attr"
              ELSE IF alive = LocksOf(kind, channels) THEN "up" ELSE "broken"
  /\ attrOf' = [m \in AllLocks |-> DefaultAttr]
  /\ attr' = DefaultAttr /\ given' = FALSE
  /\ channels' = IF alive = {} THEN 1 ELSE channels
  /\ UNCHANGED <<kind, missing, gen, genAlive, alive, holder, useVars, todo>>

CallerStep == \/ InitLock \/ DestroyLock \/ TryAcquireLock \/ ReleaseLock
              \/ LookIfEmpty \/ InitGen \/ CopyToGen \/ DestroyGen
              \/ MoveSeparator \/ CommitDestroy \/ Return

-----------------------------------------------------------------------------
(* The users of the object.                                                *)

HoldsNone(u) == \A m \in AllLocks : holder[m] # u

useUnchanged == <<kind, attrVars, gen, genAlive, alive, attrOf, separator, phase,
                  todo, undo, ok>>

Take(u, m) == /\ phase = "up" /\ m \in alive
              /\ holder[m] = Nobody /\ HoldsNone(u)
              /\ holder' = [holder EXCEPT ![m] = u]
              /\ UNCHANGED <<useUnchanged, item>>

Give(u, m) == /\ holder[m] = u
              /\ holder' = [holder EXCEPT ![m] = Nobody]
              /\ UNCHANGED <<useUnchanged, item>>

MayChange(u, l) == IF Guarded(l) THEN holder[Guard(l)] = u ELSE TRUE

Link(u, l) == /\ phase = "up"
              /\ item[u] = "none" /\ MayChange(u, l)
              /\ item' = [item EXCEPT ![u] = l]
              /\ UNCHANGED <<useUnchanged, holder>>

Unlink(u) == /\ item[u] # "none" /\ MayChange(u, item[u])
             /\ item' = [item EXCEPT ![u] = "none"]
             /\ UNCHANGED <<useUnchanged, holder>>

UserStep(u) == \/ \E m \in AllLocks : Take(u, m) \/ Give(u, m)
               \/ \E l \in ListsOf(kind) : Link(u, l)
               \/ Unlink(u)

Next == \/ AttrCall \/ GiveAttr \/ InitCall \/ DestroyCall \/ CallerStep
        \/ \E u \in Users : UserStep(u)

Spec == Init /\ [][Next]_vars

-----------------------------------------------------------------------------
(***************************************************************************)
(* Properties.                                                             *)
(***************************************************************************)

(* An init or destroy call does everything or nothing: after it either all   *)
(* mutexes of the object are there, none of them held by the caller and the  *)
(* separator linked, or there are none; and no temporary attributes object   *)
(* is left.  Only the wheel and the toggle may be left in parts, when they   *)
(* are destroyed while a mutex of theirs is held.                            *)
AllOrNothing ==
  /\ TypeOK
  /\ phase \in {"attr", "up", "broken"} => ~genAlive /\ \A m \in AllLocks : holder[m] # Caller
  /\ phase = "attr" => alive = {} /\ ~separator
  /\ phase = "up" => separator = (kind = "trdl_rwlock")
  /\ phase = "broken" => kind \in {"wheel", "toggle", "worker"}

(* The steps that nothing is done about if they fail do not fail: those that *)
(* take back what was done, and those of a destruction that has prepared     *)
(* everything (the MG_CHECKs of the init and destroy functions).             *)
ChecksHold ==
  Running /\ todo # << >> =>
    LET x == Subject IN
    /\ At("release") => holder[x] = Caller
    /\ ~ok =>
         /\ At("destroy") => x \in alive /\ holder[x] = Nobody
         /\ At("tryacquire") => holder[x] = Nobody
         /\ At("empty") => IsEmpty(x)
    /\ phase = "destroy" /\ QueuesOf(kind) # {} /\ At("destroy") =>
         x \in alive /\ holder[x] = Nobody

(* No mutex is destroyed under a user that is still inside its last call,    *)
(* and no object that somebody has an item in (completion.h,                 *)
(* _mutexgear_completion_queue_preparedestroy).                              *)
DestroyedUnused ==
  /\ \A m \in AllLocks : holder[m] # Nobody => m \in alive
  /\ phase = "attr" => \A u \in Users : item[u] = "none"

(* Every mutex of an object gets the attributes that the caller gave,        *)
(* through whatever temporary objects they are passed on (the setmutexattr   *)
(* calls in the init functions).                                             *)
AttributesReachLocks ==
  phase = "init" /\ todo = << >> /\ ok =>
    \A m \in LocksOf(kind, channels) :
      m \in alive /\ attrOf[m] = (IF given THEN attr ELSE DefaultAttr)
=============================================================================
