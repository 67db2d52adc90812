--------------------------- MODULE DispatchProofs ---------------------------
(* Messages reach the registrations in order, all of them, and after the    *)
(* end no more than those on their way, for any number of registrations and *)
(* messages.                                                                *)
EXTENDS Dispatch, TLAPS

-----------------------------------------------------------------------------
(* Handing a message to the executor. *)

\* Appending to a sequence of things of one kind.
LEMMA AppendTyped ==
  ASSUME NEW S, NEW s \in Seq(S), NEW e \in S
  PROVE  Append(s, e) \in Seq(S)
OBVIOUS

\* What is in a longer sequence was there at the same place or is the last.
LEMMA AppendItems ==
  ASSUME NEW S, NEW s \in Seq(S), NEW e \in S, NEW k \in DOMAIN Append(s, e)
  PROVE  \/ k = Len(s) + 1 /\ Append(s, e)[k] = e
         \/ k \in DOMAIN s /\ Append(s, e)[k] = s[k]
<1>1. CASE k = Len(s) + 1
  BY <1>1
<1>2. CASE k # Len(s) + 1
  BY <1>2
<1> QED BY <1>1, <1>2

\* The kinds of messages: the one another thread makes up is one of them.
LEMMA Kinded ==
  /\ MadeUp \in Messages /\ MadeUp.n = 0 /\ MadeUp.kind = "end"
  /\ \A m \in Messages : m.n \in 0..MaxMessages /\ m.n \in Nat
BY DispatchAssumption DEF MadeUp, Messages, Kinds, Event

\* The message in hand is a message, with a number.
LEMMA HeldTyped ==
  ASSUME TypeOK, held # NoMessage
  PROVE  held \in Messages /\ held.n \in Nat
<1>1. held \in Messages
  BY DEF TypeOK
<1> QED BY <1>1, Kinded

\* The types of what submit changes.
LEMMA SubmitTyped ==
  ASSUME TypeOK, NEW regs \in SUBSET Regs, NEW m \in Messages, Submit(regs, m)
  PROVE  /\ submitted' \in [Regs -> Seq(Messages)]
         /\ late' \in [Regs -> Nat]
<1>1. \A r \in Regs : submitted[r] \in Seq(Messages)
  BY DEF TypeOK
<1>2. \A r \in Regs : Append(submitted[r], m) \in Seq(Messages)
  BY <1>1, AppendTyped
<1>3. submitted' \in [Regs -> Seq(Messages)]
  BY <1>1, <1>2 DEF Submit
<1>4. late' \in [Regs -> Nat]
  BY DEF TypeOK, Submit
<1> QED BY <1>3, <1>4

\* What a registration has been given, it had before or gets now, as its last.
LEMMA SubmitItems ==
  ASSUME TypeOK, NEW regs \in SUBSET Regs, NEW m \in Messages, Submit(regs, m),
         NEW r \in Regs, NEW k \in DOMAIN submitted'[r]
  PROVE  \/ r \in regs /\ k = Len(submitted[r]) + 1 /\ submitted'[r][k] = m
         \/ k \in DOMAIN submitted[r] /\ submitted'[r][k] = submitted[r][k]
<1>1. submitted[r] \in Seq(Messages)
  BY DEF TypeOK
<1>2. submitted'[r] = IF r \in regs THEN Append(submitted[r], m) ELSE submitted[r]
  BY DEF Submit
<1>3. CASE r \in regs
  <2>1. submitted'[r] = Append(submitted[r], m)
    BY <1>2, <1>3
  <2>2. k \in DOMAIN Append(submitted[r], m)
    BY <2>1
  <2> QED BY <1>1, <1>3, <2>1, <2>2, AppendItems
<1>4. CASE r \notin regs
  BY <1>2, <1>4
<1> QED BY <1>3, <1>4

\* The items of a registration are messages, at positions that are numbers.
LEMMA ItemTyped ==
  ASSUME TypeOK, NEW r \in Regs, NEW k \in DOMAIN submitted[r]
  PROVE  /\ submitted[r][k] \in Messages /\ submitted[r][k].n \in Nat
         /\ k \in 1..Len(submitted[r]) /\ Len(submitted[r]) \in Nat
<1>1. submitted[r] \in Seq(Messages)
  BY DEF TypeOK
<1>2. /\ submitted[r][k] \in Messages /\ k \in 1..Len(submitted[r])
      /\ Len(submitted[r]) \in Nat
  BY <1>1
<1> QED BY <1>2, Kinded

\* A message that is made up, or comes after all that its addressees have, keeps
\* the order.
LEMMA SubmitInOrder ==
  ASSUME TypeOK, InOrderOnce, NEW regs \in SUBSET Regs, NEW m \in Messages, Submit(regs, m),
         m = MadeUp \/ \A r \in regs : \A k \in DOMAIN submitted[r] : submitted[r][k].n < m.n
  PROVE  InOrderOnce'
<1> SUFFICES ASSUME NEW r \in Regs, NEW k \in DOMAIN submitted'[r], NEW l \in DOMAIN submitted'[r],
                    k < l, submitted'[r][l] # MadeUp
             PROVE  submitted'[r][k].n < submitted'[r][l].n
  BY DEF InOrderOnce
<1>1. \/ r \in regs /\ k = Len(submitted[r]) + 1 /\ submitted'[r][k] = m
      \/ k \in DOMAIN submitted[r] /\ submitted'[r][k] = submitted[r][k]
  BY SubmitItems, Zenon
<1>2. \/ r \in regs /\ l = Len(submitted[r]) + 1 /\ submitted'[r][l] = m
      \/ l \in DOMAIN submitted[r] /\ submitted'[r][l] = submitted[r][l]
  BY SubmitItems, Zenon
<1>3. CASE l \in DOMAIN submitted[r] /\ submitted'[r][l] = submitted[r][l]
  <2>1. l \in 1..Len(submitted[r]) /\ Len(submitted[r]) \in Nat
    BY <1>3, ItemTyped
  <2>2. k \in DOMAIN submitted[r] /\ submitted'[r][k] = submitted[r][k]
    BY <1>1, <2>1
  <2> QED BY <1>3, <2>2 DEF InOrderOnce
<1>4. CASE r \in regs /\ l = Len(submitted[r]) + 1 /\ submitted'[r][l] = m
  <2>1. k \in DOMAIN submitted[r] /\ submitted'[r][k] = submitted[r][k]
    BY <1>1, <1>4
  <2> QED BY <1>4, <2>1
<1> QED BY <1>2, <1>3, <1>4

\* Nobody gets ahead of the message in hand, if it is only handed to those that
\* might get it and do not get it again.
LEMMA SubmitNotAhead ==
  ASSUME TypeOK, OrderInv, SubmittedInv, NEW regs \in SUBSET Regs, NEW m \in Messages,
         Submit(regs, m), m = MadeUp \/ (held # NoMessage /\ m = held),
         inbox' = inbox, published' = published, held' \in {held, NoMessage},
         \A r \in Regs : MayGet(r)' => MayGet(r) /\ (m = MadeUp \/ r \notin regs)
  PROVE  SubmittedInv'
<1> SUFFICES ASSUME NEW r \in Regs, NEW k \in DOMAIN submitted'[r]
             PROVE  /\ submitted'[r][k].n <= published
                    /\ \A l \in DOMAIN inbox : submitted'[r][k].n < inbox[l].n
                    /\ held' # NoMessage => submitted'[r][k].n <= held'.n
                    /\ MayGet(r)' => submitted'[r][k].n < held'.n
  BY DEF SubmittedInv
<1>1. \/ r \in regs /\ k = Len(submitted[r]) + 1 /\ submitted'[r][k] = m
      \/ k \in DOMAIN submitted[r] /\ submitted'[r][k] = submitted[r][k]
  BY SubmitItems, Zenon
<1>2. MayGet(r)' => held' # NoMessage
  BY DEF MayGet
<1>3. held' # NoMessage => held' = held
  OBVIOUS
<1>4. CASE k \in DOMAIN submitted[r] /\ submitted'[r][k] = submitted[r][k]
  BY <1>2, <1>3, <1>4 DEF SubmittedInv
<1>5. CASE r \in regs /\ submitted'[r][k] = m /\ m = MadeUp
  <2>1. published \in Nat
    BY DEF TypeOK
  <2>2. submitted'[r][k].n = 0
    BY <1>5, Kinded
  <2>3. 0 <= published /\ \A l \in DOMAIN inbox : 0 < inbox[l].n
    BY <2>1 DEF OrderInv
  <2>4. held # NoMessage => 0 <= held.n /\ 0 < held.n
    BY HeldTyped DEF OrderInv
  <2> QED BY <1>2, <1>3, <2>2, <2>3, <2>4
<1>6. CASE r \in regs /\ submitted'[r][k] = m /\ m # MadeUp
  <2>1. held # NoMessage /\ m = held /\ m.n \in Nat
    BY <1>6, Kinded
  <2>2. ~MayGet(r)'
    BY <1>6
  <2> QED BY <1>3, <1>6, <2>1, <2>2 DEF OrderInv
<1> QED BY <1>1, <1>4, <1>5, <1>6
-----------------------------------------------------------------------------
(* The steps. *)

\* The next message is in hand, with no callbacks yet.
LEMMA TakeStep ==
  ASSUME DispatchInv, Take PROVE DispatchInv'
<1>1. /\ inbox \in Seq(Messages) /\ inbox # <<>>
      /\ held' = Head(inbox) /\ inbox' = Tail(inbox)
      /\ held = NoMessage /\ batch = {} /\ batch' = {}
      /\ UNCHANGED <<open, installed, users, globals, calls, done, cleaning, endedBy,
                     submitted, late, published, final>>
  BY DEF DispatchInv, TypeOK, BatchInv, Take, tableVars, listenVars, endVars, histVars
<1>2. /\ held' \in Messages /\ inbox' \in Seq(Messages) /\ 1 \in DOMAIN inbox
      /\ held' = inbox[1]
      /\ \A k \in DOMAIN inbox' : k + 1 \in DOMAIN inbox /\ inbox'[k] = inbox[k + 1]
      /\ \A k \in DOMAIN inbox : k \in Nat
      /\ \A k \in DOMAIN inbox' : k \in Nat /\ 1 < k + 1
      /\ Len(inbox) \in Nat /\ Len(inbox') = Len(inbox) - 1 /\ (Len(inbox) = 1 => inbox' = <<>>)
  BY <1>1
<1>3. held' # NoMessage
  BY <1>2, DispatchAssumption
<1>4. \A r \in owed' : ~done /\ r \in users \cup globals /\ EventOf[r] = Event(held'.kind)
  BY DEF Take, On
<1>5. TypeOK'
  <2>1. owed' \subseteq Regs
    BY <1>4 DEF DispatchInv, TypeOK, Regs
  <2> QED BY <1>1, <1>2, <2>1 DEF DispatchInv, TypeOK
<1>6. BatchInv'
  BY <1>1 DEF DispatchInv, BatchInv
<1>7. OrderInv'
  <2>1. held'.n > 0 /\ held'.n <= published'
    BY <1>1, <1>2 DEF DispatchInv, OrderInv
  <2>2. \A k \in DOMAIN inbox' : /\ 0 < inbox'[k].n /\ inbox'[k].n <= published'
                                /\ held'.n < inbox'[k].n
    BY <1>1, <1>2 DEF DispatchInv, OrderInv
  <2>3. \A k, m \in DOMAIN inbox' : k < m => inbox'[k].n < inbox'[m].n
    BY <1>1, <1>2 DEF DispatchInv, OrderInv
  <2> QED BY <2>1, <2>2, <2>3, HeldTyped DEF OrderInv
<1>8. SubmittedInv'
  <2> SUFFICES ASSUME NEW r \in Regs, NEW k \in DOMAIN submitted[r]
               PROVE  /\ submitted[r][k].n <= published
                      /\ \A m \in DOMAIN inbox' : submitted[r][k].n < inbox'[m].n
                      /\ submitted[r][k].n <= held'.n /\ submitted[r][k].n < held'.n
    BY <1>1 DEF SubmittedInv
  <2>1. submitted[r][k].n <= published /\ submitted[r][k].n < held'.n
    BY <1>2 DEF DispatchInv, SubmittedInv
  <2>2. \A m \in DOMAIN inbox' : submitted[r][k].n < inbox'[m].n
    BY <1>2 DEF DispatchInv, SubmittedInv
  <2>3. submitted[r][k].n \in Nat /\ held'.n \in Nat
    BY <1>2, ItemTyped, Kinded DEF DispatchInv
  <2> QED BY <2>1, <2>2, <2>3
<1>9. OwedInv'
  BY <1>1, <1>3, <1>4 DEF OwedInv
<1>10. TableInv'
  BY <1>1 DEF DispatchInv, TableInv, Unlocked
<1>11. FinalInv'
  <2>1. endedBy # "listener"
    BY <1>1 DEF DispatchInv, FinalInv
  <2>2. ASSUME NEW k \in DOMAIN inbox, inbox[k].kind = "end" PROVE final /\ k = Len(inbox)
    BY <2>2 DEF DispatchInv, FinalInv
  <2>3. ASSUME NEW k \in DOMAIN inbox', inbox'[k].kind = "end" PROVE final /\ k = Len(inbox')
    <3>1. k \in Nat /\ k + 1 \in DOMAIN inbox /\ inbox[k + 1].kind = "end"
      BY <1>2, <2>3
    <3>2. final /\ k + 1 = Len(inbox)
      BY <2>2, <3>1
    <3> QED BY <1>2, <3>1, <3>2
  <2>4. ASSUME held'.kind = "end" PROVE final /\ inbox' = <<>>
    BY <1>2, <2>2, <2>4
  <2> QED BY <1>1, <2>1, <2>3, <2>4 DEF FinalInv
<1>12. LateInv'
  BY <1>1 DEF DispatchInv, LateInv, LateUser, LateGlobal, Pending, Leaked, Unlocked
<1>13. InOrderOnce'
  BY <1>1 DEF DispatchInv, InOrderOnce
<1> QED BY <1>5, <1>6, <1>7, <1>8, <1>9, <1>10, <1>11, <1>12, <1>13 DEF DispatchInv

\* The order of the messages is not disturbed by letting go of one.
LEMMA StillOrdered ==
  ASSUME OrderInv, inbox' = inbox, published' = published, held' \in {held, NoMessage}
  PROVE  OrderInv'
BY DEF OrderInv

\* Nobody is ahead if nothing is submitted and nobody may get more than before.
LEMMA NobodyAhead ==
  ASSUME SubmittedInv, inbox' = inbox, published' = published, submitted' = submitted,
         held' \in {held, NoMessage}, \A r \in Regs : MayGet(r)' => MayGet(r)
  PROVE  SubmittedInv'
<1>1. \A r \in Regs : MayGet(r)' => held' # NoMessage
  BY DEF MayGet
<1> QED BY <1>1 DEF SubmittedInv

\* What has been submitted stays in order if nothing is added.
LEMMA SameSubmitted ==
  ASSUME InOrderOnce, submitted' = submitted PROVE InOrderOnce'
BY DEF InOrderOnce

\* The tables stay right if neither they nor the end change.
LEMMA SameTables ==
  ASSUME TableInv, UNCHANGED <<open, installed, users, calls, done, cleaning, endedBy>>
  PROVE  TableInv'
BY DEF TableInv, Unlocked

\* The listener goes on with the message in hand, or lets go of it.
LEMMA SameFinal ==
  ASSUME FinalInv, UNCHANGED <<inbox, final, endedBy>>, held' \in {held, NoMessage},
         endedBy = "listener" => Own \notin batch' /\ (held' # NoMessage => batch' # {})
  PROVE  FinalInv'
BY DEF FinalInv

\* Nobody is late after fewer callbacks are left, unless the manager's own has gone
\* while another thread cleans up.
LEMMA SameLate ==
  ASSUME LateInv, UNCHANGED <<late, endedBy, done, cleaning, open>>,
         Pending' \subseteq Pending, batch' \subseteq batch,
         Own \in batch /\ Own \notin batch' => Unlocked,
         held' = held \/ batch' = {}
  PROVE  LateInv'
<1>1. Leaked' = Leaked /\ Unlocked' = Unlocked
  BY DEF Leaked, Unlocked
<1>2. ASSUME ~Leaked, NEW u \in Users PROVE LateUser(u)'
  <2>1. LateUser(u)
    BY <1>2 DEF LateInv
  <2> QED BY <1>1, <2>1 DEF LateUser
<1>3. ASSUME ~Leaked, NEW g \in Globals PROVE LateGlobal(g)'
  <2>1. LateGlobal(g)
    BY <1>3 DEF LateInv
  <2> QED BY <1>1, <2>1 DEF LateGlobal
<1>4. (\A r \in Regs : late'[r] # 0 => endedBy' = "other" /\ EventOf[r] # "status")
      /\ \A u \in Pending' : late'[u] = 0
  BY DEF LateInv
<1> QED BY <1>1, <1>2, <1>3, <1>4 DEF LateInv

\* As long as the job is not done, nobody is late.
LEMMA NobodyLate ==
  ASSUME LateInv, TableInv, ~done PROVE \A r \in Regs : late[r] = 0
BY DEF LateInv, TableInv

\* If nobody has been given anything after the end, all bounds hold.
LEMMA NoneIsLate ==
  ASSUME \A r \in Regs : late'[r] = 0 PROVE LateInv'
BY DEF LateInv, LateUser, LateGlobal, Pending, Regs

\* A job that is done was completed by the listener or by another thread; with
\* callbacks left that are not a status listener's, by another.
LEMMA OtherEnded ==
  ASSUME DispatchInv, done,
         held # NoMessage /\ (Event(held.kind) # "status" \/ Own \in batch \/ batch = {})
  PROVE  endedBy = "other"
<1>1. endedBy \in {"listener", "other"}
  BY DEF DispatchInv, TableInv, TypeOK
<1>2. ASSUME held.kind = "end" PROVE Event(held.kind) = "status"
  BY <1>2 DEF Event
<1>3. endedBy = "listener" => held.kind = "end" /\ batch # {} /\ Own \notin batch
  BY DEF DispatchInv, FinalInv
<1> QED BY <1>1, <1>2, <1>3

\* A payload that does not decode is owed to nobody.
LEMMA SkipStep ==
  ASSUME DispatchInv, Skip PROVE DispatchInv'
<1>1. /\ held' = NoMessage /\ batch' = {} /\ batch = {} /\ held # NoMessage
      /\ UNCHANGED <<inbox, open, installed, users, globals, calls, done, cleaning, endedBy,
                     submitted, late, owed, published, final>>
  BY DEF Skip, tableVars, listenVars, endVars, taskVars, histVars
<1>2. TypeOK'
  BY <1>1 DEF DispatchInv, TypeOK
<1>3. BatchInv'
  BY <1>1 DEF BatchInv
<1>4. OrderInv'
  BY <1>1, StillOrdered DEF DispatchInv
<1>5. SubmittedInv'
  BY <1>1, NobodyAhead DEF DispatchInv, MayGet
<1>6. OwedInv'
  <2>1. Event(held.kind) = "garbage"
    BY DEF Skip, Event
  <2>2. \A r \in owed : EventOf[r] \in Events
    BY DispatchAssumption DEF DispatchInv, TypeOK
  <2>3. owed = {}
    BY <2>1, <2>2 DEF DispatchInv, OwedInv, Events
  <2> QED BY <1>1, <2>3 DEF OwedInv
<1>7. TableInv'
  BY <1>1, SameTables DEF DispatchInv
<1>8. FinalInv'
  BY <1>1, SameFinal DEF DispatchInv
<1>9. LateInv'
  BY <1>1, SameLate DEF DispatchInv, Pending
<1>10. InOrderOnce'
  BY <1>1, SameSubmitted DEF DispatchInv
<1> QED BY <1>2, <1>3, <1>4, <1>5, <1>6, <1>7, <1>8, <1>9, <1>10 DEF DispatchInv

\* Before the end the callbacks of the message are those of the registrations it is
\* owed; after it those the cleanup has not reached, and of calls of listen() in progress.
LEMMA CopyStep ==
  ASSUME DispatchInv, Copy PROVE DispatchInv'
<1> DEFINE e == Event(held.kind)
<1>1. /\ held # NoMessage /\ batch = {}
      /\ UNCHANGED <<inbox, open, installed, users, globals, calls, done, cleaning, endedBy,
                     submitted, late, owed, published, final>>
  BY DEF Copy, tableVars, listenVars, endVars, taskVars, histVars
<1>2. /\ batch' = {c \in {Own} : e \in open} \cup On(installed, e)
      /\ held' \in {held, NoMessage} /\ (held' # NoMessage <=> batch' # {})
  BY <1>1 DEF Copy
<1>3. /\ Own \in batch' => e \in open
      /\ e \in open => Own \in batch'
      /\ \A u \in batch' \ {Own} : u \in installed /\ EventOf[u] = e
      /\ \A u \in installed : EventOf[u] = e => u \in batch'
  <2>1. Own \notin installed
    BY DispatchAssumption DEF DispatchInv, TypeOK, Regs
  <2> QED BY <1>2, <2>1 DEF On
<1>4. installed \subseteq Users /\ batch' \subseteq {Own} \cup Users
  BY <1>3 DEF DispatchInv, TypeOK
<1> HIDE DEF e
<1>5. TypeOK'
  BY <1>1, <1>2, <1>4 DEF DispatchInv, TypeOK
<1>6. BatchInv'
  BY <1>2, <1>3 DEF BatchInv, e
<1>7. OrderInv'
  BY <1>1, <1>2, StillOrdered DEF DispatchInv
<1>8. SubmittedInv'
  <2>1. \A r \in Regs : MayGet(r)
    BY <1>1 DEF MayGet
  <2> QED BY <1>1, <1>2, <2>1, NobodyAhead DEF DispatchInv
<1>9. done => endedBy = "other"
  BY <1>1, OtherEnded
<1>10. OwedInv'
  <2> SUFFICES ASSUME NEW r \in owed
               PROVE  /\ ~done /\ held' = held /\ held # NoMessage
                      /\ r \in users \cup globals /\ EventOf[r] = e
                      /\ \/ Own \in batch' /\ (e = "status" \/ r \in globals)
                         \/ r \in batch' /\ e # "status"
    BY <1>1 DEF OwedInv, e
  <2>1. ~done /\ r \in users \cup globals /\ EventOf[r] = e /\ r \in Regs
    BY DEF DispatchInv, OwedInv, TypeOK, e
  <2>2. e \in open /\ \A u \in users : u \in installed
    <3>1. open = Events /\ \A u \in users : u \in installed
      BY <2>1 DEF DispatchInv, TableInv
    <3>2. EventOf[r] \in Events
      BY <2>1, DispatchAssumption
    <3> QED BY <2>1, <3>1, <3>2
  <2> QED BY <1>1, <1>2, <1>3, <2>1, <2>2
<1>11. TableInv'
  BY <1>1, SameTables DEF DispatchInv
<1>12. FinalInv'
  <2>1. endedBy # "listener"
    BY <1>9 DEF DispatchInv, TableInv
  <2> QED BY <1>1, <1>2, <2>1, SameFinal DEF DispatchInv
<1>13. LateInv'
  <2>1. Leaked' = Leaked /\ Unlocked' = Unlocked /\ Pending' = Pending
    BY <1>1 DEF Leaked, Unlocked, Pending
  <2>2. /\ \A r \in Regs : late[r] # 0 => endedBy = "other" /\ EventOf[r] # "status"
        /\ \A u \in Pending : late[u] = 0
    BY DEF DispatchInv, LateInv
  <2>3. \A r \in Regs : late[r] # 0 => done
    BY <2>2 DEF DispatchInv, TableInv
  <2>4. ASSUME ~Leaked, NEW u \in Users PROVE LateUser(u)'
    <3>1. LateUser(u) /\ u \in Regs
      BY <2>4 DEF DispatchInv, LateInv, Regs
    <3>2. ASSUME u \in batch', late[u] # 0 PROVE ~Unlocked /\ Own \in batch'
      <4>1. u \in installed /\ EventOf[u] = e
        BY <1>3, <3>1, <3>2, DispatchAssumption
      <4>2. u \notin Pending /\ done
        BY <2>2, <2>3, <3>1, <3>2
      <4>3. u \in users
        BY <4>1, <4>2 DEF DispatchInv, TableInv, Pending
      <4>4. e \in open
        BY <4>1, <4>3 DEF DispatchInv, TableInv
      <4> QED BY <1>3, <2>4, <4>2, <4>4 DEF Leaked
    <3>3. late[u] \in Nat
      BY <3>1 DEF DispatchInv, TypeOK
    <3> QED BY <1>1, <2>1, <3>1, <3>2, <3>3 DEF LateUser
  <2>5. ASSUME ~Leaked, NEW g \in Globals PROVE LateGlobal(g)'
    <3>1. LateGlobal(g) /\ g \in Regs
      BY <2>5 DEF DispatchInv, LateInv, Regs
    <3>2. ASSUME Own \in batch' PROVE late[g] = 0
      <4>1. CASE done
        <5>1. ~Unlocked
          BY <1>3, <2>5, <3>2, <4>1 DEF Leaked
        <5> QED BY <3>1, <5>1 DEF LateGlobal
      <4>2. CASE ~done
        BY <2>3, <3>1, <4>2
      <4> QED BY <4>1, <4>2
    <3> QED BY <1>1, <2>1, <3>1, <3>2 DEF LateGlobal
  <2>6. /\ \A r \in Regs : late'[r] # 0 => endedBy' = "other" /\ EventOf[r] # "status"
        /\ \A u \in Pending' : late'[u] = 0
    BY <1>1, <2>1, <2>2
  <2> QED BY <2>1, <2>4, <2>5, <2>6 DEF LateInv
<1>14. InOrderOnce'
  BY <1>1, SameSubmitted DEF DispatchInv
<1> QED BY <1>5, <1>6, <1>7, <1>8, <1>10, <1>11, <1>12, <1>13, <1>14 DEF DispatchInv

\* A thread completes the job with a message it makes up.
LEMMA EndByOtherStep ==
  ASSUME DispatchInv, EndByOther PROVE DispatchInv'
<1> DEFINE regs == On(users \cup globals, "status")
<1>1. /\ ~done /\ done' = TRUE /\ cleaning' = "other" /\ endedBy' = "other"
      /\ Submit(regs, MadeUp) /\ owed' = {}
      /\ UNCHANGED <<inbox, held, batch, open, installed, users, globals, calls, published, final>>
  BY Kinded DEF EndByOther, Apply, tableVars, listenVars, histVars
<1>2. regs \in SUBSET Regs
  BY DEF On, DispatchInv, TypeOK, Regs
<1>3. MadeUp \in Messages
  BY Kinded
<1> HIDE DEF regs
<1>4. TypeOK'
  <2>1. submitted' \in [Regs -> Seq(Messages)] /\ late' \in [Regs -> Nat]
    BY <1>1, <1>2, <1>3, SubmitTyped DEF DispatchInv
  <2> QED BY <1>1, <2>1 DEF DispatchInv, TypeOK
<1>5. BatchInv'
  BY <1>1 DEF DispatchInv, BatchInv
<1>6. OrderInv'
  BY <1>1, StillOrdered DEF DispatchInv
<1>7. SubmittedInv'
  <2>1. \A r \in Regs : MayGet(r)' => MayGet(r)
    BY <1>1 DEF MayGet
  <2> QED BY <1>1, <1>2, <1>3, <2>1, SubmitNotAhead DEF DispatchInv
<1>8. OwedInv'
  BY <1>1 DEF OwedInv
<1>9. TableInv'
  <2>1. open # {}
    BY <1>1 DEF DispatchInv, TableInv, Events
  <2> QED BY <1>1, <2>1 DEF DispatchInv, TableInv, Unlocked
<1>10. FinalInv'
  BY <1>1 DEF DispatchInv, FinalInv
<1>11. LateInv'
  <2>1. \A r \in Regs : late[r] = 0
    BY <1>1, NobodyLate DEF DispatchInv
  <2>2. \A r \in Regs : late'[r] = 0
    BY <1>1, <2>1 DEF Submit
  <2> QED BY <2>2, NoneIsLate
<1>12. InOrderOnce'
  BY <1>1, <1>2, <1>3, SubmitInOrder DEF DispatchInv
<1> QED BY <1>4, <1>5, <1>6, <1>7, <1>8, <1>9, <1>10, <1>11, <1>12 DEF DispatchInv

\* What a callback that returns leaves behind.
LEMMA Returned ==
  ASSUME DispatchInv, NEW c \in batch, Called(c)
  PROVE  /\ held # NoMessage /\ batch' = batch \ {c}
         /\ held' \in {held, NoMessage} /\ (held' # NoMessage <=> batch' # {})
         /\ held \in Messages
         /\ batch' \subseteq {Own} \cup Users
         /\ UNCHANGED <<inbox, published, final, open, installed, users, globals, calls>>
<1>1. held # NoMessage
  BY DEF DispatchInv, BatchInv
<1>2. held \in Messages
  BY <1>1, HeldTyped DEF DispatchInv
<1> QED BY <1>1, <1>2 DEF Called, tableVars, listenVars, histVars, DispatchInv, TypeOK

\* The manager's own callback, of a heartbeat or of logs: the manager-wide
\* listeners get the message.
LEMMA CallOwnOther ==
  ASSUME DispatchInv, CallOwn, Event(held.kind) # "status" PROVE DispatchInv'
<1> DEFINE e == Event(held.kind)
           regs == On(globals, e)
<1>1. /\ held # NoMessage /\ held \in Messages /\ batch' = batch \ {Own} /\ Own \in batch
      /\ held' \in {held, NoMessage} /\ (held' # NoMessage <=> batch' # {}) /\ Unlocked
      /\ UNCHANGED <<inbox, published, final, open, installed, users, globals, calls>>
      /\ batch' \subseteq {Own} \cup Users
  BY Returned DEF CallOwn, Called
<1>2. /\ Submit(regs, held) /\ owed' = owed \ regs
      /\ UNCHANGED <<done, cleaning, endedBy>>
  BY DEF CallOwn, endVars
<1>3. /\ regs \subseteq Globals /\ regs \in SUBSET Regs
      /\ \A r \in Regs : r \in regs <=> r \in globals /\ EventOf[r] = e
  BY DEF On, DispatchInv, TypeOK, Regs
<1>4. e # "status"
  OBVIOUS
<1> HIDE DEF regs
<1>5. TypeOK'
  <2>1. submitted' \in [Regs -> Seq(Messages)] /\ late' \in [Regs -> Nat]
    BY <1>1, <1>2, <1>3, SubmitTyped DEF DispatchInv
  <2> QED BY <1>1, <1>2, <2>1 DEF DispatchInv, TypeOK
<1>6. BatchInv'
  BY <1>1 DEF DispatchInv, BatchInv
<1>7. OrderInv'
  BY <1>1, StillOrdered DEF DispatchInv
<1>8. \A r \in regs : r \notin batch /\ r \in Regs /\ r \notin Users
  <2>1. Users \cap Globals = {} /\ Own \notin Regs
    BY DispatchAssumption
  <2> QED BY <1>3, <2>1 DEF DispatchInv, TypeOK, Regs
<1>9. SubmittedInv'
  <2>1. \A r \in Regs : MayGet(r)' => MayGet(r) /\ r \notin regs
    BY <1>1, <1>8 DEF MayGet
  <2> QED BY <1>1, <1>2, <1>3, <2>1, SubmitNotAhead DEF DispatchInv
<1>10. OwedInv'
  <2> SUFFICES ASSUME NEW r \in owed'
               PROVE  /\ ~done /\ held' = held /\ held # NoMessage
                      /\ r \in users \cup globals /\ EventOf[r] = e /\ r \in batch'
    BY <1>1, <1>2, <1>4 DEF OwedInv
  <2>1. r \in owed /\ r \notin regs /\ r \in Regs
    BY <1>2 DEF DispatchInv, TypeOK
  <2>2. ~done /\ r \in users \cup globals /\ EventOf[r] = e /\ r # Own
    BY <2>1, DispatchAssumption DEF DispatchInv, OwedInv
  <2>3. r \in batch
    BY <1>1, <1>3, <2>1, <2>2 DEF DispatchInv, OwedInv
  <2> QED BY <1>1, <2>2, <2>3
<1>11. TableInv'
  BY <1>1, <1>2, SameTables DEF DispatchInv
<1>12. FinalInv'
  <2>1. endedBy # "listener"
    BY <1>1 DEF DispatchInv, FinalInv
  <2> QED BY <1>1, <1>2, <2>1, SameFinal DEF DispatchInv
<1>13. LateInv'
  <2>1. /\ Leaked' = Leaked /\ Unlocked' /\ Pending' = Pending
        /\ Pending \subseteq Users
    BY <1>1, <1>2 DEF Leaked, Unlocked, Pending
  <2>2. \A r \in Regs : late'[r] = IF done /\ r \in regs THEN late[r] + 1 ELSE late[r]
    BY <1>2, <1>8, <2>1 DEF Submit
  <2>3. \A r \in Regs : late'[r] # 0 => endedBy' = "other" /\ EventOf[r] # "status"
    <3>1. done => endedBy = "other"
      BY <1>1, OtherEnded
    <3> QED BY <1>2, <1>3, <1>4, <2>2, <3>1 DEF DispatchInv, LateInv
  <2>4. \A u \in Users : late'[u] = late[u]
    BY <1>8, <2>2 DEF Regs
  <2>5. ASSUME ~Leaked, NEW u \in Users PROVE LateUser(u)'
    <3>1. LateUser(u)
      BY <2>5 DEF DispatchInv, LateInv
    <3> QED BY <1>1, <2>1, <2>4, <3>1 DEF LateUser
  <2>6. ASSUME ~Leaked, NEW g \in Globals PROVE LateGlobal(g)'
    <3>1. LateGlobal(g) /\ g \in Regs /\ late[g] \in Nat
      BY <2>6 DEF DispatchInv, LateInv, Regs, TypeOK
    <3>2. g \in regs => late[g] = 0
      BY <1>1, <1>3, <3>1 DEF LateGlobal
    <3>3. late'[g] <= 1
      BY <2>2, <3>1, <3>2 DEF LateGlobal
    <3>4. Own \notin batch'
      BY <1>1
    <3> QED BY <2>1, <3>3, <3>4 DEF LateGlobal
  <2>7. \A u \in Pending' : late'[u] = 0
    BY <2>1, <2>4 DEF DispatchInv, LateInv
  <2> QED BY <2>1, <2>3, <2>5, <2>6, <2>7 DEF LateInv
<1>14. InOrderOnce'
  <2>1. \A r \in regs : MayGet(r)
    BY <1>1, <1>3, <1>8 DEF MayGet
  <2>2. \A r \in regs : \A k \in DOMAIN submitted[r] : submitted[r][k].n < held.n
    BY <1>8, <2>1 DEF DispatchInv, SubmittedInv
  <2> QED BY <1>1, <1>2, <1>3, <2>2, SubmitInOrder DEF DispatchInv
<1> QED BY <1>5, <1>6, <1>7, <1>9, <1>10, <1>11, <1>12, <1>13, <1>14 DEF DispatchInv

\* The manager's own callback, of a status that comes too late.
LEMMA CallOwnTooLate ==
  ASSUME DispatchInv, CallOwn, Event(held.kind) = "status", done PROVE DispatchInv'
<1>1. /\ held # NoMessage /\ held \in Messages /\ batch' = batch \ {Own} /\ Own \in batch
      /\ held' \in {held, NoMessage} /\ (held' # NoMessage <=> batch' # {}) /\ Unlocked
      /\ UNCHANGED <<inbox, published, final, open, installed, users, globals, calls>>
      /\ batch' \subseteq {Own} \cup Users
  BY Returned DEF CallOwn, Called
<1>2. UNCHANGED <<submitted, late, owed, done, cleaning, endedBy>>
  BY DEF CallOwn, Apply, endVars, taskVars
<1>3. TypeOK'
  BY <1>1, <1>2 DEF DispatchInv, TypeOK
<1>4. BatchInv'
  BY <1>1 DEF DispatchInv, BatchInv
<1>5. OrderInv'
  BY <1>1, StillOrdered DEF DispatchInv
<1>6. SubmittedInv'
  <2>1. \A r \in Regs : MayGet(r)' => MayGet(r)
    BY <1>1 DEF MayGet
  <2> QED BY <1>1, <1>2, <2>1, NobodyAhead DEF DispatchInv
<1>7. OwedInv'
  <2>1. owed = {}
    BY DEF DispatchInv, OwedInv
  <2> QED BY <1>2, <2>1 DEF OwedInv
<1>8. TableInv'
  BY <1>1, <1>2, SameTables DEF DispatchInv
<1>9. FinalInv'
  <2>1. endedBy # "listener"
    BY <1>1 DEF DispatchInv, FinalInv
  <2> QED BY <1>1, <1>2, <2>1, SameFinal DEF DispatchInv
<1>10. LateInv'
  BY <1>1, <1>2, SameLate DEF DispatchInv, Pending
<1>11. InOrderOnce'
  BY <1>2, SameSubmitted DEF DispatchInv
<1> QED BY <1>3, <1>4, <1>5, <1>6, <1>7, <1>8, <1>9, <1>10, <1>11 DEF DispatchInv

\* The manager's own callback, of a status: the status listeners get the message.
LEMMA CallOwnStatus ==
  ASSUME DispatchInv, CallOwn, Event(held.kind) = "status", ~done PROVE DispatchInv'
<1> DEFINE regs == On(users \cup globals, "status")
<1>1. /\ held # NoMessage /\ held \in Messages /\ batch' = batch \ {Own} /\ Own \in batch
      /\ held' \in {held, NoMessage} /\ (held' # NoMessage <=> batch' # {}) /\ Unlocked
      /\ UNCHANGED <<inbox, published, final, open, installed, users, globals, calls>>
      /\ batch' \subseteq {Own} \cup Users
  BY Returned DEF CallOwn, Called
<1>2. /\ Submit(regs, held) /\ owed' = owed \ regs
      /\ \/ held.kind = "end" /\ done' = TRUE /\ cleaning' = "listener" /\ endedBy' = "listener"
         \/ UNCHANGED <<done, cleaning, endedBy>>
  BY DEF CallOwn, Apply, endVars
<1>3. /\ regs \in SUBSET Regs
      /\ \A r \in Regs : r \in regs <=> r \in users \cup globals /\ EventOf[r] = "status"
  BY DEF On, DispatchInv, TypeOK, Regs
<1> HIDE DEF regs
<1>4. TypeOK'
  <2>1. submitted' \in [Regs -> Seq(Messages)] /\ late' \in [Regs -> Nat]
    BY <1>1, <1>2, <1>3, SubmitTyped DEF DispatchInv
  <2>2. done' \in BOOLEAN /\ cleaning' \in {"nobody", "listener", "other"}
        /\ endedBy' \in {"nobody", "listener", "other"}
    BY <1>2 DEF DispatchInv, TypeOK
  <2> QED BY <1>1, <1>2, <2>1, <2>2 DEF DispatchInv, TypeOK
<1>5. endedBy = "nobody" /\ open # {}
  BY DEF DispatchInv, TableInv, Events
<1>6. BatchInv'
  BY <1>1 DEF DispatchInv, BatchInv
<1>7. OrderInv'
  BY <1>1, StillOrdered DEF DispatchInv
<1>8. SubmittedInv'
  <2>1. \A r \in Regs : ~MayGet(r)'
    <3>1. \A r \in Regs : r \in batch' => EventOf[r] = "status"
      BY <1>1, DispatchAssumption DEF DispatchInv, BatchInv
    <3>2. Own \notin batch'
      BY <1>1
    <3> QED BY <1>1, <3>1, <3>2 DEF MayGet
  <2> QED BY <1>1, <1>2, <1>3, <2>1, SubmitNotAhead DEF DispatchInv
<1>9. OwedInv'
  <2>1. \A r \in owed : r \in Regs /\ r \in users \cup globals /\ EventOf[r] = "status"
    BY DEF DispatchInv, OwedInv, TypeOK
  <2>2. owed' = {}
    BY <1>2, <1>3, <2>1
  <2> QED BY <2>2 DEF OwedInv
<1>10. TableInv'
  <2>1. CASE UNCHANGED <<done, cleaning, endedBy>>
    BY <1>1, <2>1, SameTables DEF DispatchInv
  <2>2. CASE done' = TRUE /\ cleaning' = "listener" /\ endedBy' = "listener"
    BY <1>1, <1>5, <2>2 DEF DispatchInv, TableInv, Unlocked
  <2> QED BY <1>2, <2>1, <2>2
<1>11. FinalInv'
  <2>1. CASE held.kind = "end" /\ endedBy' = "listener"
    <3>1. final /\ inbox = <<>>
      BY <1>1, <2>1 DEF DispatchInv, FinalInv
    <3> QED BY <1>1, <2>1, <3>1 DEF FinalInv
  <2>2. CASE endedBy' = endedBy
    BY <1>1, <1>5, <2>2, SameFinal DEF DispatchInv
  <2> QED BY <1>2, <2>1, <2>2
<1>12. LateInv'
  <2>1. \A r \in Regs : late[r] = 0
    BY NobodyLate DEF DispatchInv
  <2>2. \A r \in Regs : late'[r] = 0
    BY <1>2, <2>1 DEF Submit
  <2> QED BY <2>2, NoneIsLate
<1>13. InOrderOnce'
  <2>1. \A r \in regs : r \in Regs /\ MayGet(r)
    BY <1>1, <1>3 DEF MayGet
  <2>2. \A r \in regs : \A k \in DOMAIN submitted[r] : submitted[r][k].n < held.n
    BY <2>1 DEF DispatchInv, SubmittedInv
  <2> QED BY <1>1, <1>2, <1>3, <2>2, SubmitInOrder DEF DispatchInv
<1> QED BY <1>4, <1>6, <1>7, <1>8, <1>9, <1>10, <1>11, <1>12, <1>13 DEF DispatchInv

\* The callback of a status listener, which only ignores the message.
LEMMA CallStatusListener ==
  ASSUME DispatchInv, NEW u \in Users, CallUser(u), EventOf[u] = "status" PROVE DispatchInv'
<1>1. /\ held # NoMessage /\ held \in Messages
      /\ batch' = batch \ {u} /\ Own \notin batch /\ u \in batch
      /\ held' \in {held, NoMessage} /\ (held' # NoMessage <=> batch' # {})
      /\ UNCHANGED <<inbox, published, final, open, installed, users, globals, calls>>
      /\ batch' \subseteq {Own} \cup Users
  BY Returned DEF CallUser, Called
<1>2. u \in Regs /\ u # Own /\ EventOf[u] = Event(held.kind)
  BY <1>1, DispatchAssumption DEF DispatchInv, BatchInv, Regs
<1>3. UNCHANGED <<submitted, late, owed, done, cleaning, endedBy>>
  BY DEF CallUser, endVars, taskVars
<1>4. TypeOK'
  BY <1>1, <1>3 DEF DispatchInv, TypeOK
<1>5. BatchInv'
  BY <1>1 DEF DispatchInv, BatchInv
<1>6. OrderInv'
  BY <1>1, StillOrdered DEF DispatchInv
<1>7. SubmittedInv'
  <2>1. \A r \in Regs : MayGet(r)' => MayGet(r)
    BY <1>1 DEF MayGet
  <2> QED BY <1>1, <1>3, <2>1, NobodyAhead DEF DispatchInv
<1>8. OwedInv'
  <2>1. owed = {}
    BY <1>1, <1>2 DEF DispatchInv, OwedInv
  <2> QED BY <1>3, <2>1 DEF OwedInv
<1>9. TableInv'
  BY <1>1, <1>3, SameTables DEF DispatchInv
<1>10. FinalInv'
  BY <1>1, <1>3, SameFinal DEF DispatchInv
<1>11. LateInv'
  BY <1>1, <1>3, SameLate DEF DispatchInv, Pending
<1>12. InOrderOnce'
  BY <1>3, SameSubmitted DEF DispatchInv
<1> QED BY <1>4, <1>5, <1>6, <1>7, <1>8, <1>9, <1>10, <1>11, <1>12 DEF DispatchInv

\* The callback of another listener, which gets the message.
LEMMA CallListener ==
  ASSUME DispatchInv, NEW u \in Users, CallUser(u), EventOf[u] # "status" PROVE DispatchInv'
<1>1. /\ held # NoMessage /\ held \in Messages
      /\ batch' = batch \ {u} /\ Own \notin batch /\ u \in batch
      /\ held' \in {held, NoMessage} /\ (held' # NoMessage <=> batch' # {})
      /\ UNCHANGED <<inbox, published, final, open, installed, users, globals, calls>>
      /\ batch' \subseteq {Own} \cup Users
  BY Returned DEF CallUser, Called
<1>2. u \in Regs /\ u # Own /\ EventOf[u] = Event(held.kind)
  BY <1>1, DispatchAssumption DEF DispatchInv, BatchInv, Regs
<1>3. Submit({u}, held) /\ owed' = owed \ {u} /\ UNCHANGED <<done, cleaning, endedBy>>
  BY DEF CallUser, endVars
<1>4. {u} \in SUBSET Regs
  BY <1>2
<1>5. TypeOK'
  <2>1. submitted' \in [Regs -> Seq(Messages)] /\ late' \in [Regs -> Nat]
    BY <1>1, <1>3, <1>4, SubmitTyped DEF DispatchInv
  <2> QED BY <1>1, <1>3, <2>1 DEF DispatchInv, TypeOK
<1>6. BatchInv'
  BY <1>1 DEF DispatchInv, BatchInv
<1>7. OrderInv'
  BY <1>1, StillOrdered DEF DispatchInv
<1>8. SubmittedInv'
  <2>1. \A r \in Regs : MayGet(r)' => MayGet(r) /\ r \notin {u}
    BY <1>1 DEF MayGet
  <2> QED BY <1>1, <1>3, <1>4, <2>1, SubmitNotAhead DEF DispatchInv
<1>9. OwedInv'
  <2> SUFFICES ASSUME NEW r \in owed'
               PROVE  /\ ~done /\ held' = held /\ held # NoMessage
                      /\ r \in users \cup globals /\ EventOf[r] = Event(held.kind) /\ r \in batch'
    BY <1>1, <1>2, <1>3 DEF OwedInv
  <2>1. r \in owed /\ r # u
    BY <1>3
  <2>2. ~done /\ r \in users \cup globals /\ EventOf[r] = Event(held.kind) /\ r \in batch
    BY <1>1, <1>2, <2>1 DEF DispatchInv, OwedInv
  <2> QED BY <1>1, <2>1, <2>2
<1>10. TableInv'
  BY <1>1, <1>3, SameTables DEF DispatchInv
<1>11. FinalInv'
  BY <1>1, <1>3, SameFinal DEF DispatchInv
<1>12. LateInv'
  <2>1. Leaked' = Leaked /\ Unlocked' = Unlocked /\ Pending' = Pending
    BY <1>1, <1>3 DEF Leaked, Unlocked, Pending
  <2>2. /\ \A r \in Regs \ {u} : late'[r] = late[r]
        /\ late'[u] = IF done /\ u \notin Pending THEN late[u] + 1 ELSE late[u]
    BY <1>2, <1>3 DEF Submit
  <2>3. \A r \in Regs : late'[r] # 0 => endedBy' = "other" /\ EventOf[r] # "status"
    <3>1. done => endedBy = "other"
      BY <1>1, <1>2, OtherEnded
    <3> QED BY <1>3, <2>2, <3>1 DEF DispatchInv, LateInv
  <2>4. \A v \in Pending' : late'[v] = 0
    <3>1. \A v \in Pending : v \in Regs /\ late[v] = 0
      BY DEF DispatchInv, LateInv, Pending, Regs
    <3> QED BY <2>1, <2>2, <3>1
  <2>5. ASSUME ~Leaked, NEW v \in Users PROVE LateUser(v)'
    <3>1. LateUser(v) /\ v \in Regs /\ late[v] \in Nat
      BY <2>5 DEF DispatchInv, LateInv, Regs, TypeOK
    <3>2. CASE v = u
      <4>1. late[u] <= 1 /\ (~Unlocked => late[u] = 0) /\ late[u] \in Nat
        BY <1>1, <3>1, <3>2 DEF LateUser
      <4>2. late'[u] <= 2 /\ (~Unlocked' => late'[u] <= 1)
        BY <2>1, <2>2, <4>1
      <4>3. u \notin batch'
        BY <1>1
      <4> QED BY <3>2, <4>2, <4>3 DEF LateUser
    <3>3. CASE v # u
      <4>1. late'[v] = late[v]
        BY <2>2, <3>1, <3>3
      <4> QED BY <1>1, <2>1, <3>1, <4>1 DEF LateUser
    <3> QED BY <3>2, <3>3
  <2>6. ASSUME ~Leaked, NEW g \in Globals PROVE LateGlobal(g)'
    <3>1. LateGlobal(g) /\ late'[g] = late[g]
      BY <2>2, <2>6, DispatchAssumption DEF DispatchInv, LateInv, Regs
    <3>2. Own \notin batch'
      BY <1>1
    <3> QED BY <2>1, <3>1, <3>2 DEF LateGlobal
  <2> QED BY <2>1, <2>3, <2>4, <2>5, <2>6 DEF LateInv
<1>13. InOrderOnce'
  <2>1. MayGet(u)
    BY <1>1 DEF MayGet
  <2>2. \A r \in {u} : \A k \in DOMAIN submitted[r] : submitted[r][k].n < held.n
    BY <1>1, <1>2, <2>1 DEF DispatchInv, SubmittedInv
  <2> QED BY <1>1, <1>3, <1>4, <2>2, SubmitInOrder DEF DispatchInv
<1> QED BY <1>5, <1>6, <1>7, <1>8, <1>9, <1>10, <1>11, <1>12, <1>13 DEF DispatchInv

-----------------------------------------------------------------------------
(* Registrations and the cleanup. *)

\* The state the listener thread and the worker keep, which registrations and the
\* cleanup leave alone.
listenerVars == <<inbox, held, batch, submitted, late, published, final, done, endedBy>>

\* What is owed is owed to registrations that stay; the tables are what the steps show.
LEMMA RegisteringStep ==
  ASSUME DispatchInv, UNCHANGED listenerVars,
         open' \subseteq Events, installed' \subseteq Users, users' \subseteq Users,
         globals' \subseteq Globals, calls' \in [Users -> {"none", "checked", "subscribed"}],
         cleaning' \in {"nobody", "listener", "other"},
         owed' \subseteq owed,
         \A r \in owed' : (r \in users => r \in users') /\ (r \in globals => r \in globals'),
         TableInv', LateInv'
  PROVE  DispatchInv'
<1>1. UNCHANGED <<inbox, held, batch, submitted, late, published, final, done, endedBy>>
  BY DEF listenerVars
<1>2. TypeOK'
  BY <1>1 DEF DispatchInv, TypeOK
<1>3. BatchInv'
  BY <1>1 DEF DispatchInv, BatchInv
<1>4. OrderInv'
  BY <1>1, StillOrdered DEF DispatchInv
<1>5. SubmittedInv'
  <2>1. \A r \in Regs : MayGet(r)' => MayGet(r)
    BY <1>1 DEF MayGet
  <2> QED BY <1>1, <2>1, NobodyAhead DEF DispatchInv
<1>6. OwedInv'
  BY <1>1 DEF DispatchInv, OwedInv
<1>7. FinalInv'
  BY <1>1 DEF DispatchInv, FinalInv
<1>8. InOrderOnce'
  BY <1>1, SameSubmitted DEF DispatchInv
<1> QED BY <1>2, <1>3, <1>4, <1>5, <1>6, <1>7, <1>8 DEF DispatchInv

\* A topic is cleaned up, and the cleanup goes on, is through, or raises.
LEMMA CleanupStep ==
  ASSUME DispatchInv, NEW e \in Events, DropTopic(e) \/ DropRaises(e) PROVE DispatchInv'
<1>1. /\ ~Unlocked /\ e \in open /\ open' = open \ {e}
      /\ installed' = installed \ On(installed, e) /\ users' = users \ On(users, e)
      /\ UNCHANGED <<inbox, held, batch, submitted, late, published, final, done, endedBy,
                     globals, calls, owed>>
  BY DEF DropTopic, DropRaises, Drop, Unlocked, taskVars, histVars
<1>2. cleaning' = "nobody" \/ (cleaning' = cleaning /\ open' # {})
  BY DEF DropTopic, DropRaises
<1>3. done /\ owed = {}
  BY <1>1 DEF DispatchInv, TableInv, OwedInv
<1>4. TableInv'
  <2>1. ~Unlocked' => done' /\ cleaning' = endedBy' /\ open' # {}
    BY <1>1, <1>2, <1>3 DEF DispatchInv, TableInv, Unlocked
  <2>2. \A u \in users' : u \in installed' /\ EventOf[u] \in open' /\ calls'[u] = "none"
    BY <1>1 DEF DispatchInv, TableInv, On
  <2>3. \A u \in installed' : u \in users' \/ calls'[u] = "subscribed"
    BY <1>1 DEF DispatchInv, TableInv, On
  <2>4. done' /\ (done' <=> endedBy' # "nobody")
    BY <1>1, <1>3 DEF DispatchInv, TableInv
  <2> QED BY <2>1, <2>2, <2>3, <2>4 DEF TableInv
<1>5. LateInv'
  <2>1. ~Leaked
    BY <1>1 DEF Leaked
  <2>2. ASSUME NEW u \in Users PROVE LateUser(u)'
    <3>1. LateUser(u) /\ late[u] \in Nat
      BY <2>1 DEF DispatchInv, LateInv, TypeOK, Regs
    <3>2. late[u] <= 1 /\ (late[u] = 1 /\ u \in batch => Own \in batch)
      BY <1>1, <3>1 DEF LateUser
    <3>3. late[u] <= 2
      BY <3>1, <3>2
    <3> QED BY <1>1, <3>2, <3>3 DEF LateUser
  <2>3. ASSUME NEW g \in Globals PROVE LateGlobal(g)'
    <3>1. late[g] = 0
      BY <1>1, <2>1 DEF DispatchInv, LateInv, LateGlobal
    <3> QED BY <1>1, <3>1 DEF LateGlobal
  <2>4. Pending' = Pending
    BY <1>1 DEF Pending
  <2> QED BY <1>1, <2>2, <2>3, <2>4 DEF DispatchInv, LateInv
<1>6. /\ open' \subseteq Events /\ installed' \subseteq Users /\ users' \subseteq Users
      /\ globals' \subseteq Globals /\ calls' \in [Users -> {"none", "checked", "subscribed"}]
      /\ cleaning' \in {"nobody", "listener", "other"}
  BY <1>1, <1>2 DEF DispatchInv, TypeOK
<1> QED BY <1>1, <1>3, <1>4, <1>5, <1>6, RegisteringStep DEF listenerVars

\* listen() finds the job active: so far nobody is late.
LEMMA CheckStep ==
  ASSUME DispatchInv, NEW u \in Users, Check(u) PROVE DispatchInv'
<1>1. /\ ~done /\ u \notin users /\ calls[u] = "none"
      /\ calls' = [calls EXCEPT ![u] = "checked"]
      /\ UNCHANGED <<inbox, held, batch, submitted, late, published, final, done, endedBy,
                     open, installed, users, globals, cleaning, owed>>
  BY DEF Check, tableVars, endVars, taskVars, histVars
<1>2. /\ calls \in [Users -> {"none", "checked", "subscribed"}]
      /\ calls' \in [Users -> {"none", "checked", "subscribed"}]
      /\ \A v \in Users : v # u => calls'[v] = calls[v]
      /\ calls'[u] = "checked"
  BY <1>1 DEF DispatchInv, TypeOK
<1>3. TableInv'
  BY <1>1, <1>2 DEF DispatchInv, TableInv, TypeOK, Unlocked
<1>4. LateInv'
  BY <1>1, NobodyLate, NoneIsLate DEF DispatchInv
<1>5. /\ open' \subseteq Events /\ installed' \subseteq Users /\ users' \subseteq Users
      /\ globals' \subseteq Globals /\ cleaning' \in {"nobody", "listener", "other"}
  BY <1>1 DEF DispatchInv, TypeOK
<1> QED BY <1>1, <1>2, <1>3, <1>4, <1>5, RegisteringStep DEF listenerVars

\* listen() puts its callback into the client's table.
LEMMA SubscribeStep ==
  ASSUME DispatchInv, NEW u \in Users, Subscribe(u) PROVE DispatchInv'
<1>1. /\ calls[u] = "checked" /\ installed' = installed \cup {u}
      /\ calls' = [calls EXCEPT ![u] = "subscribed"]
      /\ UNCHANGED <<inbox, held, batch, submitted, late, published, final, done, endedBy,
                     open, users, globals, cleaning, owed>>
  BY DEF Subscribe, endVars, taskVars, histVars
<1>2. /\ calls \in [Users -> {"none", "checked", "subscribed"}]
      /\ calls' \in [Users -> {"none", "checked", "subscribed"}]
      /\ \A v \in Users : v # u => calls'[v] = calls[v]
      /\ calls'[u] = "subscribed" /\ installed \subseteq Users /\ users \subseteq Users
  BY <1>1 DEF DispatchInv, TypeOK
<1>3. TableInv'
  BY <1>1, <1>2 DEF DispatchInv, TableInv, Unlocked
<1>4. LateInv'
  <2>1. Pending' \subseteq Pending
    BY <1>1, <1>2 DEF Pending
  <2> QED BY <1>1, <2>1, SameLate DEF DispatchInv
<1>5. /\ open' \subseteq Events /\ installed' \subseteq Users /\ users' \subseteq Users
      /\ globals' \subseteq Globals /\ cleaning' \in {"nobody", "listener", "other"}
  BY <1>1 DEF DispatchInv, TypeOK
<1> QED BY <1>1, <1>2, <1>3, <1>4, <1>5, RegisteringStep DEF listenerVars

\* SUBSCRIBE raises, and listen() with it.
LEMMA SubscribeRaisesStep ==
  ASSUME DispatchInv, NEW u \in Users, SubscribeRaises(u) PROVE DispatchInv'
<1>1. /\ calls[u] = "checked" /\ calls' = [calls EXCEPT ![u] = "none"]
      /\ UNCHANGED <<inbox, held, batch, submitted, late, published, final, done, endedBy,
                     open, installed, users, globals, cleaning, owed>>
  BY DEF SubscribeRaises, tableVars, endVars, taskVars, histVars
<1>2. /\ calls \in [Users -> {"none", "checked", "subscribed"}]
      /\ calls' \in [Users -> {"none", "checked", "subscribed"}]
      /\ \A v \in Users : v # u => calls'[v] = calls[v]
      /\ calls'[u] = "none" /\ installed \subseteq Users /\ users \subseteq Users
  BY <1>1 DEF DispatchInv, TypeOK
<1>3. TableInv'
  BY <1>1, <1>2 DEF DispatchInv, TableInv, Unlocked
<1>4. LateInv'
  <2>1. Pending' \subseteq Pending
    BY <1>1, <1>2 DEF Pending
  <2> QED BY <1>1, <2>1, SameLate DEF DispatchInv
<1>5. /\ open' \subseteq Events /\ installed' \subseteq Users /\ users' \subseteq Users
      /\ globals' \subseteq Globals /\ cleaning' \in {"nobody", "listener", "other"}
  BY <1>1 DEF DispatchInv, TypeOK
<1> QED BY <1>1, <1>2, <1>3, <1>4, <1>5, RegisteringStep DEF listenerVars

\* listen() registers its callback, or takes it out of a job that is done by now.
LEMMA RegisterStep ==
  ASSUME DispatchInv, NEW u \in Users, Register(u) PROVE DispatchInv'
<1>1. /\ Unlocked /\ calls[u] = "subscribed" /\ calls' = [calls EXCEPT ![u] = "none"]
      /\ UNCHANGED <<inbox, held, batch, submitted, late, published, final, done, endedBy,
                     open, globals, cleaning, owed>>
  BY DEF Register, endVars, taskVars, histVars
<1>2. /\ done => installed' = installed \ {u} /\ users' = users
      /\ ~done => users' = users \cup {u} /\ installed' = installed
  BY DEF Register
<1>3. /\ calls \in [Users -> {"none", "checked", "subscribed"}]
      /\ calls' \in [Users -> {"none", "checked", "subscribed"}]
      /\ \A v \in Users : v # u => calls'[v] = calls[v]
      /\ calls'[u] = "none" /\ installed \subseteq Users /\ users \subseteq Users
  BY <1>1 DEF DispatchInv, TypeOK
<1>4. TableInv'
  <2>1. CASE done
    BY <1>1, <1>2, <1>3, <2>1 DEF DispatchInv, TableInv, Unlocked
  <2>2. CASE ~done
    <3>1. EventOf[u] \in open /\ u \in installed
      BY <1>1, <2>2, DispatchAssumption DEF DispatchInv, TableInv, Regs
    <3> QED BY <1>1, <1>2, <1>3, <2>2, <3>1 DEF DispatchInv, TableInv, Unlocked
  <2> QED BY <2>1, <2>2
<1>5. LateInv'
  <2>1. Pending' \subseteq Pending
    BY <1>1, <1>3 DEF Pending
  <2> QED BY <1>1, <2>1, SameLate DEF DispatchInv
<1>6. /\ open' \subseteq Events /\ installed' \subseteq Users /\ users' \subseteq Users
      /\ globals' \subseteq Globals /\ cleaning' \in {"nobody", "listener", "other"}
      /\ users \subseteq users'
  BY <1>1, <1>2, <1>3 DEF DispatchInv, TypeOK
<1> QED BY <1>1, <1>3, <1>4, <1>5, <1>6, RegisteringStep DEF listenerVars

\* Who leaves is owed nothing any more.
LEMMA UnlistenStep ==
  ASSUME DispatchInv, NEW u \in Users, Unlisten(u) PROVE DispatchInv'
<1>1. /\ u \in users /\ users' = users \ {u} /\ installed' = installed \ {u}
      /\ owed' = owed \ {u}
      /\ UNCHANGED <<inbox, held, batch, submitted, late, published, final, done, endedBy,
                     open, globals, calls, cleaning>>
  BY DEF Unlisten, endVars, histVars
<1>2. TableInv'
  BY <1>1 DEF DispatchInv, TableInv, Unlocked
<1>3. LateInv'
  BY <1>1, SameLate DEF DispatchInv, Pending
<1>4. /\ open' \subseteq Events /\ installed' \subseteq Users /\ users' \subseteq Users
      /\ globals' \subseteq Globals /\ calls' \in [Users -> {"none", "checked", "subscribed"}]
      /\ cleaning' \in {"nobody", "listener", "other"}
  BY <1>1 DEF DispatchInv, TypeOK
<1> QED BY <1>1, <1>2, <1>3, <1>4, RegisteringStep DEF listenerVars

\* Manager-wide listeners come and go.
LEMMA GlobalStep ==
  ASSUME DispatchInv, NEW g \in Globals, ListenGlobal(g) \/ UnlistenGlobal(g) PROVE DispatchInv'
<1>1. /\ globals' \subseteq Globals /\ owed' \subseteq owed
      /\ \A r \in owed' : r \in globals => r \in globals'
      /\ UNCHANGED <<inbox, held, batch, submitted, late, published, final, done, endedBy,
                     open, installed, users, calls, cleaning>>
  BY DEF ListenGlobal, UnlistenGlobal, tableVars, endVars, taskVars, histVars, DispatchInv, TypeOK
<1>2. TableInv'
  BY <1>1, SameTables DEF DispatchInv
<1>3. LateInv'
  BY <1>1, SameLate DEF DispatchInv, Pending
<1>4. /\ open' \subseteq Events /\ installed' \subseteq Users /\ users' \subseteq Users
      /\ calls' \in [Users -> {"none", "checked", "subscribed"}]
      /\ cleaning' \in {"nobody", "listener", "other"}
  BY <1>1 DEF DispatchInv, TypeOK
<1> QED BY <1>1, <1>2, <1>3, <1>4, RegisteringStep DEF listenerVars

\* The worker's next message is the last of those on their way.
LEMMA PublishStep ==
  ASSUME DispatchInv, NEW kind \in Sent, Publish(kind) PROVE DispatchInv'
<1> DEFINE m == [n |-> published + 1, kind |-> kind]
<1>1. /\ published < MaxMessages /\ published \in Nat /\ MaxMessages \in Nat
      /\ published' = published + 1 /\ final' \in BOOLEAN
      /\ inbox \in Seq(Messages) /\ inbox' = Append(inbox, m)
      /\ ~final /\ (kind = "end" => final') /\ kind \in Kinds
      /\ UNCHANGED <<held, batch, open, installed, users, globals, calls, done, cleaning, endedBy,
                     submitted, late, owed>>
  <2>1. /\ published < MaxMessages /\ published' = published + 1 /\ ~final
        /\ final' = (kind = "end") /\ inbox' = Append(inbox, m)
    BY DEF Publish
  <2>2. MaxMessages \in Nat /\ kind \in Kinds
    BY DispatchAssumption
  <2>3. published \in Nat /\ inbox \in Seq(Messages)
    BY <2>2 DEF DispatchInv, TypeOK
  <2>4. UNCHANGED <<held, batch, open, installed, users, globals, calls, done, cleaning, endedBy,
                    submitted, late, owed>>
    BY DEF Publish, tableVars, listenVars, endVars, taskVars
  <2> QED BY <2>1, <2>2, <2>3, <2>4
<1>2. m \in Messages /\ m.n = published + 1 /\ m.kind = kind
  BY <1>1 DEF Messages
<1> HIDE DEF m
<1>3. inbox' \in Seq(Messages)
  BY <1>1, <1>2, AppendTyped
<1>4. \A k \in DOMAIN inbox' : \/ k = Len(inbox) + 1 /\ inbox'[k] = m
                               \/ k \in DOMAIN inbox /\ inbox'[k] = inbox[k]
  BY <1>1, <1>2, AppendItems
<1>5. Len(inbox) \in Nat /\ \A k \in DOMAIN inbox : k \in 1..Len(inbox) /\ inbox[k].n \in Nat
  <2>1. Len(inbox) \in Nat /\ \A k \in DOMAIN inbox : k \in 1..Len(inbox) /\ inbox[k] \in Messages
    BY <1>1
  <2> QED BY <2>1, Kinded
<1>6. TypeOK'
  <2>1. published' \in 0..MaxMessages
    BY <1>1
  <2> QED BY <1>1, <1>3, <2>1 DEF DispatchInv, TypeOK
<1>7. BatchInv'
  BY <1>1 DEF DispatchInv, BatchInv
<1>8. OrderInv'
  <2>1. held # NoMessage => 0 < held.n /\ held.n \in Nat /\ held.n <= published
    BY HeldTyped DEF DispatchInv, OrderInv
  <2>2. \A k \in DOMAIN inbox : /\ 0 < inbox[k].n /\ inbox[k].n <= published
                                /\ held # NoMessage => held.n < inbox[k].n
    BY DEF DispatchInv, OrderInv
  <2>3. \A k \in DOMAIN inbox' : /\ 0 < inbox'[k].n /\ inbox'[k].n <= published'
                                 /\ held # NoMessage => held.n < inbox'[k].n
    BY <1>1, <1>2, <1>4, <1>5, <2>1, <2>2
  <2>4. ASSUME NEW k \in DOMAIN inbox', NEW l \in DOMAIN inbox', k < l
        PROVE  inbox'[k].n < inbox'[l].n
    <3>1. k \in DOMAIN inbox /\ inbox'[k] = inbox[k]
      BY <1>4, <1>5, <2>4
    <3>2. CASE l = Len(inbox) + 1 /\ inbox'[l] = m
      BY <1>1, <1>2, <1>5, <2>2, <3>1, <3>2
    <3>3. CASE l \in DOMAIN inbox /\ inbox'[l] = inbox[l]
      BY <2>4, <3>1, <3>3 DEF DispatchInv, OrderInv
    <3> QED BY <1>4, <3>2, <3>3
  <2>5. held' # NoMessage => 0 < held'.n /\ held'.n <= published'
    BY <1>1, <2>1
  <2> QED BY <1>1, <2>3, <2>4, <2>5 DEF OrderInv
<1>9. SubmittedInv'
  <2> SUFFICES ASSUME NEW r \in Regs, NEW k \in DOMAIN submitted[r]
               PROVE  /\ submitted[r][k].n <= published'
                      /\ \A l \in DOMAIN inbox' : submitted[r][k].n < inbox'[l].n
                      /\ held # NoMessage => submitted[r][k].n <= held.n
                      /\ MayGet(r)' => submitted[r][k].n < held.n
    BY <1>1 DEF SubmittedInv
  <2>1. MayGet(r)' => MayGet(r)
    BY <1>1 DEF MayGet
  <2>2. submitted[r][k].n \in Nat
    BY ItemTyped DEF DispatchInv
  <2>3. submitted[r][k].n <= published /\ \A l \in DOMAIN inbox : submitted[r][k].n < inbox[l].n
    BY DEF DispatchInv, SubmittedInv
  <2>4. \A l \in DOMAIN inbox' : submitted[r][k].n < inbox'[l].n
    BY <1>1, <1>2, <1>4, <2>2, <2>3
  <2>5. /\ held # NoMessage => submitted[r][k].n <= held.n
        /\ MayGet(r)' => submitted[r][k].n < held.n
    BY <2>1 DEF DispatchInv, SubmittedInv
  <2> QED BY <1>1, <2>2, <2>3, <2>4, <2>5
<1>10. OwedInv'
  BY <1>1 DEF DispatchInv, OwedInv
<1>11. TableInv'
  BY <1>1, SameTables DEF DispatchInv
<1>12. FinalInv'
  <2>1. /\ \A k \in DOMAIN inbox : inbox[k].kind # "end"
        /\ held # NoMessage => held.kind # "end"
        /\ endedBy # "listener"
    BY <1>1 DEF DispatchInv, FinalInv
  <2>2. ASSUME NEW k \in DOMAIN inbox', inbox'[k].kind = "end" PROVE final' /\ k = Len(inbox')
    <3>1. k = Len(inbox) + 1 /\ inbox'[k] = m
      BY <1>4, <2>1, <2>2
    <3>2. Len(inbox') = Len(inbox) + 1
      BY <1>1
    <3> QED BY <1>1, <1>2, <2>2, <3>1, <3>2
  <2> QED BY <1>1, <2>1, <2>2 DEF FinalInv
<1>13. LateInv'
  BY <1>1, SameLate DEF DispatchInv, Pending
<1>14. InOrderOnce'
  BY <1>1, SameSubmitted DEF DispatchInv
<1> QED BY <1>6, <1>7, <1>8, <1>9, <1>10, <1>11, <1>12, <1>13, <1>14 DEF DispatchInv

-----------------------------------------------------------------------------
(* The theorems. *)

\* Whatever the listener thread, the worker, the users and the threads that complete
\* jobs and clean up after them do, in any order and with any UNSUBSCRIBE raising, the
\* inductive invariant of Dispatch holds.
THEOREM DispatchInvariant == Spec => []DispatchInv
<1>1. Init => DispatchInv
  <2> SUFFICES ASSUME Init PROVE DispatchInv
    OBVIOUS
  <2>1. TypeOK
    <3>1. inbox \in Seq(Messages) /\ submitted \in [Regs -> Seq(Messages)]
      BY DEF Init
    <3>2. late \in [Regs -> Nat]
      BY DEF Init
    <3>3. published \in 0..MaxMessages
      BY DispatchAssumption DEF Init
    <3>4. calls \in [Users -> {"none", "checked", "subscribed"}]
      BY DEF Init
    <3> QED BY <3>1, <3>2, <3>3, <3>4 DEF Init, TypeOK
  <2>2. BatchInv /\ OwedInv /\ TableInv /\ FinalInv
    BY DEF Init, BatchInv, OwedInv, TableInv, FinalInv, Unlocked
  <2>3. LateInv
    BY DEF Init, LateInv, LateUser, LateGlobal, Pending, Regs
  <2>4. OrderInv /\ SubmittedInv /\ InOrderOnce
    BY DEF Init, OrderInv, SubmittedInv, InOrderOnce
  <2> QED BY <2>1, <2>2, <2>3, <2>4 DEF DispatchInv
<1>2. DispatchInv /\ [Next]_vars => DispatchInv'
  <2> SUFFICES ASSUME DispatchInv, [Next]_vars PROVE DispatchInv'
    OBVIOUS
  <2>1. ASSUME Take PROVE DispatchInv'
    BY <2>1, TakeStep
  <2>2. ASSUME Skip PROVE DispatchInv'
    BY <2>2, SkipStep
  <2>3. ASSUME Copy PROVE DispatchInv'
    BY <2>3, CopyStep
  <2>4. ASSUME CallOwn PROVE DispatchInv'
    BY <2>4, CallOwnOther, CallOwnTooLate, CallOwnStatus
  <2>5. ASSUME NEW u \in Users, CallUser(u) PROVE DispatchInv'
    BY <2>5, CallStatusListener, CallListener
  <2>6. ASSUME EndByOther PROVE DispatchInv'
    BY <2>6, EndByOtherStep
  <2>7. ASSUME Cleanup PROVE DispatchInv'
    BY <2>7, CleanupStep DEF Cleanup
  <2>8. ASSUME NEW u \in Users, Listen(u) \/ Unlisten(u) PROVE DispatchInv'
    BY <2>8, CheckStep, SubscribeStep, SubscribeRaisesStep, RegisterStep, UnlistenStep DEF Listen
  <2>9. ASSUME NEW g \in Globals, ListenGlobal(g) \/ UnlistenGlobal(g) PROVE DispatchInv'
    BY <2>9, GlobalStep
  <2>10. ASSUME NEW k \in Sent, Publish(k) PROVE DispatchInv'
    BY <2>10, PublishStep
  <2>11. CASE UNCHANGED vars
    BY <2>11 DEF vars, tableVars, listenVars, endVars, taskVars, histVars, DispatchInv, TypeOK,
                 BatchInv, TableInv, FinalInv, OrderInv, SubmittedInv, MayGet, OwedInv, LateInv,
                 LateUser, LateGlobal, Pending, Leaked, Unlocked, InOrderOnce
  <2> QED BY <2>1, <2>2, <2>3, <2>4, <2>5, <2>6, <2>7, <2>8, <2>9, <2>10, <2>11 DEF Next, Listener
<1> QED BY <1>1, <1>2, PTL DEF Spec

\* A registration is handed the worker's messages in the order they were published,
\* each at most once, on both paths through apply_status and wrapped_callback.
THEOREM MessagesInOrder == Spec => []InOrderOnce
<1>1. DispatchInv => InOrderOnce
  BY DEF DispatchInv
<1> QED BY <1>1, DispatchInvariant, PTL

\* Once the listener thread has let go of a message, each registration that was there
\* when it was taken, and stayed, has it, unless another thread completed the job.
THEOREM EverybodyIsServed == Spec => []NobodyLeftOut
<1>1. DispatchInv => NobodyLeftOut
  BY DEF DispatchInv, OwedInv, NobodyLeftOut
<1> QED BY <1>1, DispatchInvariant, PTL

\* After the end nothing is heard of a job whose worker reported it, and a status
\* listener hears nothing in any case; if another thread completed the job, a
\* manager-wide listener is given at most one more message and a user's at most two,
\* unless the cleanup raised.
THEOREM EndIsTheLast == Spec => []NothingAfterTheEnd
<1>1. DispatchInv => NothingAfterTheEnd
  <2> SUFFICES ASSUME DispatchInv, NEW r \in Regs, ~(Leaked /\ LateBound(r) # 0)
               PROVE  late[r] <= LateBound(r)
    BY DEF NothingAfterTheEnd
  <2>1. late[r] \in Nat
    BY DEF DispatchInv, TypeOK
  <2>2. CASE EventOf[r] = "status" \/ endedBy # "other"
    BY <2>1, <2>2 DEF DispatchInv, LateInv, LateBound
  <2>3. CASE ~(EventOf[r] = "status" \/ endedBy # "other")
    <3>1. ~Leaked
      BY <2>3 DEF LateBound
    <3>2. CASE r \in Globals
      BY <2>3, <3>1, <3>2 DEF DispatchInv, LateInv, LateGlobal, LateBound
    <3>3. CASE r \notin Globals
      BY <2>3, <3>1, <3>3 DEF DispatchInv, LateInv, LateUser, LateBound, Regs
    <3> QED BY <3>2, <3>3
  <2> QED BY <2>2, <2>3
<1> QED BY <1>1, DispatchInvariant, PTL
=============================================================================
