------------------------- MODULE AlertDigests_proofs -------------------------
(***************************************************************************)
(* Theorems about AlertDigests, for any number of groups, channels,        *)
(* handlers and flushes, and any window.                                   *)
(***************************************************************************)
EXTENDS AlertDigests, TLAPS

LEMMA AgesBounds == Ages \subseteq Int /\ 0 \in Ages /\ Window \in Ages /\ \A a \in Ages : a <= Window
BY ConstantsAssumption DEF Ages

LEMMA ArmedType ==
  ASSUME NEW kind \in Kinds
  PROVE  Armed(kind) \in Entry
BY AgesBounds DEF Armed, Entry

LEMMA AfterDueType ==
  ASSUME NEW entry \in Entry \union {None}
  PROVE  AfterDue(entry) \in Entry \union {None}
<1>1. ASSUME entry \in Entry
      PROVE  Restarted(entry) \in Entry
  BY <1>1, AgesBounds DEF Restarted, Entry
<1> QED
  BY <1>1 DEF AfterDue, Elapsed

LEMMA CountedType ==
  ASSUME NEW entry \in Entry
  PROVE  [entry EXCEPT !.count = @ + 1] \in Entry
BY DEF Entry

LEMMA OlderType ==
  ASSUME NEW a \in Ages
  PROVE  Older(a) \in Ages /\ a <= Older(a) /\ \A b \in Ages : a <= b => Older(a) <= Older(b)
BY ConstantsAssumption DEF Older, Ages

LEMMA OlderEntryType ==
  ASSUME NEW entry \in Entry
  PROVE  [entry EXCEPT !.age = Older(@)] \in Entry
BY OlderType DEF Entry

LEMMA DueType ==
  ASSUME TypeOK
  PROVE  Due \subseteq Digest
<1> SUFFICES ASSUME NEW g \in Groups, Ready(g)
             PROVE  [group |-> g, count |-> entries[g].count, kind |-> entries[g].kind] \in Digest
  BY DEF Due
<1>1. entries[g] \in Entry
  BY DEF Ready, Elapsed, TypeOK
<1> QED
  BY <1>1 DEF Digest, Entry

---------------------------------------------------------------------------
(* Types *)

LEMMA TypeInit == Init => TypeOK
<1> SUFFICES ASSUME Init PROVE TypeOK
  OBVIOUS
<1>1. budget \in [hits : Nat, relapses : Nat, edits : Nat, restarts : Nat]
  BY ConstantsAssumption DEF Init
<1>2. Resting \in Alert /\ Empty \in Round
  BY DEF Alert, Round, Empty
<1>3. refused \in [Groups -> SUBSET {"silent", "restart", "active"}]
  BY DEF Init
<1> QED
  BY <1>1, <1>2, <1>3, AgesBounds DEF Init, TypeOK

LEMMA NotableType ==
  ASSUME TypeOK, NEW g \in Groups, NEW kind \in Kinds, Notable(g, kind)
  PROVE  alert' \in [Alerts -> Alert]
<1>1. [Resting EXCEPT !.at = "channels", !.group = g, !.kind = kind] \in Alert
  BY DEF Resting, Alert
<1> QED
  BY <1>1 DEF Notable, Handle, TypeOK

LEMMA TypeEvent ==
  ASSUME TypeOK, NEW g \in Groups, Event(g)
  PROVE  TypeOK'
<1>1. CASE OnGroupOpened(g)
  <2>1. alert' \in [Alerts -> Alert]
    BY <1>1, NotableType DEF OnGroupOpened, Kinds
  <2> QED
    BY <1>1, <2>1 DEF OnGroupOpened, Quiet, TypeOK
<1>2. CASE OnGroupRegressed(g)
  <2>1. alert' \in [Alerts -> Alert]
    BY <1>2, NotableType DEF OnGroupRegressed, Kinds
  <2>2. budget' \in [hits : Nat, relapses : Nat, edits : Nat, restarts : Nat]
    <3>1. budget \in [hits : Nat, relapses : Nat, edits : Nat, restarts : Nat]
      BY DEF TypeOK
    <3>2. budget.relapses > 0 /\ budget' = [budget EXCEPT !.relapses = @ - 1]
      BY <1>2 DEF OnGroupRegressed
    <3> QED
      BY <3>1, <3>2
  <2> QED
    BY <1>2, <2>1, <2>2 DEF OnGroupRegressed, Quiet, TypeOK
<1>3. CASE OnGroupRecurred(g)
  <2>1. budget' \in [hits : Nat, relapses : Nat, edits : Nat, restarts : Nat]
    BY <1>3 DEF OnGroupRecurred, TypeOK
  <2>2. age' \in [process : Ages, digest : [Groups -> Ages], sign : [Groups -> Ages]]
    <3>1. age \in [process : Ages, digest : [Groups -> Ages], sign : [Groups -> Ages]]
      BY DEF TypeOK
    <3>2. PICK a \in Ages : age' = [age EXCEPT !.sign = [@ EXCEPT ![g] = a]]
      <4>1. CASE age' = [age EXCEPT !.sign[g] = 0]
        BY <4>1, AgesBounds
      <4>2. CASE age' = [age EXCEPT !.sign[g] = IF @ = Window THEN @ ELSE 0]
        <5>1. age.sign[g] \in Ages
          BY <3>1
        <5> QED
          BY <4>2, <5>1, AgesBounds
      <4> QED
        BY <1>3, <4>1, <4>2 DEF OnGroupRecurred
    <3>3. [age.sign EXCEPT ![g] = a] \in [Groups -> Ages]
      BY <3>1
    <3> QED
      BY <3>1, <3>2, <3>3
  <2>3. CASE entries[g] # None
    <3>1. entries[g] \in Entry
      BY <2>3 DEF TypeOK
    <3>2. entries' = [entries EXCEPT ![g] = [entries[g] EXCEPT !.count = @ + 1]]
      BY <1>3, <2>3 DEF OnGroupRecurred
    <3>3. entries' \in [Groups -> Entry \union {None}]
      BY <3>1, <3>2, CountedType DEF TypeOK
    <3>4. counted' \in [Groups -> Nat] /\ refused' = refused
      BY <1>3, <2>3 DEF OnGroupRecurred, TypeOK
    <3> QED
      BY <1>3, <2>1, <2>2, <3>3, <3>4 DEF OnGroupRecurred, TypeOK
  <2>4. CASE entries[g] = None
    <3>1. Reason(g) \in {"silent", "restart", "active"}
      BY DEF Reason
    <3>2. refused' \in [Groups -> SUBSET {"silent", "restart", "active"}]
      <4>1. refused[g] \union {Reason(g)} \in SUBSET {"silent", "restart", "active"}
        BY <3>1 DEF TypeOK
      <4> QED
        BY <1>3, <2>4, <4>1 DEF OnGroupRecurred, TypeOK
    <3>3. entries' = entries /\ counted' = counted
      BY <1>3, <2>4 DEF OnGroupRecurred
    <3> QED
      BY <1>3, <2>1, <2>2, <3>2, <3>3 DEF OnGroupRecurred, TypeOK
  <2> QED
    BY <2>3, <2>4
<1> QED
  BY <1>1, <1>2, <1>3 DEF Event

LEMMA TypeNotify ==
  ASSUME TypeOK, NEW a \in Alerts, Notify(a)
  PROVE  TypeOK'
<1> DEFINE job == alert[a]
<1>1. CASE ReadChannels(a)
  <2>1. Followers(job.kind) \in SUBSET Channels /\ job \in Alert /\ job.at = "channels"
    BY <1>1 DEF Followers, ReadChannels, TypeOK
  <2>2. [job EXCEPT !.at = "send", !.left = Followers(job.kind)] \in Alert /\ Resting \in Alert
    <3>1. job \in [at : {"channels", "send"}, group : Groups, kind : Kinds, left : SUBSET Channels]
      BY <2>1 DEF Alert, Resting
    <3> HIDE DEF job
    <3>2. [job EXCEPT !.at = "send", !.left = Followers(job.kind)]
             \in [at : {"channels", "send"}, group : Groups, kind : Kinds, left : SUBSET Channels]
      BY <2>1, <3>1
    <3> QED
      BY <3>2 DEF Alert
  <2>3. alert' \in [Alerts -> Alert]
    BY <1>1, <2>2 DEF ReadChannels, TypeOK
  <2> QED
    BY <1>1, <2>3 DEF ReadChannels, source, TypeOK
<1>2. ASSUME NEW c \in Channels, SendAlert(a, c)
      PROVE  TypeOK'
  <2>1. job \in Alert /\ job.at = "send"
    BY <1>2 DEF SendAlert, TypeOK
  <2>2. job.group \in Groups /\ [job EXCEPT !.left = @ \ {c}] \in Alert
    BY <2>1 DEF Alert, Resting
  <2>3. alert' \in [Alerts -> Alert]
    BY <1>2, <2>2 DEF SendAlert, TypeOK
  <2>4. alerted' \subseteq Channels \X Groups
    BY <1>2, <2>2 DEF SendAlert, TypeOK
  <2> QED
    BY <1>2, <2>3, <2>4 DEF SendAlert, source, TypeOK
<1>3. CASE Arm(a)
  <2>1. job \in Alert /\ job.at = "send"
    BY <1>3 DEF Arm, TypeOK
  <2>2. job.group \in Groups /\ Armed(job.kind) \in Entry /\ Resting \in Alert
    BY <2>1, ArmedType DEF Alert, Resting
  <2>3. entries' \in [Groups -> Entry \union {None}] /\ alert' \in [Alerts -> Alert]
    BY <1>3, <2>2 DEF Arm, TypeOK
  <2>4. age' \in [process : Ages, digest : [Groups -> Ages], sign : [Groups -> Ages]]
    BY <1>3, <2>2, AgesBounds DEF Arm, TypeOK
  <2>5. told' \subseteq Groups
    BY <1>3, <2>2 DEF Arm, TypeOK
  <2> QED
    BY <1>3, <2>3, <2>4, <2>5 DEF Arm, TypeOK
<1> QED
  BY <1>1, <1>2, <1>3 DEF Notify

LEMMA TypeFlush ==
  ASSUME TypeOK, NEW f \in Flushes, Flush(f)
  PROVE  TypeOK'
<1> DEFINE round == flush[f]
<1>1. round \in Round /\ Empty \in Round
  BY DEF TypeOK, Round, Empty
<1>2. CASE TakeDue(f)
  <2>1. \A g \in Groups : AfterDue(entries[g]) \in Entry \union {None}
    BY AfterDueType DEF TypeOK
  <2>2. flush' \in [Flushes -> Round]
    <3>1. [Empty EXCEPT !.due = Due] \in Round
      BY DueType DEF Empty, Round
    <3>2. flush' = [flush EXCEPT ![f] = [Empty EXCEPT !.due = Due]]
      BY <1>2 DEF TakeDue, Free
    <3> QED
      BY <3>1, <3>2 DEF TypeOK
  <2>3. age' \in [process : Ages, digest : [Groups -> Ages], sign : [Groups -> Ages]]
    BY <1>2, AgesBounds DEF TakeDue, TypeOK
  <2> QED
    BY <1>2, <2>1, <2>2, <2>3 DEF TakeDue, source, TypeOK
<1>3. CASE NextDigest(f)
  <2>1. PICK digest \in round.due :
           flush' = [flush EXCEPT ![f] =
                      IF DigestChannels(digest) = {} /\ (round.due \ {digest}) = {} THEN Empty
                      ELSE [due |-> (round.due \ {digest}), current |-> digest,
                            left |-> DigestChannels(digest)]]
    BY <1>3 DEF NextDigest
  <2>2. /\ digest \in Digest /\ (round.due \ {digest}) \in SUBSET Digest
        /\ DigestChannels(digest) \in SUBSET Channels
    BY <1>1 DEF DigestChannels, Followers, Round
  <2>3. [due |-> (round.due \ {digest}), current |-> digest, left |-> DigestChannels(digest)] \in Round
    BY <2>2 DEF Round
  <2>4. flush' \in [Flushes -> Round]
    BY <1>1, <2>1, <2>3 DEF TypeOK
  <2> QED
    BY <1>3, <2>4 DEF NextDigest, source, TypeOK
<1>4. ASSUME NEW c \in Channels, SendDigest(f, c)
      PROVE  TypeOK'
  <2>1. c \in round.left
    BY <1>4 DEF SendDigest, Untried
  <2>2. round.current \in Digest /\ [round EXCEPT !.left = @ \ {c}] \in Round
    BY <1>1, <2>1 DEF Round
  <2>3. flush' \in [Flushes -> Round]
    BY <1>1, <1>4, <2>2 DEF SendDigest, Untried, TypeOK
  <2>4. heard' \in [Channels \X Groups -> Nat]
    BY <1>4, <2>2 DEF SendDigest, Untried, TypeOK, Digest
  <2> QED
    BY <1>4, <2>3, <2>4 DEF SendDigest, Untried, source, TypeOK
<1> QED
  BY <1>2, <1>3, <1>4 DEF Flush

LEMMA TypeTick ==
  ASSUME TypeOK, Tick
  PROVE  TypeOK'
<1>1. age' \in [process : Ages, digest : [Groups -> Ages], sign : [Groups -> Ages]]
  BY OlderType DEF Tick, TypeOK
<1>2. entries' \in [Groups -> Entry \union {None}]
  BY OlderEntryType DEF Tick, TypeOK
<1> QED
  BY <1>1, <1>2 DEF Tick, source, TypeOK

LEMMA TypeUser ==
  ASSUME TypeOK, User
  PROVE  TypeOK'
<1>1. enabled' \in BOOLEAN /\ follows' \in [Channels -> SUBSET Kinds]
  <2>1. CASE SetEnabled
    BY <2>1 DEF SetEnabled, TypeOK
  <2>2. ASSUME NEW c \in Channels, NEW kinds \in SUBSET Kinds, SetFollows(c, kinds)
        PROVE  enabled' \in BOOLEAN /\ follows' \in [Channels -> SUBSET Kinds]
    BY <2>2 DEF SetFollows, TypeOK
  <2> QED
    BY <2>1, <2>2 DEF User
<1>2. Edit
  BY DEF User, SetEnabled, SetFollows
<1>3. budget' \in [hits : Nat, relapses : Nat, edits : Nat, restarts : Nat]
  BY <1>2 DEF Edit, TypeOK
<1> QED
  BY <1>1, <1>2, <1>3 DEF Edit, source, TypeOK

LEMMA TypeRestart ==
  ASSUME TypeOK, Restart
  PROVE  TypeOK'
<1>1. Resting \in Alert /\ Empty \in Round
  BY DEF Alert, Round, Empty
<1>2. budget' \in [hits : Nat, relapses : Nat, edits : Nat, restarts : Nat]
  BY DEF Restart, TypeOK
<1>3. age' \in [process : Ages, digest : [Groups -> Ages], sign : [Groups -> Ages]]
  BY AgesBounds DEF Restart, TypeOK
<1> QED
  BY <1>1, <1>2, <1>3 DEF Restart, source, TypeOK

LEMMA TypeNext == TypeOK /\ [Next]_vars => TypeOK'
<1> SUFFICES ASSUME TypeOK, [Next]_vars PROVE TypeOK'
  OBVIOUS
<1>1. CASE UNCHANGED vars
  BY <1>1 DEF vars, source, TypeOK
<1> QED
  BY <1>1, TypeEvent, TypeNotify, TypeFlush, TypeTick, TypeUser, TypeRestart DEF Next

\* Every variable keeps its type: a handler that waits has a group to tell, a
\* round that sends has a digest in hand, and every entry has the kind of the
\* alert that armed it.
THEOREM TypeCorrect == Spec => []TypeOK
BY TypeInit, TypeNext, PTL DEF Spec

---------------------------------------------------------------------------
(* The window *)

\* The entry of a group is at most as old as its last digest: an alert may
\* start the window again, nothing makes it older.
WindowInv ==
    /\ TypeOK
    /\ \A g \in Groups : entries[g] # None => entries[g].age <= age.digest[g]

LEMMA WindowInit == Init => WindowInv
BY TypeInit DEF Init, WindowInv

LEMMA WindowTick ==
  ASSUME WindowInv, Tick
  PROVE  WindowInv'
<1> SUFFICES ASSUME NEW g \in Groups, entries'[g] # None
             PROVE  entries'[g].age <= age'.digest[g]
  BY TypeTick DEF WindowInv
<1>1. entries[g] \in Entry /\ entries'[g] = [entries[g] EXCEPT !.age = Older(@)]
  BY DEF Tick, WindowInv, TypeOK
<1>2. entries[g].age \in Ages /\ entries'[g].age = Older(entries[g].age)
  BY <1>1 DEF Entry
<1>3. age.digest[g] \in Ages /\ age'.digest[g] = Older(age.digest[g])
  BY DEF Tick, WindowInv, TypeOK
<1>4. entries[g].age <= age.digest[g]
  BY <1>1, NoneAssumption DEF WindowInv
<1> QED
  BY <1>2, <1>3, <1>4, OlderType

LEMMA WindowTake ==
  ASSUME WindowInv, NEW f \in Flushes, TakeDue(f)
  PROVE  WindowInv'
<1> SUFFICES ASSUME NEW g \in Groups, entries'[g] # None
             PROVE  entries'[g].age <= age'.digest[g]
  BY TypeFlush DEF WindowInv, Flush
<1>1. entries'[g] = AfterDue(entries[g]) /\ entries[g] \in Entry
  BY DEF TakeDue, WindowInv, TypeOK, AfterDue, Elapsed
<1>2. age'.digest[g] = IF Ready(g) THEN 0 ELSE age.digest[g]
  BY DEF TakeDue, WindowInv, TypeOK
<1>3. CASE Ready(g)
  <2>1. entries'[g] = Restarted(entries[g])
    BY <1>1, <1>3 DEF Ready, AfterDue
  <2>2. entries'[g].age = 0
    BY <1>1, <2>1 DEF Restarted, Entry
  <2> QED
    BY <1>2, <1>3, <2>2
<1>4. CASE ~ Ready(g)
  <2>1. entries'[g] = entries[g]
    BY <1>1, <1>4 DEF Ready, AfterDue
  <2> QED
    BY <1>1, <1>2, <1>4, <2>1 DEF WindowInv
<1> QED
  BY <1>3, <1>4

LEMMA WindowRecurred ==
  ASSUME WindowInv, NEW g \in Groups, OnGroupRecurred(g)
  PROVE  WindowInv'
<1> SUFFICES ASSUME NEW h \in Groups, entries'[h] # None
             PROVE  entries'[h].age <= age'.digest[h]
  BY TypeEvent DEF WindowInv, Event
<1>1. age'.digest = age.digest
  BY DEF OnGroupRecurred, WindowInv, TypeOK
<1>2. entries[h] # None /\ entries'[h].age = entries[h].age
  <2>1. CASE h = g /\ entries[g] # None
    <3>1. entries[g] \in Entry /\ entries'[g] = [entries[g] EXCEPT !.count = @ + 1]
      BY <2>1 DEF OnGroupRecurred, WindowInv, TypeOK
    <3> QED
      BY <2>1, <3>1 DEF Entry
  <2>2. CASE ~ (h = g /\ entries[g] # None)
    BY <2>2 DEF OnGroupRecurred, WindowInv, TypeOK
  <2> QED
    BY <2>1, <2>2
<1> QED
  BY <1>1, <1>2 DEF WindowInv

LEMMA WindowArm ==
  ASSUME WindowInv, NEW a \in Alerts, Arm(a)
  PROVE  WindowInv'
<1> SUFFICES ASSUME NEW g \in Groups, entries'[g] # None
             PROVE  entries'[g].age <= age'.digest[g]
  BY TypeNotify DEF WindowInv, Notify
<1>1. age'.digest[g] = age.digest[g] /\ age.digest[g] \in Ages
  BY DEF Arm, WindowInv, TypeOK
<1>2. CASE g = alert[a].group
  BY <1>1, <1>2, ConstantsAssumption DEF Arm, Armed, WindowInv, TypeOK, Ages
<1>3. CASE g # alert[a].group
  BY <1>1, <1>3 DEF Arm, WindowInv, TypeOK
<1> QED
  BY <1>2, <1>3

LEMMA WindowNext == WindowInv /\ [Next]_vars => WindowInv'
<1> SUFFICES ASSUME WindowInv, [Next]_vars PROVE WindowInv'
  OBVIOUS
<1>1. TypeOK'
  BY TypeNext DEF WindowInv
<1>2. CASE UNCHANGED <<entries, age>>
  BY <1>1, <1>2 DEF WindowInv
<1>3. CASE Restart
  BY <1>1, <1>3 DEF Restart, WindowInv
<1>4. CASE ~ UNCHANGED <<entries, age>> /\ ~ Restart
  <2>1. \/ Tick
        \/ \E f \in Flushes : TakeDue(f)
        \/ \E g \in Groups : OnGroupRecurred(g)
        \/ \E a \in Alerts : Arm(a)
    BY <1>4 DEF Next, vars, Event, OnGroupOpened, OnGroupRegressed, Quiet, Notify, ReadChannels,
       SendAlert, Flush, NextDigest, SendDigest, User, SetEnabled, SetFollows, Edit
  <2> QED
    BY <2>1, WindowTick, WindowTake, WindowRecurred, WindowArm
<1> QED
  BY <1>2, <1>3, <1>4

\* Digests are taken by TakeDue only.
LEMMA NewDigestsAreDue ==
  ASSUME TypeOK, [Next]_vars, NEW f \in Flushes, NEW digest \in flush'[f].due \ flush[f].due
  PROVE  Ready(digest.group)
<1>1. flush' # flush
  OBVIOUS
<1>2. PICK e \in Flushes : TakeDue(e) \/ NextDigest(e) \/ \E c \in Channels : SendDigest(e, c)
  <2>1. ~ Restart
    BY DEF Restart, Empty, TypeOK
  <2> QED
    BY <1>1, <2>1 DEF Next, vars, Event, OnGroupOpened, OnGroupRegressed, OnGroupRecurred, Quiet,
       Notify, ReadChannels, SendAlert, Arm, Flush, User, SetEnabled, SetFollows, Edit, Tick
<1>3. CASE TakeDue(e)
  <2>1. digest \in Due
    BY <1>3 DEF TakeDue, TypeOK, Round
  <2> QED
    BY <2>1 DEF Due
<1>4. CASE NextDigest(e)
  <2>1. flush'[f].due \subseteq flush[f].due
    BY <1>4 DEF NextDigest, Empty, TypeOK
  <2> QED
    BY <2>1
<1>5. ASSUME NEW c \in Channels, SendDigest(e, c)
      PROVE  FALSE
  <2>1. flush'[f].due = flush[f].due
    BY <1>5 DEF SendDigest, Untried, Empty, TypeOK, Round
  <2> QED
    BY <2>1
<1> QED
  BY <1>2, <1>3, <1>4, <1>5

\* Whatever the flushes that overlap, the alerts and the restarts, two digests
\* of a problem are taken at least a window apart.
THEOREM DigestsAreSpaced == Spec => DigestsSpaced
<1>1. WindowInv /\ [Next]_vars =>
        [\A g \in Groups, f \in Flushes :
           (\E digest \in flush'[f].due \ flush[f].due : digest.group = g) => age.digest[g] = Window]_vars
  <2> SUFFICES ASSUME WindowInv, [Next]_vars, NEW g \in Groups, NEW f \in Flushes,
                      NEW digest \in flush'[f].due \ flush[f].due, digest.group = g
               PROVE  age.digest[g] = Window
    OBVIOUS
  <2>1. Ready(g)
    BY NewDigestsAreDue DEF WindowInv
  <2>2. entries[g] # None /\ entries[g] \in Entry /\ entries[g].age >= Window
    BY <2>1 DEF Ready, Elapsed, WindowInv, TypeOK
  <2>3. entries[g].age <= age.digest[g] /\ age.digest[g] \in Ages /\ entries[g].age \in Ages
    BY <2>2 DEF WindowInv, TypeOK, Entry
  <2> QED
    BY <2>2, <2>3, ConstantsAssumption DEF Ages
<1>2. Spec => []WindowInv
  BY WindowInit, WindowNext, PTL DEF Spec
<1> QED
  BY <1>1, <1>2, PTL DEF Spec, DigestsSpaced

---------------------------------------------------------------------------
(* Active problems are counted *)

\* Until a restart: a told group without an entry was silent for a window; an entry that counts
\* nothing is at most as old as the last sign of life.
ActiveInv ==
    /\ TypeOK
    /\ Unrestarted
    /\ \A g \in told : entries[g] = None => age.sign[g] = Window
    /\ \A g \in Groups : entries[g] # None /\ entries[g].count = 0 => entries[g].age <= age.sign[g]
    /\ ActiveIsCounted

LEMMA ActiveInit == Init => ActiveInv
BY TypeInit DEF Init, ActiveInv, ActiveIsCounted, Unrestarted

LEMMA ActiveTick ==
  ASSUME ActiveInv, Tick
  PROVE  ActiveInv'
<1>1. TypeOK' /\ Unrestarted' /\ ActiveIsCounted'
  BY TypeTick DEF Tick, source, ActiveInv, ActiveIsCounted, Unrestarted
<1>2. ASSUME NEW g \in Groups
      PROVE  age.sign[g] \in Ages /\ age'.sign[g] = Older(age.sign[g])
  BY DEF Tick, ActiveInv, TypeOK
<1>3. ASSUME NEW g \in told, entries'[g] = None
      PROVE  age'.sign[g] = Window
  <2>1. g \in Groups /\ g \in told /\ entries[g] = None
    <3>1. g \in Groups
      BY DEF ActiveInv, TypeOK
    <3>2. entries[g] # None => entries'[g] \in Entry
      BY <3>1, OlderEntryType DEF Tick, ActiveInv, TypeOK
    <3> QED
      BY <1>3, <3>1, <3>2, NoneAssumption
  <2>2. age.sign[g] = Window
    BY <2>1 DEF ActiveInv
  <2> QED
    BY <1>2, <2>1, <2>2, ConstantsAssumption DEF Older
<1>4. ASSUME NEW g \in Groups, entries'[g] # None, entries'[g].count = 0
      PROVE  entries'[g].age <= age'.sign[g]
  <2>1. entries[g] \in Entry /\ entries'[g] = [entries[g] EXCEPT !.age = Older(@)]
    BY <1>4 DEF Tick, ActiveInv, TypeOK
  <2>2. /\ entries[g].age \in Ages /\ entries'[g].age = Older(entries[g].age)
        /\ entries[g].count = 0 /\ entries[g] # None
    BY <1>4, <2>1, NoneAssumption DEF Entry
  <2>3. entries[g].age <= age.sign[g]
    BY <2>2 DEF ActiveInv
  <2> QED
    BY <1>2, <2>2, <2>3, OlderType
<1>5. told' = told
  BY DEF Tick, source
<1> QED
  BY <1>1, <1>3, <1>4, <1>5 DEF ActiveInv

LEMMA ActiveTake ==
  ASSUME ActiveInv, NEW f \in Flushes, TakeDue(f)
  PROVE  ActiveInv'
<1>1. TypeOK' /\ Unrestarted' /\ ActiveIsCounted' /\ told' = told
  BY TypeFlush DEF Flush, TakeDue, source, ActiveInv, ActiveIsCounted, Unrestarted
<1>2. age'.sign = age.sign
  BY DEF TakeDue, ActiveInv, TypeOK
<1>3. ASSUME NEW g \in Groups
      PROVE  /\ entries'[g] = AfterDue(entries[g])
             /\ entries[g] \in Entry \union {None}
             /\ age.sign[g] \in Ages
  BY DEF TakeDue, ActiveInv, TypeOK
<1>4. ASSUME NEW g \in told, entries'[g] = None
      PROVE  age.sign[g] = Window
  <2>1. g \in Groups
    BY DEF ActiveInv, TypeOK
  <2>2. CASE entries[g] = None
    BY <2>2 DEF ActiveInv
  <2>3. CASE entries[g] # None
    <3>1. entries[g] \in Entry
      BY <1>3, <2>1, <2>3
    <3>2. Restarted(entries[g]) # None
      <4>1. Restarted(entries[g]) \in Entry
        BY <3>1, AgesBounds DEF Restarted, Entry
      <4> QED
        BY <4>1, NoneAssumption
    <3>3. Elapsed(entries[g]) /\ Silent(entries[g])
      BY <1>3, <1>4, <2>1, <2>3, <3>2 DEF AfterDue
    <3>4. entries[g].age >= Window /\ entries[g].age <= age.sign[g]
      BY <2>1, <2>3, <3>3 DEF Elapsed, Silent, ActiveInv
    <3>5. entries[g].age \in Int /\ age.sign[g] \in Int /\ age.sign[g] <= Window /\ Window \in Int
      BY <1>3, <2>1, <3>1, AgesBounds DEF Entry
    <3> QED
      BY <3>4, <3>5
  <2> QED
    BY <2>2, <2>3
<1>5. ASSUME NEW g \in Groups, entries'[g] # None, entries'[g].count = 0
      PROVE  entries'[g].age <= age.sign[g]
  <2>1. entries[g] # None /\ entries[g] \in Entry
    BY <1>3, <1>5 DEF AfterDue, Elapsed
  <2>2. CASE Elapsed(entries[g])
    <3>1. entries'[g] = Restarted(entries[g])
      BY <1>3, <1>5, <2>2 DEF AfterDue
    <3>2. entries'[g].age = 0
      BY <2>1, <3>1 DEF Restarted, Entry
    <3> QED
      BY <1>3, <3>2, AgesBounds, ConstantsAssumption DEF Ages
  <2>3. CASE ~ Elapsed(entries[g])
    <3>1. entries'[g] = entries[g]
      BY <1>3, <2>3 DEF AfterDue
    <3> QED
      BY <1>5, <2>1, <3>1 DEF ActiveInv
  <2> QED
    BY <2>2, <2>3
<1> QED
  BY <1>1, <1>2, <1>4, <1>5 DEF ActiveInv

LEMMA ActiveRecurred ==
  ASSUME ActiveInv, NEW g \in Groups, OnGroupRecurred(g)
  PROVE  ActiveInv'
<1>1. TypeOK' /\ told' = told
  BY TypeEvent DEF Event, OnGroupRecurred, ActiveInv
<1>2. Unrestarted'
  BY DEF OnGroupRecurred, ActiveInv, TypeOK, Unrestarted
<1>3. \A h \in Groups : h # g => entries'[h] = entries[h] /\ age'.sign[h] = age.sign[h]
  BY DEF OnGroupRecurred, ActiveInv, TypeOK
<1>4. CASE entries[g] # None
  <2>1. entries[g] \in Entry /\ entries'[g] = [entries[g] EXCEPT !.count = @ + 1]
    BY <1>4 DEF OnGroupRecurred, ActiveInv, TypeOK
  <2>2. entries'[g].count # 0 /\ entries'[g] # None
    <3>1. entries'[g] \in Entry /\ entries'[g].count = entries[g].count + 1 /\ entries[g].count \in Nat
      BY <2>1, CountedType DEF Entry
    <3> QED
      BY <3>1, NoneAssumption
  <2>3. refused' = refused
    BY <1>4 DEF OnGroupRecurred
  <2>4. \A h \in told : h \in Groups
    BY DEF ActiveInv, TypeOK
  <2> QED
    BY <1>1, <1>2, <1>3, <2>2, <2>3, <2>4 DEF ActiveInv, ActiveIsCounted
<1>5. CASE entries[g] = None
  <2>1. entries' = entries
    BY <1>5 DEF OnGroupRecurred
  <2>2. g \in told => age.sign[g] = Window
    BY <1>5 DEF ActiveInv
  <2>3. g \in told => age'.sign[g] = Window /\ Reason(g) = "silent"
    BY <1>5, <2>2 DEF OnGroupRecurred, ActiveInv, TypeOK, Reason
  <2>4. ActiveIsCounted'
    BY <1>5, <2>3 DEF OnGroupRecurred, ActiveInv, ActiveIsCounted, TypeOK
  <2>5. \A h \in told : h \in Groups
    BY DEF ActiveInv, TypeOK
  <2> QED
    BY <1>1, <1>2, <1>3, <1>5, <2>1, <2>3, <2>4, <2>5 DEF ActiveInv
<1> QED
  BY <1>4, <1>5

LEMMA ActiveArm ==
  ASSUME ActiveInv, NEW a \in Alerts, Arm(a)
  PROVE  ActiveInv'
<1> DEFINE g == alert[a].group
<1>1. TypeOK' /\ Unrestarted' /\ ActiveIsCounted'
  BY TypeNotify DEF Notify, Arm, ActiveInv, ActiveIsCounted, Unrestarted
<1>2. g \in Groups /\ alert[a].kind \in Kinds
  BY DEF Arm, ActiveInv, TypeOK, Alert, Resting
<1>3. entries'[g] = Armed(alert[a].kind) /\ age'.sign[g] = 0
  BY <1>2 DEF Arm, ActiveInv, TypeOK
<1>4. entries'[g] # None /\ entries'[g].age = 0
  BY <1>2, <1>3, ArmedType, NoneAssumption DEF Armed
<1>5. \A h \in Groups : h # g => entries'[h] = entries[h] /\ age'.sign[h] = age.sign[h]
  BY DEF Arm, ActiveInv, TypeOK
<1>6. told' = told \union {g} /\ \A h \in told : h \in Groups
  BY DEF Arm, ActiveInv, TypeOK
<1> HIDE DEF g
<1> QED
  BY <1>1, <1>3, <1>4, <1>5, <1>6 DEF ActiveInv

LEMMA ActiveNext ==
  ASSUME ActiveInv, [Next]_vars, ~ Restart
  PROVE  ActiveInv'
<1>1. TypeOK'
  BY TypeNext DEF ActiveInv
<1>2. CASE UNCHANGED <<entries, told, refused, age>>
  <2>1. Unrestarted'
    BY <1>2 DEF Next, vars, Event, OnGroupOpened, OnGroupRegressed, OnGroupRecurred, Quiet,
       Notify, ReadChannels, SendAlert, Arm, Flush, TakeDue, NextDigest, SendDigest, User,
       SetEnabled, SetFollows, Edit, Tick, ActiveInv, TypeOK, Unrestarted
  <2> QED
    BY <1>1, <1>2, <2>1 DEF ActiveInv, ActiveIsCounted
<1>3. CASE ~ UNCHANGED <<entries, told, refused, age>>
  <2>1. \/ Tick
        \/ \E f \in Flushes : TakeDue(f)
        \/ \E g \in Groups : OnGroupRecurred(g)
        \/ \E a \in Alerts : Arm(a)
    BY <1>3 DEF Next, vars, source, Event, OnGroupOpened, OnGroupRegressed, Quiet, Notify,
       ReadChannels, SendAlert, Flush, NextDigest, SendDigest, User, SetEnabled, SetFollows, Edit
  <2> QED
    BY <2>1, ActiveTick, ActiveTake, ActiveRecurred, ActiveArm
<1> QED
  BY <1>2, <1>3

\* A restart is for good: the invariant holds until the first one.
UntilRestart == TypeOK /\ (ActiveInv \/ budget.restarts < MaxRestarts)

LEMMA UntilRestartNext == UntilRestart /\ [Next]_vars => UntilRestart'
<1> SUFFICES ASSUME UntilRestart, [Next]_vars PROVE UntilRestart'
  OBVIOUS
<1>1. TypeOK'
  BY TypeNext DEF UntilRestart
<1>2. CASE Restart
  <2>1. budget.restarts <= MaxRestarts
    BY ConstantsAssumption DEF UntilRestart, ActiveInv, Unrestarted, TypeOK
  <2>2. budget'.restarts = budget.restarts - 1
    BY <1>2 DEF Restart, UntilRestart, TypeOK
  <2> QED
    BY <1>1, <2>1, <2>2, ConstantsAssumption DEF UntilRestart, TypeOK
<1>3. CASE ~ Restart /\ ActiveInv
  BY <1>1, <1>3, ActiveNext DEF UntilRestart
<1>4. CASE ~ Restart /\ budget.restarts < MaxRestarts
  <2>1. budget'.restarts = budget.restarts
    BY <1>4 DEF Next, vars, Event, OnGroupOpened, OnGroupRegressed, OnGroupRecurred, Quiet,
       Notify, ReadChannels, SendAlert, Arm, Flush, TakeDue, NextDigest, SendDigest, User,
       SetEnabled, SetFollows, Edit, Tick, UntilRestart, TypeOK
  <2> QED
    BY <1>1, <1>4, <2>1 DEF UntilRestart
<1> QED
  BY <1>2, <1>3, <1>4 DEF UntilRestart

\* As long as the process lives, no recurrence of a problem that keeps giving
\* signs of life is dropped, whatever the alerts and the flushes in progress,
\* the edits of the channels and the switching of the module.
THEOREM ActiveProblemsCounted == Spec => []ActiveIsCounted
<1>1. UntilRestart => ActiveIsCounted
  <2>1. CASE ActiveInv
    BY <2>1 DEF ActiveInv
  <2>2. CASE budget.restarts < MaxRestarts /\ TypeOK
    BY <2>2, ConstantsAssumption DEF ActiveIsCounted, Unrestarted, TypeOK
  <2> QED
    BY <2>1, <2>2 DEF UntilRestart
<1>2. Init => UntilRestart
  BY ActiveInit DEF UntilRestart, ActiveInv
<1> QED
  BY <1>1, <1>2, UntilRestartNext, PTL DEF Spec
---------------------------------------------------------------------------
(* A reminder takes the path of its alert *)

\* Every channel that takes this kind of alert was tried for this group.
Reached(kind, g) == \A c \in Followers(kind) : <<c, g>> \in alerted

\* A group is in the buffer once its alert went to all its channels.
EntriesReached == \A g \in Groups : entries[g] # None => Reached(entries[g].kind, g)

\* An alert has tried the channels it has not left.
AlertsAdvance ==
    \A a \in Alerts : alert[a].at = "send" =>
        \A c \in Followers(alert[a].kind) : c \in alert[a].left \/ <<c, alert[a].group>> \in alerted

\* The digests of a flush come from the buffer.
DigestsReached ==
    \A f \in Flushes :
        /\ \A digest \in flush[f].due : Reached(digest.kind, digest.group)
        /\ \A c \in flush[f].left : <<c, flush[f].current.group>> \in alerted

PathInv ==
    /\ budget.edits <= MaxEdits
    /\ budget.edits = MaxEdits => EntriesReached /\ AlertsAdvance /\ DigestsReached

LEMMA PathInit == Init => PathInv
<1> SUFFICES ASSUME Init PROVE PathInv
  OBVIOUS
<1>1. budget.edits = MaxEdits /\ budget.edits <= MaxEdits
  BY ConstantsAssumption DEF Init
<1>2. EntriesReached
  BY DEF Init, EntriesReached
<1>3. AlertsAdvance
  BY DEF Init, AlertsAdvance, Resting
<1>4. DigestsReached
  BY DEF Init, DigestsReached, Empty
<1> QED
  BY <1>1, <1>2, <1>3, <1>4 DEF PathInv

\* Without an edit, what was reached stays reached.
LEMMA ReachedStays ==
  ASSUME UNCHANGED follows, alerted \subseteq alerted', NEW kind, NEW g, Reached(kind, g)
  PROVE  Reached(kind, g)'
BY DEF Reached, Followers

LEMMA FollowersStay ==
  ASSUME UNCHANGED follows, NEW kind
  PROVE  Followers(kind)' = Followers(kind)
BY DEF Followers

LEMMA PathEvent ==
  ASSUME TypeOK, EntriesReached, AlertsAdvance, DigestsReached, NEW g \in Groups, Event(g)
  PROVE  EntriesReached' /\ AlertsAdvance' /\ DigestsReached'
<1>1. UNCHANGED <<follows, flush, alerted>>
  BY DEF Event, OnGroupOpened, OnGroupRegressed, OnGroupRecurred, Quiet
<1>2. DigestsReached'
  BY <1>1, ReachedStays DEF DigestsReached
<1>3. ASSUME NEW kind \in Kinds, Notable(g, kind)
      PROVE  AlertsAdvance'
  <2>1. CASE UNCHANGED alert
    BY <1>1, <2>1, FollowersStay DEF AlertsAdvance
  <2>2. ASSUME NEW a \in Alerts, Handle(a, g, kind)
        PROVE  AlertsAdvance'
    <3>1. alert'[a].at = "channels" /\ \A b \in Alerts \ {a} : alert'[b] = alert[b]
      BY <2>2 DEF Handle, Resting, TypeOK
    <3> QED
      BY <1>1, <3>1, FollowersStay DEF AlertsAdvance
  <2> QED
    BY <1>3, <2>1, <2>2 DEF Notable
<1>4. CASE OnGroupOpened(g) \/ OnGroupRegressed(g)
  <2>1. AlertsAdvance'
    BY <1>3, <1>4 DEF OnGroupOpened, OnGroupRegressed, Kinds
  <2>2. EntriesReached'
    BY <1>1, <1>4, ReachedStays DEF OnGroupOpened, OnGroupRegressed, Quiet, EntriesReached
  <2> QED
    BY <1>2, <2>1, <2>2
<1>5. CASE OnGroupRecurred(g)
  <2>1. UNCHANGED alert
    BY <1>5 DEF OnGroupRecurred
  <2>2. AlertsAdvance'
    BY <1>1, <2>1, FollowersStay DEF AlertsAdvance
  <2>3. \A h \in Groups : entries'[h] # None => entries[h] # None /\ entries'[h].kind = entries[h].kind
    <3>1. CASE entries[g] = None
      BY <1>5, <3>1 DEF OnGroupRecurred
    <3>2. CASE entries[g] # None
      <4>1. entries[g] \in Entry
        BY <3>2 DEF TypeOK
      <4>2. PICK counting : counting = [entries[g] EXCEPT !.count = @ + 1]
        OBVIOUS
      <4>3. counting.kind = entries[g].kind
        BY <4>1, <4>2 DEF Entry
      <4>4. entries' = [entries EXCEPT ![g] = counting]
        BY <1>5, <3>2, <4>2 DEF OnGroupRecurred
      <4> QED
        BY <3>2, <4>3, <4>4 DEF TypeOK
    <3> QED
      BY <3>1, <3>2
  <2>4. EntriesReached'
    BY <1>1, <2>3, ReachedStays DEF EntriesReached
  <2> QED
    BY <1>2, <2>2, <2>4
<1> QED
  BY <1>4, <1>5 DEF Event

LEMMA PathNotify ==
  ASSUME TypeOK, EntriesReached, AlertsAdvance, DigestsReached, NEW a \in Alerts, Notify(a)
  PROVE  EntriesReached' /\ AlertsAdvance' /\ DigestsReached'
<1>1. UNCHANGED <<follows, flush>> /\ alerted \subseteq alerted'
  BY DEF Notify, ReadChannels, SendAlert, Arm
<1>2. DigestsReached'
  BY <1>1, ReachedStays DEF DigestsReached
<1>3. PICK job : job = alert[a]
  OBVIOUS
<1>4. job \in Alert
  BY <1>3 DEF TypeOK
<1>5. CASE ReadChannels(a)
  <2>1. PICK next : next = IF Followers(job.kind) = {} THEN Resting
                           ELSE [job EXCEPT !.at = "send", !.left = Followers(job.kind)]
    OBVIOUS
  <2>2. next.at = "send" => next.left = Followers(next.kind)
    <3>1. job \in [at : {"channels", "send"}, group : Groups, kind : Kinds, left : SUBSET Channels]
      BY <1>3, <1>4, <1>5 DEF ReadChannels, Alert, Resting
    <3> QED
      BY <2>1, <3>1 DEF Resting
  <2>3. alert'[a] = next /\ \A b \in Alerts \ {a} : alert'[b] = alert[b]
    BY <1>3, <1>5, <2>1 DEF ReadChannels, TypeOK
  <2>4. AlertsAdvance'
    BY <1>1, <2>2, <2>3, FollowersStay DEF AlertsAdvance
  <2>5. EntriesReached'
    BY <1>1, <1>5, ReachedStays DEF ReadChannels, EntriesReached
  <2> QED
    BY <1>2, <2>4, <2>5
<1>6. ASSUME NEW c \in Channels, SendAlert(a, c)
      PROVE  EntriesReached' /\ AlertsAdvance' /\ DigestsReached'
  <2>1. PICK next : next = [job EXCEPT !.left = @ \ {c}]
    OBVIOUS
  <2>2. next.kind = job.kind /\ next.group = job.group /\ next.left = job.left \ {c} /\ job.at = "send"
    BY <1>3, <1>4, <1>6, <2>1 DEF Alert, Resting, SendAlert
  <2>3. alert'[a] = next /\ \A b \in Alerts \ {a} : alert'[b] = alert[b]
    BY <1>3, <1>6, <2>1 DEF SendAlert, TypeOK
  <2>4. alerted' = alerted \union {<<c, job.group>>}
    BY <1>3, <1>6 DEF SendAlert
  <2>5. AlertsAdvance'
    BY <1>1, <1>3, <2>2, <2>3, <2>4, FollowersStay DEF AlertsAdvance
  <2>6. EntriesReached'
    BY <1>1, <1>6, ReachedStays DEF SendAlert, EntriesReached
  <2> QED
    BY <1>2, <2>5, <2>6
<1>7. CASE Arm(a)
  <2>1. job.at = "send" /\ job.left = {} /\ alerted' = alerted
    BY <1>3, <1>7 DEF Arm
  <2>2. Reached(job.kind, job.group)
    BY <1>3, <2>1 DEF AlertsAdvance, Reached
  <2>3. entries' = [entries EXCEPT ![job.group] = Armed(job.kind)]
    BY <1>3, <1>7 DEF Arm
  <2>4. Armed(job.kind).kind = job.kind
    BY DEF Armed
  <2>5. EntriesReached'
    BY <1>1, <2>2, <2>3, <2>4, ReachedStays DEF EntriesReached, TypeOK
  <2>6. alert'[a].at = "idle" /\ \A b \in Alerts \ {a} : alert'[b] = alert[b]
    BY <1>7 DEF Arm, Resting, TypeOK
  <2>7. AlertsAdvance'
    BY <1>1, <2>1, <2>6, FollowersStay DEF AlertsAdvance
  <2> QED
    BY <1>2, <2>5, <2>7
<1> QED
  BY <1>5, <1>6, <1>7 DEF Notify

LEMMA PathFlush ==
  ASSUME TypeOK, EntriesReached, AlertsAdvance, DigestsReached, NEW f \in Flushes, Flush(f)
  PROVE  EntriesReached' /\ AlertsAdvance' /\ DigestsReached'
<1>1. UNCHANGED <<follows, alert, alerted>>
  BY DEF Flush, TakeDue, NextDigest, SendDigest
<1>2. AlertsAdvance'
  BY <1>1, FollowersStay DEF AlertsAdvance
<1>3. PICK round : round = flush[f]
  OBVIOUS
<1>4. round \in Round
  BY <1>3 DEF TypeOK
<1>5. CASE TakeDue(f)
  <2>1. flush'[f] = [Empty EXCEPT !.due = Due] /\ \A h \in Flushes \ {f} : flush'[h] = flush[h]
    BY <1>5 DEF TakeDue, Free, TypeOK
  <2>2. flush'[f].due = Due /\ flush'[f].left = {}
    BY <2>1 DEF Empty
  <2>3. \A digest \in Due : Reached(digest.kind, digest.group)
    BY DEF Due, Ready, Elapsed, EntriesReached
  <2>4. DigestsReached'
    BY <1>1, <2>1, <2>2, <2>3, ReachedStays DEF DigestsReached
  <2>5. \A g \in Groups : entries'[g] # None => entries[g] # None /\ entries'[g].kind = entries[g].kind
    <3> SUFFICES ASSUME NEW g \in Groups, entries'[g] # None
                 PROVE  entries[g] # None /\ entries'[g].kind = entries[g].kind
      OBVIOUS
    <3>1. entries'[g] = AfterDue(entries[g])
      BY <1>5 DEF TakeDue
    <3>2. CASE ~ Elapsed(entries[g])
      BY <3>1, <3>2 DEF AfterDue
    <3>3. CASE Elapsed(entries[g])
      <4>1. entries[g] \in Entry
        BY <3>3 DEF Elapsed, TypeOK
      <4>2. entries'[g] = Restarted(entries[g])
        BY <3>1, <3>3 DEF AfterDue
      <4> QED
        BY <3>3, <4>1, <4>2 DEF Elapsed, Restarted, Entry
    <3> QED
      BY <3>2, <3>3
  <2>6. EntriesReached'
    BY <1>1, <2>5, ReachedStays DEF EntriesReached
  <2> QED
    BY <1>2, <2>4, <2>6
<1>6. CASE NextDigest(f)
  <2>0. PICK digest \in round.due :
           flush' = [flush EXCEPT ![f] =
                        IF DigestChannels(digest) = {} /\ (round.due \ {digest}) = {} THEN Empty
                        ELSE [due |-> (round.due \ {digest}), current |-> digest,
                              left |-> DigestChannels(digest)]]
    BY <1>3, <1>6 DEF NextDigest
  <2>1. PICK next :
           /\ flush' = [flush EXCEPT ![f] = next]
           /\ next = IF DigestChannels(digest) = {} /\ (round.due \ {digest}) = {} THEN Empty
                     ELSE [due |-> (round.due \ {digest}), current |-> digest,
                           left |-> DigestChannels(digest)]
    BY <2>0
  <2>2. /\ next.due \subseteq round.due
        /\ \A c \in next.left : c \in Followers(digest.kind) /\ next.current = digest
    BY <2>1 DEF Empty, DigestChannels
  <2>3. Reached(digest.kind, digest.group)
    BY <1>3, <2>0 DEF DigestsReached
  <2>4. \A c \in next.left : <<c, next.current.group>> \in alerted
    BY <2>2, <2>3 DEF Reached
  <2>5. flush'[f] = next /\ \A h \in Flushes \ {f} : flush'[h] = flush[h]
    BY <2>1 DEF TypeOK
  <2>6. DigestsReached'
    BY <1>1, <1>3, <2>2, <2>4, <2>5, ReachedStays DEF DigestsReached
  <2>7. EntriesReached'
    BY <1>1, <1>6, ReachedStays DEF NextDigest, EntriesReached
  <2> QED
    BY <1>2, <2>6, <2>7
<1>7. ASSUME NEW c \in Channels, SendDigest(f, c)
      PROVE  EntriesReached' /\ AlertsAdvance' /\ DigestsReached'
  <2>1. PICK next :
           /\ flush' = [flush EXCEPT ![f] = next]
           /\ next = IF round.left \ {c} = {} /\ round.due = {} THEN Empty
                     ELSE [round EXCEPT !.left = round.left \ {c}]
    BY <1>3, <1>7 DEF SendDigest, Untried
  <2>2. /\ next.due \subseteq round.due /\ next.left \subseteq round.left
        /\ \A b \in next.left : next.current = round.current
    BY <1>4, <2>1 DEF Empty, Round
  <2>3. flush'[f] = next /\ \A h \in Flushes \ {f} : flush'[h] = flush[h]
    BY <2>1 DEF TypeOK
  <2>4. DigestsReached'
    BY <1>1, <1>3, <2>2, <2>3, ReachedStays DEF DigestsReached
  <2>5. EntriesReached'
    BY <1>1, <1>7, ReachedStays DEF SendDigest, EntriesReached
  <2> QED
    BY <1>2, <2>4, <2>5
<1> QED
  BY <1>5, <1>6, <1>7 DEF Flush

LEMMA PathNext == TypeOK /\ PathInv /\ [Next]_vars => PathInv'
<1> SUFFICES ASSUME TypeOK, PathInv, [Next]_vars
             PROVE  PathInv'
  OBVIOUS
<1>0. budget.edits \in Nat
  BY DEF TypeOK
<1>1. CASE User
  <2>1. budget'.edits = budget.edits - 1
    BY <1>1 DEF User, SetEnabled, SetFollows, Edit, TypeOK
  <2> QED
    BY <1>0, <2>1, ConstantsAssumption DEF PathInv
<1>2. ASSUME budget'.edits = budget.edits,
             budget.edits = MaxEdits => EntriesReached' /\ AlertsAdvance' /\ DigestsReached'
      PROVE  PathInv'
  BY <1>2 DEF PathInv
<1>3. ASSUME NEW g \in Groups, Event(g)
      PROVE  PathInv'
  <2>1. budget'.edits = budget.edits
    BY <1>3 DEF Event, OnGroupOpened, OnGroupRegressed, OnGroupRecurred, TypeOK
  <2> QED
    BY <1>2, <1>3, <2>1, PathEvent DEF PathInv
<1>4. ASSUME NEW a \in Alerts, Notify(a)
      PROVE  PathInv'
  <2>1. budget'.edits = budget.edits
    BY <1>4 DEF Notify, ReadChannels, SendAlert, Arm
  <2> QED
    BY <1>2, <1>4, <2>1, PathNotify DEF PathInv
<1>5. ASSUME NEW f \in Flushes, Flush(f)
      PROVE  PathInv'
  <2>1. budget'.edits = budget.edits
    BY <1>5 DEF Flush, TakeDue, NextDigest, SendDigest
  <2> QED
    BY <1>2, <1>5, <2>1, PathFlush DEF PathInv
<1>6. CASE Tick
  <2>1. UNCHANGED <<follows, alert, flush, alerted, budget>>
    BY <1>6 DEF Tick
  <2>2. \A g \in Groups : entries'[g] # None => entries[g] # None /\ entries'[g].kind = entries[g].kind
    <3> SUFFICES ASSUME NEW g \in Groups, entries'[g] # None
                 PROVE  entries[g] # None /\ entries'[g].kind = entries[g].kind
      OBVIOUS
    <3>1. entries[g] # None /\ entries'[g] = [entries[g] EXCEPT !.age = Older(@)]
      BY <1>6 DEF Tick
    <3>2. entries[g] \in Entry
      BY <3>1 DEF TypeOK
    <3> QED
      BY <3>1, <3>2 DEF Entry
  <2>3. EntriesReached => EntriesReached'
    BY <2>1, <2>2, ReachedStays DEF EntriesReached
  <2>4. AlertsAdvance => AlertsAdvance'
    BY <2>1, FollowersStay DEF AlertsAdvance
  <2>5. DigestsReached => DigestsReached'
    BY <2>1, ReachedStays DEF DigestsReached
  <2> QED
    BY <1>2, <2>1, <2>3, <2>4, <2>5 DEF PathInv
<1>7. CASE Restart
  <2>1. budget'.edits = budget.edits
    BY <1>7 DEF Restart, TypeOK
  <2>2. EntriesReached'
    BY <1>7 DEF Restart, EntriesReached
  <2>3. AlertsAdvance'
    BY <1>7 DEF Restart, AlertsAdvance, Resting
  <2>4. DigestsReached'
    BY <1>7 DEF Restart, DigestsReached, Empty
  <2> QED
    BY <1>2, <2>1, <2>2, <2>3, <2>4
<1>8. CASE UNCHANGED vars
  <2>1. UNCHANGED <<follows, entries, alert, flush, alerted, budget>>
    BY <1>8 DEF vars
  <2> QED
    BY <2>1, ReachedStays, FollowersStay
       DEF PathInv, EntriesReached, AlertsAdvance, DigestsReached, Reached, Followers
<1> QED
  BY <1>1, <1>3, <1>4, <1>5, <1>6, <1>7, <1>8 DEF Next
---------------------------------------------------------------------------
(* Nothing is reported twice *)

\* What a flush holds for a channel and a group: the digest that waits for its
\* turn, and the one being sent to the channels left.
CountIn(digests, g) ==
    IF \E digest \in digests : digest.group = g
    THEN (CHOOSE digest \in digests : digest.group = g).count ELSE 0

Waiting(f, g) == CountIn(flush[f].due, g)

Sending(f, c, g) ==
    IF c \in flush[f].left /\ flush[f].current.group = g THEN flush[f].current.count ELSE 0

Held(f, c, g) == Waiting(f, g) + Sending(f, c, g)

Buffered(g) == IF entries[g] = None THEN 0 ELSE entries[g].count

\* s adds up the shares of every set of flushes.
Sums(s, share) ==
    /\ s \in [SUBSET Flushes -> Nat]
    /\ s[{}] = 0
    /\ \A S \in SUBSET Flushes : \A f \in Flushes \ S : s[S \union {f}] = s[S] + share[f]

Shares(c, g) == [f \in Flushes |-> Held(f, c, g)]

\* A recurrence that was counted is in one place: heard by the channel, in the
\* buffer, or in one flush.
Account(c, g) ==
    \E s : Sums(s, Shares(c, g)) /\ heard[<<c, g>>] + Buffered(g) + s[Flushes] <= counted[g]

\* A flush holds one digest of a group.
Distinct(digests) == \A one, other \in digests : one.group = other.group => one = other

OneDigest ==
    \A f \in Flushes : Distinct(flush[f].due)

ToldInv ==
    /\ TypeOK
    /\ OneDigest
    /\ \A c \in Channels, g \in Groups : Account(c, g)

LEMMA SumsZero ==
  ASSUME NEW share \in [Flushes -> Nat], \A f \in Flushes : share[f] = 0
  PROVE  \E s : Sums(s, share) /\ s[Flushes] = 0
<1> DEFINE s == [S \in SUBSET Flushes |-> 0]
<1>1. Sums(s, share) /\ s[Flushes] = 0
  BY DEF Sums
<1> QED
  BY <1>1

\* When the share of one flush changes, its sums follow.
LEMMA SumsChange ==
  ASSUME NEW share \in [Flushes -> Nat], NEW share2 \in [Flushes -> Nat], NEW e \in Flushes,
         \A f \in Flushes \ {e} : share2[f] = share[f],
         NEW s, Sums(s, share)
  PROVE  \E t : Sums(t, share2) /\ t[Flushes] = s[Flushes] - share[e] + share2[e]
<1> DEFINE t == [S \in SUBSET Flushes |-> IF e \in S THEN s[S] - share[e] + share2[e] ELSE s[S]]
<1>0. share[e] \in Nat /\ share2[e] \in Nat /\ \A S \in SUBSET Flushes : s[S] \in Nat
  BY DEF Sums
<1>1. ASSUME NEW S \in SUBSET Flushes, e \in S
      PROVE  s[S] >= share[e]
  <2>1. S \ {e} \in SUBSET Flushes /\ S = (S \ {e}) \union {e} /\ e \in Flushes \ (S \ {e})
    BY <1>1
  <2>2. s[(S \ {e}) \union {e}] = s[S \ {e}] + share[e]
    BY <2>1 DEF Sums
  <2>3. s[S] = s[S \ {e}] + share[e]
    BY <2>1, <2>2
  <2>4. s[S \ {e}] \in Nat
    BY <1>0, <2>1
  <2> QED
    BY <1>0, <2>3, <2>4
<1>2. t \in [SUBSET Flushes -> Nat]
  BY <1>0, <1>1
<1>3. t[{}] = 0
  BY DEF Sums
<1>4. ASSUME NEW S \in SUBSET Flushes, NEW f \in Flushes \ S
      PROVE  t[S \union {f}] = t[S] + share2[f]
  <2>1. s[S \union {f}] = s[S] + share[f] /\ S \union {f} \in SUBSET Flushes
    BY DEF Sums
  <2>2. s[S] \in Nat /\ share[f] \in Nat /\ share2[f] \in Nat
    BY <1>0
  <2>3. CASE e \in S
    <3>1. f # e /\ share2[f] = share[f]
      BY <2>3
    <3> QED
      BY <1>0, <2>1, <2>2, <2>3, <3>1
  <2>4. CASE e \notin S /\ f = e
    BY <1>0, <2>1, <2>2, <2>4
  <2>5. CASE e \notin S /\ f # e
    <3>1. share2[f] = share[f] /\ e \notin S \union {f}
      BY <2>5
    <3> QED
      BY <1>0, <2>1, <2>2, <2>5, <3>1
  <2> QED
    BY <2>3, <2>4, <2>5
<1>5. Sums(t, share2)
  BY <1>2, <1>3, <1>4 DEF Sums
<1>6. t[Flushes] = s[Flushes] - share[e] + share2[e]
  BY <1>0
<1> QED
  BY <1>5, <1>6

LEMMA CountIs ==
  ASSUME NEW digests, Distinct(digests), NEW digest \in digests
  PROVE  CountIn(digests, digest.group) = digest.count
<1>1. (CHOOSE d \in digests : d.group = digest.group) = digest
  BY DEF Distinct
<1> QED
  BY <1>1 DEF CountIn

LEMMA CountNone ==
  ASSUME NEW digests, NEW g, \A digest \in digests : digest.group # g
  PROVE  CountIn(digests, g) = 0
BY DEF CountIn

LEMMA HeldType ==
  ASSUME TypeOK, NEW c \in Channels, NEW g \in Groups
  PROVE  /\ Shares(c, g) \in [Flushes -> Nat]
         /\ \A f \in Flushes : Waiting(f, g) \in Nat /\ Sending(f, c, g) \in Nat
         /\ Buffered(g) \in Nat /\ heard[<<c, g>>] \in Nat /\ counted[g] \in Nat
<1>1. ASSUME NEW f \in Flushes
      PROVE  Waiting(f, g) \in Nat /\ Sending(f, c, g) \in Nat
  <2>1. flush[f] \in Round
    BY DEF TypeOK
  <2>2. Waiting(f, g) \in Nat
    <3>1. CASE \E digest \in flush[f].due : digest.group = g
      <4>1. PICK digest \in flush[f].due : digest = CHOOSE d \in flush[f].due : d.group = g
        BY <3>1
      <4>2. digest \in Digest
        BY <2>1, <4>1 DEF Round
      <4> QED
        BY <3>1, <4>1, <4>2 DEF Waiting, CountIn, Digest
    <3> QED
      BY <3>1 DEF Waiting, CountIn
  <2>3. Sending(f, c, g) \in Nat
    <3>1. CASE c \in flush[f].left
      <4>1. flush[f].current \in Digest
        BY <2>1, <3>1 DEF Round
      <4> QED
        BY <4>1 DEF Sending, Digest
    <3> QED
      BY <3>1 DEF Sending
  <2> QED
    BY <2>2, <2>3
<1>2. Buffered(g) \in Nat
  BY DEF Buffered, TypeOK, Entry
<1>3. heard[<<c, g>>] \in Nat /\ counted[g] \in Nat
  BY DEF TypeOK
<1> QED
  BY <1>1, <1>2, <1>3 DEF Shares, Held

HeldTyped ==
    \A c \in Channels, g \in Groups :
        /\ Shares(c, g) \in [Flushes -> Nat]
        /\ Buffered(g) \in Nat /\ heard[<<c, g>>] \in Nat /\ counted[g] \in Nat

LEMMA HeldTypes == TypeOK => HeldTyped
BY HeldType DEF HeldTyped

\* No flush holds anything else: the account is kept when what is heard and
\* buffered grows no faster than what is counted.
LEMMA AccountSame ==
  ASSUME TypeOK, TypeOK', NEW c \in Channels, NEW g \in Groups, Account(c, g), UNCHANGED flush,
         heard'[<<c, g>>] + Buffered(g)' + counted[g] <= heard[<<c, g>>] + Buffered(g) + counted'[g]
  PROVE  Account(c, g)'
<1>1. Shares(c, g)' = Shares(c, g)
  BY DEF Shares, Held, Waiting, CountIn, Sending
<1>2. PICK s : Sums(s, Shares(c, g)) /\ heard[<<c, g>>] + Buffered(g) + s[Flushes] <= counted[g]
  BY DEF Account
<1>3. s[Flushes] \in Nat
  BY <1>2 DEF Sums
<1>4. heard'[<<c, g>>] + Buffered(g)' + s[Flushes] <= counted'[g]
  <2>1. /\ Buffered(g) \in Nat /\ heard[<<c, g>>] \in Nat /\ counted[g] \in Nat
        /\ Buffered(g)' \in Nat /\ heard'[<<c, g>>] \in Nat /\ counted'[g] \in Nat
    <3>1. Buffered(g) \in Nat /\ heard[<<c, g>>] \in Nat /\ counted[g] \in Nat
      BY HeldType
    <3>2. heard'[<<c, g>>] \in Nat /\ counted'[g] \in Nat
      BY DEF TypeOK
    <3>3. Buffered(g)' \in Nat
      BY DEF Buffered, TypeOK, Entry
    <3> QED
      BY <3>1, <3>2, <3>3
  <2> QED
    BY <1>2, <1>3, <2>1
<1>5. Sums(s, Shares(c, g)')
  BY <1>1, <1>2
<1>6. Sums(s, Shares(c, g))'
  BY <1>5 DEF Sums
<1> QED
  BY <1>4, <1>6 DEF Account
\* One flush changes: what it holds, with what is heard and buffered, grows no
\* faster than what is counted.
LEMMA AccountChange ==
  ASSUME TypeOK, TypeOK', NEW c \in Channels, NEW g \in Groups, Account(c, g), NEW e \in Flushes,
         \A f \in Flushes \ {e} : flush'[f] = flush[f],
         heard'[<<c, g>>] + Buffered(g)' + Held(e, c, g)' + counted[g]
            <= heard[<<c, g>>] + Buffered(g) + Held(e, c, g) + counted'[g]
  PROVE  Account(c, g)'
<1>1. PICK share : share = Shares(c, g)
  OBVIOUS
<1>2. PICK share2 : share2 = Shares(c, g)'
  OBVIOUS
<1>3. /\ share \in [Flushes -> Nat] /\ share[e] = Held(e, c, g)
      /\ Buffered(g) \in Nat /\ heard[<<c, g>>] \in Nat /\ counted[g] \in Nat
  BY <1>1, HeldType DEF Shares
<1>4. /\ share2 \in [Flushes -> Nat] /\ share2[e] = Held(e, c, g)'
      /\ Buffered(g)' \in Nat /\ heard'[<<c, g>>] \in Nat /\ counted'[g] \in Nat
  <2>1. /\ Shares(c, g)' \in [Flushes -> Nat]
        /\ Buffered(g)' \in Nat /\ heard'[<<c, g>>] \in Nat /\ counted'[g] \in Nat
    <3>1. HeldTyped'
      BY HeldTypes, PTL
    <3> QED
      BY <3>1 DEF HeldTyped
  <2>2. Shares(c, g)'[e] = Held(e, c, g)'
    BY DEF Shares
  <2> QED
    BY <1>2, <2>1, <2>2
<1>5. \A f \in Flushes \ {e} : share2[f] = share[f]
  BY <1>1, <1>2 DEF Shares, Held, Waiting, CountIn, Sending
<1>6. PICK s : Sums(s, share) /\ heard[<<c, g>>] + Buffered(g) + s[Flushes] <= counted[g]
  BY <1>1 DEF Account
<1>7. PICK t : Sums(t, share2) /\ t[Flushes] = s[Flushes] - share[e] + share2[e]
  <2>1. share \in [Flushes -> Nat] /\ share2 \in [Flushes -> Nat] /\ Sums(s, share)
    BY <1>3, <1>4, <1>6
  <2> QED
    BY <2>1, <1>5, SumsChange
<1>8. s[Flushes] \in Nat
  BY <1>6 DEF Sums
<1>9. heard'[<<c, g>>] + Buffered(g)' + t[Flushes] <= counted'[g]
  <2>1. PICK held \in Nat : held = share[e]
    BY <1>3
  <2>2. PICK held2 \in Nat : held2 = share2[e]
    BY <1>4
  <2>3. heard'[<<c, g>>] + Buffered(g)' + held2 + counted[g]
            <= heard[<<c, g>>] + Buffered(g) + held + counted'[g]
    BY <1>3, <1>4, <2>1, <2>2
  <2>4. t[Flushes] = s[Flushes] - held + held2
    BY <1>7, <2>1, <2>2
  <2> QED
    BY <1>3, <1>4, <1>6, <1>8, <2>3, <2>4
<1>10. Sums(t, Shares(c, g))'
  <2>1. Sums(t, Shares(c, g)')
    BY <1>2, <1>7
  <2> QED
    BY <2>1 DEF Sums
<1> QED
  BY <1>9, <1>10 DEF Account

LEMMA ToldInit == Init => ToldInv
<1> SUFFICES ASSUME Init PROVE ToldInv
  OBVIOUS
<1>1. TypeOK
  BY TypeInit
<1>2. OneDigest
  BY DEF Init, OneDigest, Distinct, Empty
<1>3. ASSUME NEW c \in Channels, NEW g \in Groups
      PROVE  Account(c, g)
  <2>1. \A f \in Flushes : Shares(c, g)[f] = 0
    BY DEF Init, Empty, Shares, Held, Waiting, CountIn, Sending
  <2>2. Shares(c, g) \in [Flushes -> Nat]
    BY <1>1, HeldType
  <2>3. PICK s : Sums(s, Shares(c, g)) /\ s[Flushes] = 0
    BY <2>1, <2>2, SumsZero
  <2>4. heard[<<c, g>>] = 0 /\ Buffered(g) = 0 /\ counted[g] = 0
    BY DEF Init, Buffered
  <2> QED
    BY <2>3, <2>4 DEF Account
<1> QED
  BY <1>1, <1>2, <1>3 DEF ToldInv

LEMMA ToldEvent ==
  ASSUME ToldInv, TypeOK', NEW g \in Groups, Event(g)
  PROVE  ToldInv'
<1>1. TypeOK /\ UNCHANGED <<flush, heard>>
  BY DEF ToldInv, Event, OnGroupOpened, OnGroupRegressed, OnGroupRecurred, Quiet
<1>2. OneDigest'
  BY <1>1 DEF ToldInv, OneDigest
<1>3. ASSUME NEW c \in Channels, NEW h \in Groups
      PROVE  Account(c, h)'
  <2>1. heard[<<c, h>>] \in Nat /\ Buffered(h) \in Nat /\ counted[h] \in Nat
    BY <1>1, HeldType
  <2>2. CASE entries' = entries /\ counted' = counted
    <3>1. Buffered(h)' = Buffered(h)
      BY <2>2 DEF Buffered
    <3> QED
      BY <1>1, <2>1, <2>2, <3>1, AccountSame DEF ToldInv
  <2>3. CASE entries[g] # None /\ OnGroupRecurred(g)
    <3>1. entries[g] \in Entry /\ entries' \in [Groups -> Entry \union {None}]
      BY <1>1, <2>3 DEF TypeOK
    <3>2. PICK counting : counting = [entries[g] EXCEPT !.count = @ + 1]
      OBVIOUS
    <3>3. counting \in Entry /\ counting.count = entries[g].count + 1
      BY <3>1, <3>2 DEF Entry
    <3>4. entries' = [entries EXCEPT ![g] = counting] /\ counted' = [counted EXCEPT ![g] = @ + 1]
      BY <2>3, <3>2 DEF OnGroupRecurred
    <3>5. h = g => Buffered(h)' = Buffered(h) + 1 /\ counted'[h] = counted[h] + 1
      BY <1>1, <2>3, <3>3, <3>4, NoneAssumption DEF Buffered, TypeOK
    <3>6. h # g => Buffered(h)' = Buffered(h) /\ counted'[h] = counted[h]
      BY <1>1, <3>4 DEF Buffered, TypeOK
    <3> QED
      BY <1>1, <2>1, <3>5, <3>6, AccountSame DEF ToldInv
  <2>4. \/ entries' = entries /\ counted' = counted
        \/ entries[g] # None /\ OnGroupRecurred(g)
    BY DEF Event, OnGroupOpened, OnGroupRegressed, Quiet, OnGroupRecurred
  <2> QED
    BY <2>2, <2>3, <2>4
<1> QED
  BY <1>2, <1>3 DEF ToldInv

LEMMA ToldNotify ==
  ASSUME ToldInv, TypeOK', NEW a \in Alerts, Notify(a)
  PROVE  ToldInv'
<1>1. TypeOK /\ UNCHANGED <<flush, heard, counted>>
  BY DEF ToldInv, Notify, ReadChannels, SendAlert, Arm
<1>2. OneDigest'
  BY <1>1 DEF ToldInv, OneDigest
<1>3. ASSUME NEW c \in Channels, NEW h \in Groups
      PROVE  Account(c, h)'
  <2>1. heard[<<c, h>>] \in Nat /\ Buffered(h) \in Nat /\ counted[h] \in Nat
    BY <1>1, HeldType
  <2>2. Buffered(h)' <= Buffered(h) /\ Buffered(h)' \in Nat
    <3>1. CASE entries' = entries
      BY <2>1, <3>1 DEF Buffered
    <3>2. CASE Arm(a)
      <4>1. entries' = [entries EXCEPT ![alert[a].group] = Armed(alert[a].kind)]
        BY <3>2 DEF Arm
      <4>2. Armed(alert[a].kind).count = 0
        BY DEF Armed
      <4>3. CASE h = alert[a].group
        BY <1>1, <2>1, <4>1, <4>2, <4>3 DEF Buffered, TypeOK
      <4>4. CASE h # alert[a].group
        BY <1>1, <2>1, <4>1, <4>4 DEF Buffered, TypeOK
      <4> QED
        BY <4>3, <4>4
    <3> QED
      BY <3>1, <3>2 DEF Notify, ReadChannels, SendAlert
  <2> QED
    BY <1>1, <2>1, <2>2, AccountSame DEF ToldInv
<1> QED
  BY <1>2, <1>3 DEF ToldInv
LEMMA DueDistinct == Distinct(Due)
BY DEF Distinct, Due

LEMMA ToldTake ==
  ASSUME ToldInv, TypeOK', NEW f \in Flushes, TakeDue(f)
  PROVE  ToldInv'
<1>1. TypeOK /\ UNCHANGED <<heard, counted>>
  BY DEF ToldInv, TakeDue
<1>2. /\ flush'[f] = [Empty EXCEPT !.due = Due] /\ flush[f] = Empty
      /\ \A h \in Flushes \ {f} : flush'[h] = flush[h]
  BY <1>1 DEF TakeDue, Free, TypeOK
<1>3. flush'[f].due = Due /\ flush'[f].left = {} /\ flush[f].due = {} /\ flush[f].left = {}
  BY <1>2 DEF Empty
<1>4. OneDigest'
  BY <1>2, <1>3, DueDistinct DEF ToldInv, OneDigest
<1>5. ASSUME NEW c \in Channels, NEW g \in Groups
      PROVE  Account(c, g)'
  <2>1. heard[<<c, g>>] \in Nat /\ Buffered(g) \in Nat /\ counted[g] \in Nat
    BY <1>1, HeldType
  <2>2. Held(f, c, g) = 0
    <3>1. CountIn(flush[f].due, g) = 0
      BY <1>3, CountNone
    <3> QED
      BY <1>3, <3>1 DEF Held, Waiting, Sending
  <2>3. Held(f, c, g)' = CountIn(Due, g)
    <3>1. Waiting(f, g)' = CountIn(Due, g) /\ Sending(f, c, g)' = 0
      BY <1>3 DEF Waiting, Sending
    <3>2. CountIn(Due, g) \in Nat
      BY <1>3, DueType, <1>1 DEF CountIn, Digest
    <3> QED
      BY <3>1, <3>2 DEF Held
  <2>4. entries'[g] = AfterDue(entries[g])
    BY DEF TakeDue
  <2>5. CASE Ready(g)
    <3>1. PICK digest \in Due : digest = [group |-> g, count |-> entries[g].count, kind |-> entries[g].kind]
      BY <2>5 DEF Due
    <3>2. digest.group = g /\ digest.count = entries[g].count
      BY <3>1
    <3>3. CountIn(Due, g) = entries[g].count
      BY <3>1, <3>2, DueDistinct, CountIs
    <3>4. entries[g] \in Entry /\ entries'[g] = Restarted(entries[g])
      BY <1>1, <2>4, <2>5 DEF Ready, AfterDue, Elapsed, TypeOK
    <3>5. Restarted(entries[g]).count = 0
      BY <3>4 DEF Restarted, Entry
    <3>6. Buffered(g) = entries[g].count /\ Buffered(g)' = 0
      BY <2>5, <3>4, <3>5 DEF Buffered, Ready, Elapsed
    <3> QED
      BY <1>1, <1>2, <2>1, <2>2, <2>3, <3>3, <3>6, AccountChange DEF ToldInv
  <2>6. CASE ~ Ready(g)
    <3>1. CountIn(Due, g) = 0
      <4>1. \A digest \in Due : digest.group # g
        BY <2>6 DEF Due
      <4> QED
        BY <4>1, CountNone
    <3>2. Buffered(g)' <= Buffered(g) /\ Buffered(g)' \in Nat
      BY <2>1, <2>4, <2>6 DEF Buffered, AfterDue, Ready
    <3> QED
      BY <1>1, <1>2, <2>1, <2>2, <2>3, <3>1, <3>2, AccountChange DEF ToldInv
  <2> QED
    BY <2>5, <2>6
<1> QED
  BY <1>4, <1>5 DEF ToldInv

LEMMA ToldNextDigest ==
  ASSUME ToldInv, TypeOK', NEW f \in Flushes, NextDigest(f)
  PROVE  ToldInv'
<1>1. TypeOK /\ UNCHANGED <<entries, heard, counted>>
  BY DEF ToldInv, NextDigest
<1>2. PICK round : round = flush[f]
  OBVIOUS
<1>0. PICK digest \in round.due :
         flush' = [flush EXCEPT ![f] =
                      IF DigestChannels(digest) = {} /\ (round.due \ {digest}) = {} THEN Empty
                      ELSE [due |-> (round.due \ {digest}), current |-> digest,
                            left |-> DigestChannels(digest)]]
  BY <1>2 DEF NextDigest
<1>3. PICK next :
         /\ digest \in round.due
         /\ flush' = [flush EXCEPT ![f] = next]
         /\ next = IF DigestChannels(digest) = {} /\ (round.due \ {digest}) = {} THEN Empty
                   ELSE [due |-> (round.due \ {digest}), current |-> digest,
                         left |-> DigestChannels(digest)]
  BY <1>0
<1>4. round.left = {} /\ digest \in Digest
  BY <1>1, <1>2, <1>3 DEF NextDigest, TypeOK, Round
<1>5. /\ next.due = round.due \ {digest}
      /\ \A c \in next.left : next.current = digest
  BY <1>3 DEF Empty
<1>6. flush'[f] = next /\ \A h \in Flushes \ {f} : flush'[h] = flush[h]
  BY <1>1, <1>3 DEF TypeOK
<1>7. Distinct(round.due)
  BY <1>2 DEF ToldInv, OneDigest
<1>8. OneDigest'
  <2>1. Distinct(next.due)
    BY <1>5, <1>7 DEF Distinct
  <2> QED
    BY <1>6, <2>1 DEF ToldInv, OneDigest
<1>9. ASSUME NEW c \in Channels, NEW g \in Groups
      PROVE  Account(c, g)'
  <2>1. /\ heard[<<c, g>>] \in Nat /\ Buffered(g) \in Nat /\ counted[g] \in Nat
        /\ Waiting(f, g) \in Nat
    BY <1>1, HeldType
  <2>2. Buffered(g)' = Buffered(g)
    BY <1>1 DEF Buffered
  <2>3. Held(f, c, g) = CountIn(round.due, g) /\ CountIn(round.due, g) \in Nat
    BY <1>2, <1>4, <2>1 DEF Held, Waiting, Sending
  <2>4. Held(f, c, g)' = CountIn(next.due, g) + Sending(f, c, g)'
    BY <1>6 DEF Held, Waiting
  <2>5. CASE g = digest.group
    <3>1. CountIn(round.due, g) = digest.count
      BY <1>3, <1>7, <2>5, CountIs
    <3>2. CountIn(next.due, g) = 0
      <4>1. \A other \in next.due : other.group # g
        BY <1>3, <1>5, <1>7, <2>5 DEF Distinct
      <4> QED
        BY <4>1, CountNone
    <3>3. Sending(f, c, g)' \in {0, digest.count}
      BY <1>5, <1>6 DEF Sending
    <3>4. Held(f, c, g)' <= Held(f, c, g) /\ Held(f, c, g)' \in Nat
      BY <1>4, <2>3, <2>4, <3>1, <3>2, <3>3 DEF Digest
    <3> QED
      BY <1>1, <1>6, <2>1, <2>2, <2>3, <3>4, AccountChange DEF ToldInv
  <2>6. CASE g # digest.group
    <3>1. CountIn(next.due, g) = CountIn(round.due, g)
      <4>1. CASE \E other \in round.due : other.group = g
        <5>1. PICK other \in round.due : other.group = g
          BY <4>1
        <5>2. other \in next.due /\ Distinct(next.due)
          BY <1>5, <1>7, <2>6, <5>1 DEF Distinct
        <5>3. CountIn(round.due, g) = other.count
          BY <1>7, <5>1, CountIs
        <5>4. CountIn(next.due, g) = other.count
          BY <5>1, <5>2, CountIs
        <5> QED
          BY <5>3, <5>4
      <4>2. CASE \A other \in round.due : other.group # g
        <5>1. \A other \in next.due : other.group # g
          BY <1>5, <4>2
        <5> QED
          BY <4>2, <5>1, CountNone
      <4> QED
        BY <4>1, <4>2
    <3>2. Sending(f, c, g)' = 0
      BY <1>5, <1>6, <2>6 DEF Sending
    <3>3. Held(f, c, g)' = Held(f, c, g)
      BY <2>3, <2>4, <3>1, <3>2
    <3> QED
      BY <1>1, <1>6, <2>1, <2>2, <2>3, <3>3, AccountChange DEF ToldInv
  <2> QED
    BY <2>5, <2>6
<1> QED
  BY <1>8, <1>9 DEF ToldInv

LEMMA ToldSend ==
  ASSUME ToldInv, TypeOK', NEW f \in Flushes, NEW b \in Channels, SendDigest(f, b)
  PROVE  ToldInv'
<1>1. TypeOK /\ UNCHANGED <<entries, counted>>
  BY DEF ToldInv, SendDigest
<1>2. PICK round : round = flush[f]
  OBVIOUS
<1>3. PICK next :
         /\ flush' = [flush EXCEPT ![f] = next]
         /\ next = IF round.left \ {b} = {} /\ round.due = {} THEN Empty
                   ELSE [round EXCEPT !.left = round.left \ {b}]
  BY <1>2 DEF SendDigest, Untried
<1>4. round \in Round /\ b \in round.left
  BY <1>1, <1>2 DEF SendDigest, TypeOK
<1>5. round.current \in Digest
  BY <1>4 DEF Round
<1>6. /\ next.due = round.due /\ next.left = round.left \ {b}
      /\ \A c \in next.left : next.current = round.current
  BY <1>3, <1>4 DEF Empty, Round
<1>7. flush'[f] = next /\ \A h \in Flushes \ {f} : flush'[h] = flush[h]
  BY <1>1, <1>3 DEF TypeOK
<1>8. heard' = [heard EXCEPT ![<<b, round.current.group>>] = @ + round.current.count]
  BY <1>2 DEF SendDigest
<1>9. OneDigest'
  BY <1>2, <1>6, <1>7 DEF ToldInv, OneDigest
<1>10. ASSUME NEW c \in Channels, NEW g \in Groups
       PROVE  Account(c, g)'
  <2>1. /\ heard[<<c, g>>] \in Nat /\ Buffered(g) \in Nat /\ counted[g] \in Nat
        /\ Waiting(f, g) \in Nat
    BY <1>1, HeldType
  <2>2. Buffered(g)' = Buffered(g) /\ Waiting(f, g)' = Waiting(f, g)
    BY <1>1, <1>2, <1>6, <1>7 DEF Buffered, Waiting
  <2>3. CASE c = b /\ g = round.current.group
    <3>1. Sending(f, c, g) = round.current.count /\ Sending(f, c, g)' = 0
      BY <1>2, <1>4, <1>6, <1>7, <2>3 DEF Sending
    <3>2. heard'[<<c, g>>] = heard[<<c, g>>] + round.current.count
      BY <1>1, <1>8, <2>3 DEF TypeOK
    <3>3. Held(f, c, g) = Waiting(f, g) + round.current.count /\ Held(f, c, g)' = Waiting(f, g)
      BY <2>1, <2>2, <3>1 DEF Held
    <3>4. round.current.count \in Nat
      BY <1>5 DEF Digest
    <3> QED
      BY <1>1, <1>7, <2>1, <2>2, <3>2, <3>3, <3>4, AccountChange DEF ToldInv
  <2>4. CASE c # b \/ g # round.current.group
    <3>1. Sending(f, c, g)' = Sending(f, c, g)
      BY <1>2, <1>6, <1>7, <2>4 DEF Sending
    <3>2. heard'[<<c, g>>] = heard[<<c, g>>]
      BY <1>1, <1>8, <2>4 DEF TypeOK
    <3>3. Held(f, c, g)' = Held(f, c, g) /\ Held(f, c, g) \in Nat
      <4>1. Sending(f, c, g) \in Nat
        BY <1>1, HeldType
      <4> QED
        BY <2>1, <2>2, <3>1, <4>1 DEF Held
    <3> QED
      BY <1>1, <1>7, <2>1, <2>2, <3>2, <3>3, AccountChange DEF ToldInv
  <2> QED
    BY <2>3, <2>4
<1> QED
  BY <1>9, <1>10 DEF ToldInv

LEMMA ToldTick ==
  ASSUME ToldInv, TypeOK', Tick
  PROVE  ToldInv'
<1>1. TypeOK /\ UNCHANGED <<flush, heard, counted>>
  BY DEF ToldInv, Tick
<1>2. OneDigest'
  BY <1>1 DEF ToldInv, OneDigest
<1>3. ASSUME NEW c \in Channels, NEW g \in Groups
      PROVE  Account(c, g)'
  <2>1. heard[<<c, g>>] \in Nat /\ Buffered(g) \in Nat /\ counted[g] \in Nat
    BY <1>1, HeldType
  <2>2. Buffered(g)' = Buffered(g)
    <3>1. CASE entries[g] = None
      BY <3>1 DEF Tick, Buffered
    <3>2. CASE entries[g] # None
      <4>1. PICK older : older = [entries[g] EXCEPT !.age = Older(@)]
        OBVIOUS
      <4>2. entries'[g] = older
        BY <3>2, <4>1 DEF Tick
      <4>3. entries[g] \in Entry
        BY <1>1, <3>2 DEF TypeOK
      <4>4. older.count = entries[g].count /\ older \in Entry
        BY <4>1, <4>3, OlderEntryType DEF Entry
      <4> QED
        BY <3>2, <4>2, <4>4, NoneAssumption DEF Buffered
    <3> QED
      BY <3>1, <3>2
  <2> QED
    BY <1>1, <2>1, <2>2, AccountSame DEF ToldInv
<1> QED
  BY <1>2, <1>3 DEF ToldInv

LEMMA ToldRestart ==
  ASSUME ToldInv, TypeOK', Restart
  PROVE  ToldInv'
<1>1. TypeOK /\ UNCHANGED <<heard, counted>>
  BY DEF ToldInv, Restart
<1>2. OneDigest'
  BY DEF Restart, OneDigest, Distinct, Empty
<1>3. ASSUME NEW c \in Channels, NEW g \in Groups
      PROVE  Account(c, g)'
  <2>1. heard[<<c, g>>] \in Nat /\ Buffered(g) \in Nat /\ counted[g] \in Nat
    BY <1>1, HeldType
  <2>2. PICK s : Sums(s, Shares(c, g)) /\ heard[<<c, g>>] + Buffered(g) + s[Flushes] <= counted[g]
    BY DEF ToldInv, Account
  <2>3. s[Flushes] \in Nat
    BY <2>2 DEF Sums
  <2>4. Buffered(g)' = 0
    BY DEF Restart, Buffered
  <2>5. PICK share2 : share2 = [f \in Flushes |-> 0]
    OBVIOUS
  <2>6. Shares(c, g)' = share2
    <3>1. \A f \in Flushes : Held(f, c, g)' = 0
      BY DEF Restart, Empty, Held, Waiting, CountIn, Sending
    <3> QED
      BY <2>5, <3>1 DEF Shares
  <2>7. PICK t : Sums(t, share2) /\ t[Flushes] = 0
    BY <2>5, SumsZero
  <2>8. heard'[<<c, g>>] + Buffered(g)' + t[Flushes] <= counted'[g]
    BY <1>1, <2>1, <2>2, <2>3, <2>4, <2>7
  <2>9. Sums(t, Shares(c, g))'
    <3>1. Sums(t, Shares(c, g)')
      BY <2>6, <2>7
    <3> QED
      BY <3>1 DEF Sums
  <2> QED
    BY <2>8, <2>9 DEF Account
<1> QED
  BY <1>2, <1>3 DEF ToldInv

LEMMA ToldNext == ToldInv /\ [Next]_vars => ToldInv'
<1> SUFFICES ASSUME ToldInv, [Next]_vars PROVE ToldInv'
  OBVIOUS
<1>1. TypeOK'
  BY TypeNext DEF ToldInv
<1>2. CASE UNCHANGED <<entries, flush, heard, counted>>
  <2>1. OneDigest'
    BY <1>2 DEF ToldInv, OneDigest
  <2>2. ASSUME NEW c \in Channels, NEW g \in Groups
        PROVE  Account(c, g)'
    <3>1. Buffered(g)' = Buffered(g)
      BY <1>2 DEF Buffered
    <3>2. TypeOK /\ heard[<<c, g>>] \in Nat /\ Buffered(g) \in Nat /\ counted[g] \in Nat
      BY HeldType DEF ToldInv
    <3> QED
      BY <1>1, <1>2, <3>1, <3>2, AccountSame DEF ToldInv
  <2> QED
    BY <1>1, <2>1, <2>2 DEF ToldInv
<1>3. CASE ~ UNCHANGED <<entries, flush, heard, counted>>
  <2>1. \/ \E g \in Groups : Event(g)
        \/ \E a \in Alerts : Notify(a)
        \/ \E f \in Flushes : Flush(f)
        \/ Tick \/ Restart
    BY <1>3 DEF Next, vars, User, SetEnabled, SetFollows, Edit
  <2> QED
    BY <1>1, <2>1, ToldEvent, ToldNotify, ToldTake, ToldNextDigest, ToldSend, ToldTick, ToldRestart
       DEF Flush
<1> QED
  BY <1>2, <1>3

\* A reminder repeats no recurrence to a channel, whatever the flushes that
\* overlap, the alerts that come back to a group and the restarts; and as long
\* as nobody edits the channels, it goes to those its alert was tried on.
THEOREM RemindersAreRight == Spec => []RemindersRight
<1>1. ToldInv => NeverToldTwice
  <2> SUFFICES ASSUME ToldInv, NEW c \in Channels, NEW g \in Groups
               PROVE  heard[<<c, g>>] + Buffered(g) <= counted[g]
    BY DEF NeverToldTwice, Buffered
  <2>1. heard[<<c, g>>] \in Nat /\ Buffered(g) \in Nat /\ counted[g] \in Nat
    BY HeldType DEF ToldInv
  <2>2. PICK s : Sums(s, Shares(c, g)) /\ heard[<<c, g>>] + Buffered(g) + s[Flushes] <= counted[g]
    BY DEF ToldInv, Account
  <2>3. s[Flushes] \in Nat
    BY <2>2 DEF Sums
  <2> QED
    BY <2>1, <2>2, <2>3
<1>2. PathInv => RemindersFollow
  BY DEF PathInv, DigestsReached, RemindersFollow
<1>3. Spec => []ToldInv
  BY ToldInit, ToldNext, PTL DEF Spec
<1>4. Spec => []PathInv
  BY TypeCorrect, PathInit, PathNext, PTL DEF Spec
<1>5. NeverToldTwice /\ RemindersFollow => RemindersRight
  BY DEF RemindersRight
<1> QED
  BY <1>1, <1>2, <1>3, <1>4, <1>5, PTL
=============================================================================
