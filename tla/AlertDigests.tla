---------------------------- MODULE AlertDigests ----------------------------
(***************************************************************************)
(* How the events of the error groups become messages: NotifierService     *)
(* (apps/api/src/modules/notifier/notifier.service.ts) over the buffer of  *)
(* packages/core/src/domain/alert-digest.ts.                               *)
(*                                                                         *)
(* The first alert of a problem is sent channel after channel, then the    *)
(* problem is armed; its recurrences are counted, and a minutely flush     *)
(* sends the count when a window has elapsed.  The handlers wait on the    *)
(* database and on the network, so alerts and flushes interleave; the      *)
(* buffer lives in memory only.                                            *)
(*                                                                         *)
(* Time is kept as ages, which stop growing at Window.  An event older     *)
(* than FRESHNESS_HOURS is dropped: whether one is fresh is a choice of    *)
(* the environment.  The other alerts of the service (relay, budget, API   *)
(* keys, models, drift) are one-shot messages and are left out.            *)
(***************************************************************************)
EXTENDS Integers, FiniteSets

CONSTANTS
    Groups,       \* error groups
    Channels,     \* notification channels
    Alerts,       \* alert handlers that may be in progress at the same time
    Flushes,      \* flushes that may be in progress at the same time
    Window,       \* DIGEST_WINDOW_MS, in ticks
    None,         \* no entry in the buffer, no digest in hand
    MaxHits,      \* bound: recurrences
    MaxRelapses,  \* bound: regressions
    MaxEdits,     \* bound: changes of a channel or of the module's activation
    MaxRestarts   \* bound: restarts of the API process

Kinds == {"opened", "regressed"}

Ages == 0..Window

Entry == [count : Nat, age : Ages, kind : Kinds]

Digest == [group : Groups, count : Nat, kind : Kinds]

ASSUME ConstantsAssumption ==
    /\ Window \in Nat \ {0}
    /\ MaxHits \in Nat /\ MaxRelapses \in Nat /\ MaxEdits \in Nat /\ MaxRestarts \in Nat

ASSUME NoneAssumption == None \notin Entry \union Digest \union Groups \union Kinds

VARIABLES
    enabled,   \* the notifier module is enabled
    follows,   \* kinds of alerts each channel takes; none when it is disabled
    entries,   \* the buffer: what is counted for each armed group
    alert,     \* what each alert handler holds
    flush,     \* what each flush holds
    opened,    \* groups whose opening was emitted
    told,      \* groups armed since the platform was installed
    alerted,   \* channels on which the alert of a group was tried
    counted,   \* recurrences that were counted, per group
    heard,     \* recurrences reported by digests, per channel and group
    refused,   \* why recurrences of told groups were not counted
    age,       \* ages: of the process, and per group of its last digest and
               \* of its last sign of life (armed, or a recurrence, until a
               \* silence as long as the window)
    budget     \* what is left of the bounds

source == <<opened, told, refused>>

vars == <<enabled, follows, entries, alert, flush, source, alerted, counted, heard, age, budget>>

Resting == [at |-> "idle", group |-> None, kind |-> "opened", left |-> {}]

Empty == [due |-> {}, current |-> None, left |-> {}]

\* An alert handler rests, or tells a group to the channels left.
Alert == {Resting} \union [at : {"channels", "send"}, group : Groups, kind : Kinds, left : SUBSET Channels]

\* A flush has digests to send, and sends one of them to the channels left.
Round == [due : SUBSET Digest, current : {None}, left : {{}}]
            \union [due : SUBSET Digest, current : Digest, left : SUBSET Channels]

Init ==
    /\ enabled = TRUE
    /\ follows \in [Channels -> SUBSET Kinds]
    /\ entries = [g \in Groups |-> None]
    /\ alert = [a \in Alerts |-> Resting]
    /\ flush = [f \in Flushes |-> Empty]
    /\ opened = {} /\ told = {}
    /\ alerted = {}
    /\ counted = [g \in Groups |-> 0]
    /\ heard = [x \in Channels \X Groups |-> 0]
    /\ refused = [g \in Groups |-> {}]
    /\ age = [process |-> Window,
              digest  |-> [g \in Groups |-> Window],
              sign    |-> [g \in Groups |-> Window]]
    /\ budget = [hits |-> MaxHits, relapses |-> MaxRelapses,
                 edits |-> MaxEdits, restarts |-> MaxRestarts]

Followers(kind) == {c \in Channels : kind \in follows[c]}

---------------------------------------------------------------------------
(* The buffer (AlertDigestBuffer) *)

Armed(kind) == [count |-> 0, age |-> 0, kind |-> kind]

Elapsed(entry) == entry # None /\ entry.age >= Window

\* Faulty variants: the silent entries stay, the others go with them.
NeverSilent(entry) == FALSE
AlwaysSilent(entry) == TRUE

Silent(entry) == entry.count = 0

\* Faulty variants: the count, or the start of the window, is not reset.
Recounted(entry) == [entry EXCEPT !.age = 0]
Reopened(entry) == [entry EXCEPT !.count = 0]

Restarted(entry) == [entry EXCEPT !.count = 0, !.age = 0]

\* What due() leaves of an entry: unchanged, deleted or started again.
AfterDue(entry) ==
    IF ~ Elapsed(entry) THEN entry
    ELSE IF Silent(entry) THEN None ELSE Restarted(entry)

\* What due() returns.
Ready(g) == Elapsed(entries[g]) /\ ~ Silent(entries[g])

Due == {[group |-> g, count |-> entries[g].count, kind |-> entries[g].kind] : g \in {h \in Groups : Ready(h)}}

---------------------------------------------------------------------------
(* The alert of a group (handle) *)

\* The event is fresh and the module enabled: the handler takes it.
Handle(a, g, kind) ==
    /\ alert[a].at = "idle"
    /\ alert' = [alert EXCEPT ![a] = [Resting EXCEPT !.at = "channels", !.group = g, !.kind = kind]]

\* An event of the error groups: dropped when stale or when the module is disabled.
Notable(g, kind) ==
    \/ UNCHANGED alert
    \/ enabled /\ \E a \in Alerts : Handle(a, g, kind)

Quiet == UNCHANGED <<enabled, follows, entries, flush, told, refused, alerted, counted, heard, age>>

OnGroupOpened(g) ==
    /\ g \notin opened
    /\ opened' = opened \union {g}
    /\ Notable(g, "opened")
    /\ UNCHANGED budget /\ Quiet

OnGroupRegressed(g) ==
    /\ g \in opened
    /\ budget.relapses > 0
    /\ budget' = [budget EXCEPT !.relapses = @ - 1]
    /\ Notable(g, "regressed")
    /\ UNCHANGED opened /\ Quiet

\* Nobody follows this kind of alert: the group is not armed.
ReadChannels(a) ==
    LET channels == Followers(alert[a].kind) IN
    /\ alert[a].at = "channels"
    /\ alert' = [alert EXCEPT ![a] = IF channels = {} THEN Resting
                                    ELSE [@ EXCEPT !.at = "send", !.left = channels]]
    /\ UNCHANGED <<enabled, follows, entries, flush, source, alerted, counted, heard, age, budget>>

\* A channel that fails is logged: the next one is tried all the same.
SendAlert(a, c) ==
    /\ alert[a].at = "send"
    /\ c \in alert[a].left
    /\ alert' = [alert EXCEPT ![a].left = @ \ {c}]
    /\ alerted' = alerted \union {<<c, alert[a].group>>}
    /\ UNCHANGED <<enabled, follows, entries, flush, source, counted, heard, age, budget>>

\* Every channel was tried: the recurrences will be counted from now on.
Arm(a) ==
    LET g == alert[a].group IN
    /\ alert[a].at = "send"
    /\ alert[a].left = {}
    /\ entries' = [entries EXCEPT ![g] = Armed(alert[a].kind)]
    /\ told' = told \union {g}
    /\ age' = [age EXCEPT !.sign[g] = 0]
    /\ alert' = [alert EXCEPT ![a] = Resting]
    /\ UNCHANGED <<enabled, follows, flush, opened, refused, alerted, counted, heard, budget>>

---------------------------------------------------------------------------
(* Recurrences *)

\* Why a recurrence of a told group finds no entry: the problem was silent for
\* a window, the process has just restarted, or neither.
Reason(g) ==
    IF age.sign[g] = Window THEN "silent"
    ELSE IF age.process < Window THEN "restart" ELSE "active"

OnGroupRecurred(g) ==
    /\ g \in opened
    /\ enabled
    /\ budget.hits > 0
    /\ budget' = [budget EXCEPT !.hits = @ - 1]
    /\ \/ /\ entries[g] # None
          /\ entries' = [entries EXCEPT ![g].count = @ + 1]
          /\ counted' = [counted EXCEPT ![g] = @ + 1]
          /\ age' = [age EXCEPT !.sign[g] = 0]
          /\ UNCHANGED refused
       \/ /\ entries[g] = None
          /\ refused' = IF g \in told THEN [refused EXCEPT ![g] = @ \union {Reason(g)}] ELSE refused
          /\ age' = [age EXCEPT !.sign[g] = IF @ = Window THEN @ ELSE 0]
          /\ UNCHANGED <<entries, counted>>
    /\ UNCHANGED <<enabled, follows, alert, flush, opened, told, alerted, heard>>

---------------------------------------------------------------------------
(* The flush of the digests (flushDigests) *)

Free(f) == flush[f] = Empty

\* The due digests are taken at once, and sent one after the other.
TakeDue(f) ==
    /\ Free(f)
    /\ enabled
    /\ \E g \in Groups : Elapsed(entries[g])
    /\ entries' = [g \in Groups |-> AfterDue(entries[g])]
    /\ flush' = [flush EXCEPT ![f].due = Due]
    /\ age' = [age EXCEPT !.digest = [g \in Groups |-> IF Ready(g) THEN 0 ELSE @[g]]]
    /\ UNCHANGED <<enabled, follows, alert, source, alerted, counted, heard, budget>>

DigestChannels(digest) == Followers(digest.kind)

NextDigest(f) ==
    /\ flush[f].left = {}
    /\ \E digest \in flush[f].due :
          LET channels == DigestChannels(digest)
              others == flush[f].due \ {digest} IN
          flush' = [flush EXCEPT ![f] =
                      IF channels = {} /\ others = {} THEN Empty
                      ELSE [due |-> others, current |-> digest, left |-> channels]]
    /\ UNCHANGED <<enabled, follows, entries, alert, source, alerted, counted, heard, age, budget>>

\* Faulty variant: a channel that fails ends the digest.
StopThere(left, c) == {}

\* A channel that fails is logged: the others are still to be tried.
Untried(left, c) == left \ {c}

SendDigest(f, c) ==
    LET digest == flush[f].current
        left == Untried(flush[f].left, c) IN
    /\ c \in flush[f].left
    /\ heard' = [heard EXCEPT ![<<c, digest.group>>] = @ + digest.count]
    /\ flush' = [flush EXCEPT ![f] = IF left = {} /\ @.due = {} THEN Empty ELSE [@ EXCEPT !.left = left]]
    /\ UNCHANGED <<enabled, follows, entries, alert, source, alerted, counted, age, budget>>

---------------------------------------------------------------------------
(* Time, users and restarts *)

Older(a) == IF a < Window THEN a + 1 ELSE a

Tick ==
    /\ age' = [process |-> Older(age.process),
               digest  |-> [g \in Groups |-> Older(age.digest[g])],
               sign    |-> [g \in Groups |-> Older(age.sign[g])]]
    /\ entries' = [g \in Groups |-> IF entries[g] = None THEN None
                                     ELSE [entries[g] EXCEPT !.age = Older(@)]]
    /\ <<age, entries>>' # <<age, entries>>
    /\ UNCHANGED <<enabled, follows, alert, flush, source, alerted, counted, heard, budget>>

Edit ==
    /\ budget.edits > 0
    /\ budget' = [budget EXCEPT !.edits = @ - 1]
    /\ UNCHANGED <<entries, alert, flush, source, alerted, counted, heard, age>>

SetFollows(c, kinds) ==
    /\ follows[c] # kinds
    /\ follows' = [follows EXCEPT ![c] = kinds]
    /\ UNCHANGED enabled /\ Edit

SetEnabled ==
    /\ enabled' = ~ enabled
    /\ UNCHANGED follows /\ Edit

\* The buffer and the handlers in progress are lost.
Restart ==
    /\ budget.restarts > 0
    /\ budget' = [budget EXCEPT !.restarts = @ - 1]
    /\ entries' = [g \in Groups |-> None]
    /\ alert' = [a \in Alerts |-> Resting]
    /\ flush' = [f \in Flushes |-> Empty]
    /\ age' = [age EXCEPT !.process = 0]
    /\ UNCHANGED <<enabled, follows, source, alerted, counted, heard>>

Event(g) == OnGroupOpened(g) \/ OnGroupRegressed(g) \/ OnGroupRecurred(g)

Notify(a) == ReadChannels(a) \/ Arm(a) \/ \E c \in Channels : SendAlert(a, c)

Flush(f) == TakeDue(f) \/ NextDigest(f) \/ \E c \in Channels : SendDigest(f, c)

User == SetEnabled \/ \E c \in Channels, kinds \in SUBSET Kinds : SetFollows(c, kinds)

Next == \/ \E g \in Groups : Event(g)
        \/ \E a \in Alerts : Notify(a)
        \/ \E f \in Flushes : Flush(f)
        \/ Tick \/ User \/ Restart

Spec == Init /\ [][Next]_vars

\* Time passes, the flush comes back every minute, and a send ends after ten
\* seconds at most (the timeout of the notification adapter).
Fairness == WF_vars(Tick) /\ (\A a \in Alerts : WF_vars(Notify(a))) /\ \A f \in Flushes : WF_vars(Flush(f))

FairSpec == Spec /\ Fairness

---------------------------------------------------------------------------
(* Properties *)

\* Every variable keeps its type: an entry has the kind of the alert that armed it.
TypeOK ==
    /\ enabled \in BOOLEAN
    /\ follows \in [Channels -> SUBSET Kinds]
    /\ entries \in [Groups -> Entry \union {None}]
    /\ alert \in [Alerts -> Alert]
    /\ flush \in [Flushes -> Round]
    /\ opened \subseteq Groups /\ told \subseteq Groups
    /\ alerted \subseteq Channels \X Groups
    /\ counted \in [Groups -> Nat]
    /\ heard \in [Channels \X Groups -> Nat]
    /\ refused \in [Groups -> SUBSET {"silent", "restart", "active"}]
    /\ age \in [process : Ages, digest : [Groups -> Ages], sign : [Groups -> Ages]]
    /\ budget \in [hits : Nat, relapses : Nat, edits : Nat, restarts : Nat]

\* A recurrence is reported at most once to a channel, whatever the flushes
\* that overlap: what a channel heard and what is still counted never add up
\* to more than what occurred.
NeverToldTwice ==
    \A c \in Channels, g \in Groups :
        heard[<<c, g>>] + (IF entries[g] = None THEN 0 ELSE entries[g].count) <= counted[g]

\* "One message per window and per problem": two digests of a problem are
\* taken at least a window apart, alerts in between included.
DigestsSpaced ==
    [][\A g \in Groups, f \in Flushes :
          (\E digest \in flush'[f].due \ flush[f].due : digest.group = g) => age.digest[g] = Window]_vars

\* "Channels the first alert left for: the reminder takes the same path", as
\* long as nobody edits the channels in between.
RemindersFollow ==
    budget.edits = MaxEdits =>
    \A f \in Flushes : \A c \in flush[f].left : <<c, flush[f].current.group>> \in alerted

\* A reminder repeats nothing a channel was told, and goes to those the alert
\* went to.
RemindersRight == NeverToldTwice /\ RemindersFollow

\* The process has not been restarted so far.
Unrestarted == budget.restarts = MaxRestarts

\* As long as a told problem gives a sign of life in each window and the
\* process lives, each of its recurrences is counted.
ActiveIsCounted ==
    Unrestarted => \A g \in Groups : refused[g] \subseteq {"silent"}

\* No channel or module was edited, no problem relapsed, no restart so far.
Undisturbed == Unrestarted /\ budget.edits = MaxEdits /\ budget.relapses = MaxRelapses

\* What was counted is reported to every channel that takes both kinds, unless
\* the counting is disturbed: a second alert arms its group again from zero.
CountedIsReported ==
    <>[](Undisturbed => \A g \in Groups, c \in Channels :
            follows[c] = Kinds => heard[<<c, g>>] = counted[g])

\* A problem that falls silent is forgotten: the buffer of an enabled module
\* does not grow for ever.
SilentIsForgotten == <>[](enabled => \A g \in Groups : entries[g] = None)

\* The buffer empties into the channels: nothing counted stays in it, nor any
\* problem that fell silent.
DigestsSettle == CountedIsReported /\ SilentIsForgotten
=============================================================================
