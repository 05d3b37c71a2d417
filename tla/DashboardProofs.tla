-------------------------- MODULE DashboardProofs --------------------------
(***************************************************************************)
(* Proofs about Dashboard, for any number of pairs, configurations, edits, *)
(* loads, mode switches and saves, and any capacity of the channel.        *)
(***************************************************************************)
EXTENDS Dashboard, FiniteSetTheorems, TLAPS

-----------------------------------------------------------------------------
(* Type correctness.                                                       *)

FormTyped ==
    /\ session \in Sessions
    /\ form \in Version /\ last \in Version /\ onPrem \in BOOLEAN
    /\ modes \in Nat /\ modes <= session.modes

StoreTyped ==
    /\ cfg \in [name : Configs, ver : Version]
    /\ stored \in [Configs -> Version \cup {NotStored}]

ConfigTyped ==
    /\ explicit \in BOOLEAN /\ selected \in BOOLEAN /\ listLoading \in BOOLEAN
    /\ listing \in BOOLEAN /\ screen \in {"list", "new"} /\ listed \subseteq Configs
    /\ entryReq \subseteq Entry /\ \A d, e \in entryReq : d = e
    /\ loads \in Nat /\ loads <= session.loads

CostTyped ==
    /\ rows \in [Row -> Nat] /\ loading \in BOOLEAN
    /\ recent \in BOOLEAN /\ pending \in BOOLEAN
    /\ ticks \in Nat /\ streams \subseteq Stream /\ kicks \in Nat

CredTyped == compare \in BOOLEAN /\ credsReq \in BOOLEAN /\ credsStored \in BOOLEAN

SaveTyped ==
    /\ saving \in BOOLEAN /\ saves \subseteq Save
    /\ presses \in Nat /\ presses <= session.saves

RunTyped == run \in {"open", "quit", "deploy", "aborted", "deployed"}

Typed ==
    FormTyped /\ StoreTyped /\ ConfigTyped /\ CostTyped /\ CredTyped /\ SaveTyped /\ RunTyped

\* At most one element, said without cardinality and with it.
LEMMA AtMostOne ==
    ASSUME NEW S, \A x, y \in S : x = y
    PROVE  Cardinality(S) <= 1
<1>1. CASE S = {}
    BY <1>1, FS_EmptySet
<1>2. CASE S # {}
    <2> PICK x \in S : S = {x}
        BY <1>2
    <2> QED
        BY FS_Singleton
<1> QED
    BY <1>1, <1>2

LEMMA TypedGivesTypeOK == Typed => TypeOK
BY AtMostOne DEF Typed, FormTyped, StoreTyped, ConfigTyped, CostTyped, CredTyped, SaveTyped,
                     RunTyped, TypeOK

LEMMA SessionType ==
    ASSUME Typed
    PROVE  /\ session.pairs \subseteq Pairs /\ session.vers \in Version
           /\ session.loads \in Nat /\ session.modes \in Nat /\ session.saves \in Nat
BY BoundsAssumption DEF Typed, FormTyped, Session, Version

\* The next version is one while the bound of the session allows it.
LEMMA NextVersion ==
    ASSUME Typed, last < session.vers
    PROVE  last + 1 \in Version
BY SessionType, BoundsAssumption DEF Typed, FormTyped, Version

LEMMA KickType ==
    ASSUME Typed, NEW v \in Version, NEW on \in BOOLEAN, Kick(v, on)
    PROVE  streams' \subseteq Stream /\ kicks' \in Nat
<1>1. OpenStream(kicks + 1, v) \in Stream
    BY SessionType DEF OpenStream, Stream, Typed, CostTyped
<1> QED
    BY <1>1 DEF Kick, Typed, CostTyped

LEMMA MarkDirtyType ==
    ASSUME Typed, NEW kept \in BOOLEAN, MarkDirty(kept)
    PROVE  recent' \in BOOLEAN /\ pending' \in BOOLEAN /\ ticks' \in Nat
BY DEF Typed, CostTyped, MarkDirty

LEMMA NoRowsType == NoRows \in [Row -> Nat]
BY DEF NoRows

LEMMA InitTyped == Init => Typed
<1> SUFFICES ASSUME Init PROVE Typed
    OBVIOUS
<1> DEFINE Named == {c \in Configs : InitStored[c] # NotStored}
<1>1. last \in Version
    <2>1. Cardinality(Named) \in Nat /\ Cardinality(Named) <= MaxVer
        BY BoundsAssumption, FS_Subset, FS_CardinalityType
    <2> QED
        BY <2>1, BoundsAssumption DEF Init, Version
<1>2. 0 \in Version /\ InitStored \in [Configs -> Version \cup {NotStored}]
    BY BoundsAssumption DEF Version
<1>3. /\ session \in Sessions /\ session.pairs \subseteq Pairs
      /\ session.explicit \in BOOLEAN /\ session.compare \in BOOLEAN
      /\ session.loads \in Nat /\ session.modes \in Nat /\ session.saves \in Nat
    BY BoundsAssumption DEF Init, Session
<1>4. streams \subseteq Stream
    BY <1>2, <1>3 DEF Init, OpenStream, Stream
<1>5. cfg \in [name : Configs, ver : Version]
    BY <1>2 DEF Init
<1>6. /\ explicit \in BOOLEAN /\ selected \in BOOLEAN /\ listLoading \in BOOLEAN
      /\ listing \in BOOLEAN /\ compare \in BOOLEAN /\ loading \in BOOLEAN
    BY <1>3, Zenon DEF Init
<1>7. kicks \in Nat /\ rows \in [Row -> Nat] /\ ticks \in Nat /\ saves \subseteq Save
    BY NoRowsType DEF Init
<1>8. /\ modes \in Nat /\ modes <= session.modes /\ loads \in Nat /\ loads <= session.loads
      /\ presses \in Nat /\ presses <= session.saves
    BY <1>3 DEF Init
<1>9. /\ onPrem \in BOOLEAN /\ credsReq \in BOOLEAN /\ credsStored \in BOOLEAN
      /\ recent \in BOOLEAN /\ pending \in BOOLEAN /\ saving \in BOOLEAN
    BY DEF Init
<1>10. /\ form \in Version /\ stored \in [Configs -> Version \cup {NotStored}]
       /\ screen \in {"list", "new"} /\ listed \subseteq Configs /\ entryReq = {}
       /\ run \in {"open", "quit", "deploy", "aborted", "deployed"}
    BY <1>2 DEF Init
<1> QED
    BY <1>1, <1>3, <1>4, <1>5, <1>6, <1>7, <1>8, <1>9, <1>10
    DEF Typed, FormTyped, StoreTyped, ConfigTyped, CostTyped, CredTyped, SaveTyped, RunTyped

LEMMA Untouched ==
    ASSUME Typed, UNCHANGED session
    PROVE  /\ UNCHANGED formVars => FormTyped'
           /\ UNCHANGED <<cfg, stored>> => StoreTyped'
           /\ UNCHANGED configVars => ConfigTyped'
           /\ UNCHANGED costVars => CostTyped'
           /\ UNCHANGED credVars => CredTyped'
           /\ UNCHANGED saveVars => SaveTyped'
           /\ UNCHANGED run => RunTyped'
<1>1. UNCHANGED formVars => FormTyped'
    BY DEF Typed, FormTyped, formVars
<1>2. UNCHANGED <<cfg, stored>> => StoreTyped'
    BY DEF Typed, StoreTyped
<1>3. UNCHANGED configVars => ConfigTyped'
    BY DEF Typed, ConfigTyped, configVars
<1>4. UNCHANGED costVars => CostTyped'
    BY DEF Typed, CostTyped, costVars
<1>5. UNCHANGED credVars => CredTyped'
    BY DEF Typed, CredTyped, credVars
<1>6. UNCHANGED saveVars => SaveTyped'
    BY DEF Typed, SaveTyped, saveVars
<1>7. UNCHANGED run => RunTyped'
    BY DEF Typed, RunTyped
<1> QED
    BY <1>1, <1>2, <1>3, <1>4, <1>5, <1>6, <1>7

LEMMA KeysTyped ==
    ASSUME Typed, Keys, UNCHANGED session
    PROVE  Typed'
<1>1. ASSUME NEW kept \in BOOLEAN, Edit(kept) PROVE Typed'
    <2>1. FormTyped'
        BY <1>1, NextVersion DEF Edit, Typed, FormTyped
    <2>2. CostTyped'
        BY <1>1, MarkDirtyType DEF Edit, Typed, CostTyped
    <2> QED
        BY <1>1, <2>1, <2>2, Untouched DEF Edit, Typed
<1>2. CASE SwitchMode
    <2>1. FormTyped'
        BY <1>2, SessionType DEF SwitchMode, Typed, FormTyped
    <2>2. CostTyped'
        BY <1>2, NoRowsType DEF SwitchMode, Typed, CostTyped
    <2> QED
        BY <1>2, <2>1, <2>2, Untouched DEF SwitchMode, Typed
<1>3. CASE SaveCreds
    <2>1. FormTyped'
        BY <1>3, NextVersion DEF SaveCreds, Typed, FormTyped
    <2>2. CostTyped'
        BY <1>3, MarkDirtyType DEF SaveCreds, Typed, CostTyped
    <2>3. CredTyped'
        BY <1>3 DEF SaveCreds, Typed, CredTyped
    <2> QED
        BY <1>3, <2>1, <2>2, <2>3, Untouched DEF SaveCreds, Typed
<1>4. CASE ReloadList \/ OpenNewName
    <2>1. ConfigTyped'
        BY <1>4 DEF ReloadList, OpenNewName, Typed, ConfigTyped
    <2> QED
        BY <1>4, <2>1, Untouched DEF ReloadList, OpenNewName, Typed
<1>5. ASSUME NEW c \in Configs, PickEntry(c) PROVE Typed'
    <2>1. [name |-> c, compare |-> compare, explicit |-> explicit, copied |-> cfg.ver,
           ver |-> NotStored] \in Entry
        BY DEF Typed, StoreTyped, ConfigTyped, CredTyped, Entry
    <2>2. ConfigTyped'
        BY <1>5, <2>1, SessionType DEF PickEntry, Typed, ConfigTyped
    <2> QED
        BY <1>5, <2>2, Untouched DEF PickEntry, Typed
<1>6. ASSUME NEW c \in Configs, NEW blank \in BOOLEAN, NewName(c, blank) PROVE Typed'
    <2>1. StoreTyped'
        BY <1>6 DEF NewName, Typed, StoreTyped
    <2>2. ConfigTyped'
        BY <1>6 DEF NewName, Typed, ConfigTyped
    <2> QED
        BY <1>6, <2>1, <2>2, Untouched DEF NewName, Typed
<1>7. CASE PressSave
    <2>1. [n |-> presses + 1, name |-> cfg.name, ver |-> form, stage |-> "label"] \in Save
        BY DEF Typed, FormTyped, StoreTyped, SaveTyped, Save
    <2>2. SaveTyped'
        BY <1>7, <2>1, SessionType DEF PressSave, Typed, SaveTyped
    <2>3. StoreTyped'
        BY <1>7 DEF PressSave, flushToCfg, Typed, FormTyped, StoreTyped
    <2> QED
        BY <1>7, <2>2, <2>3, Untouched DEF PressSave, Typed
<1>8. CASE StartDeploy \/ Escape
    <2>1. StoreTyped' /\ RunTyped'
        BY <1>8 DEF StartDeploy, Escape, flushToCfg, Typed, FormTyped, StoreTyped, RunTyped
    <2> QED
        BY <1>8, <2>1, Untouched DEF StartDeploy, Escape, Typed
<1> QED
    BY <1>1, <1>2, <1>3, <1>4, <1>5, <1>6, <1>7, <1>8 DEF Keys

LEMMA RefreshingTyped ==
    ASSUME Typed, Refreshing, UNCHANGED session
    PROVE  Typed'
<1>1. CASE TimePasses
    <2>1. CostTyped'
        BY <1>1 DEF TimePasses, Typed, CostTyped
    <2> QED
        BY <1>1, <2>1, Untouched DEF TimePasses, Typed
<1>2. CASE Tick
    <2>1. form \in Version /\ compare \in BOOLEAN
        BY DEF Typed, FormTyped, CredTyped
    <2>2. streams' \subseteq Stream /\ kicks' \in Nat
        BY <1>2, <2>1, KickType DEF Tick
    <2>3. ticks' \in Nat
        BY <1>2 DEF Tick, Typed, CostTyped
    <2>4. rows' \in [Row -> Nat]
        BY <1>2, NoRowsType DEF Tick
    <2>5. CostTyped'
        BY <1>2, <2>2, <2>3, <2>4 DEF Tick, Typed, CostTyped
    <2> QED
        BY <1>2, <2>5, Untouched DEF Tick, Typed
<1>3. ASSUME NEW s \in streams, NEW p \in session.pairs, Send(s, p) PROVE Typed'
    <2>1. [s EXCEPT !.todo = @ \ {p}, !.sent = @ \cup {p}] \in Stream
        BY SessionType DEF Typed, CostTyped, Stream
    <2>2. CostTyped'
        BY <1>3, <2>1 DEF Send, Typed, CostTyped
    <2> QED
        BY <1>3, <2>2, Untouched DEF Send, Typed
<1>4. ASSUME NEW s \in streams, NEW p \in session.pairs, CostRow(s, p) PROVE Typed'
    <2>1. [s EXCEPT !.sent = @ \ {p}] \in Stream /\ [pair |-> p, ver |-> s.ver] \in Row
        BY SessionType DEF Typed, CostTyped, Stream, Row
    <2>2. rows' \in [Row -> Nat]
        BY <1>4, <2>1 DEF CostRow, Typed, CostTyped
    <2>3. streams' \subseteq Stream
        BY <1>4, <2>1 DEF CostRow, Typed, CostTyped
    <2>4. CostTyped'
        BY <1>4, <2>2, <2>3 DEF CostRow, Typed, CostTyped
    <2> QED
        BY <1>4, <2>4, Untouched DEF CostRow, Typed
<1>5. ASSUME NEW s \in streams, CostDone(s) PROVE Typed'
    <2>1. CostTyped'
        BY <1>5 DEF CostDone, Typed, CostTyped
    <2> QED
        BY <1>5, <2>1, Untouched DEF CostDone, Typed
<1> QED
    BY <1>1, <1>2, <1>3, <1>4, <1>5 DEF Refreshing

LEMMA AnswersTyped ==
    ASSUME Typed, Answers, UNCHANGED session
    PROVE  Typed'
<1>1. CASE WriteCostCompareSecret
    <2>1. CredTyped'
        BY <1>1 DEF WriteCostCompareSecret, Typed, CredTyped
    <2> QED
        BY <1>1, <2>1, Untouched DEF WriteCostCompareSecret, Typed
<1>2. ASSUME NEW ok \in BOOLEAN, ListArrives(ok) PROVE Typed'
    <2>1. ConfigTyped'
        BY <1>2 DEF ListArrives, Typed, ConfigTyped
    <2> QED
        BY <1>2, <2>1, Untouched DEF ListArrives, Typed
<1>3. ASSUME NEW e \in entryReq, ReadEntry(e) PROVE Typed'
    <2>1. ASSUME NEW v \in Version \cup {NotStored}, NEW on \in BOOLEAN
          PROVE  [e EXCEPT !.ver = v, !.compare = on] \in Entry
        BY DEF Typed, ConfigTyped, Entry
    <2>2. /\ stored[e.name] \in Version \cup {NotStored} /\ e.copied \in Version
          /\ e.compare \in BOOLEAN /\ (e.compare \/ credsStored) \in BOOLEAN
        BY DEF Typed, ConfigTyped, StoreTyped, CredTyped, Entry
    <2>3. \E d \in Entry : entryReq' = {d}
        BY <1>3, <2>1, <2>2 DEF ReadEntry
    <2>4. ConfigTyped'
        BY <1>3, <2>3 DEF ReadEntry, Typed, ConfigTyped
    <2> QED
        BY <1>3, <2>4, Untouched DEF ReadEntry, Typed
<1>4. ASSUME NEW e \in entryReq, EntryArrives(e) PROVE Typed'
    <2>1. e.name \in Configs /\ e.ver \in Version /\ e.compare \in BOOLEAN /\ e.explicit \in BOOLEAN
        BY <1>4 DEF EntryArrives, Typed, ConfigTyped, Entry
    <2>2. streams' \subseteq Stream /\ kicks' \in Nat
        BY <1>4, <2>1, KickType DEF EntryArrives
    <2>3. FormTyped' /\ StoreTyped'
        BY <1>4, <2>1 DEF EntryArrives, Typed, FormTyped, StoreTyped
    <2>4. ConfigTyped'
        BY <1>4, <2>1 DEF EntryArrives, Typed, ConfigTyped
    <2>5. CostTyped'
        BY <1>4, <2>2 DEF EntryArrives, Typed, CostTyped
    <2>6. CredTyped' /\ SaveTyped' /\ RunTyped'
        BY <1>4, <2>1 DEF EntryArrives, Typed, CredTyped, SaveTyped, RunTyped
    <2> QED
        BY <2>3, <2>4, <2>5, <2>6 DEF Typed
<1>5. ASSUME NEW s \in saves, NEW st \in {"write", "reply"}
      PROVE  [s EXCEPT !.stage = st] \in Save
    BY DEF Typed, SaveTyped, Save
<1>6. ASSUME NEW s \in saves, EnsureNamespace(s) PROVE Typed'
    <2>1. SaveTyped'
        BY <1>5, <1>6 DEF EnsureNamespace, Typed, SaveTyped
    <2> QED
        BY <1>6, <2>1, Untouched DEF EnsureNamespace, Typed
<1>7. ASSUME NEW s \in saves, WriteBootstrapConfigSecret(s) PROVE Typed'
    <2>1. StoreTyped'
        BY <1>7 DEF WriteBootstrapConfigSecret, Typed, StoreTyped
    <2>2. SaveTyped'
        BY <1>5, <1>7 DEF WriteBootstrapConfigSecret, Typed, SaveTyped
    <2> QED
        BY <1>7, <2>1, <2>2, Untouched DEF WriteBootstrapConfigSecret, Typed
<1>8. ASSUME NEW s \in saves, SaveReply(s) PROVE Typed'
    <2>1. SaveTyped'
        BY <1>8 DEF SaveReply, Typed, SaveTyped
    <2> QED
        BY <1>8, <2>1, Untouched DEF SaveReply, Typed
<1> QED
    BY <1>1, <1>2, <1>3, <1>4, <1>6, <1>7, <1>8 DEF Answers

LEMMA QuitTyped ==
    ASSUME Typed, Quit, UNCHANGED session
    PROVE  Typed'
<1>1. StoreTyped' /\ RunTyped'
    BY DEF Quit, flushToCfg, Typed, FormTyped, StoreTyped, RunTyped
<1> QED
    BY <1>1, Untouched DEF Quit, Typed

LEMMA NextTyped == Typed /\ [Next]_vars => Typed'
<1>1. Typed /\ UNCHANGED vars => Typed'
    BY Untouched DEF vars, formVars, configVars, costVars, credVars, saveVars, Typed
<1> QED
    BY <1>1, KeysTyped, RefreshingTyped, AnswersTyped, QuitTyped DEF Next

(* The dashboard's variables hold values of their kinds, whatever order    *)
(* messages and keys come in.                                              *)
THEOREM TypeCorrect == Spec => []TypeOK
<1>1. Spec => []Typed
    BY InitTyped, NextTyped, PTL DEF Spec
<1> QED
    BY <1>1, TypedGivesTypeOK, PTL

-----------------------------------------------------------------------------
(* Prices.                                                                 *)

\* A refresh that is due has a timer.
TimerDue == pending => ticks > 0

\* A refresh of what the form holds: each pair is still to be sent, on its
\* way, or in the table.
Underway(s) ==
    /\ s.ver = form
    /\ \A p \in session.pairs :
          p \in s.todo \cup s.sent \/ rows[[pair |-> p, ver |-> form]] > 0

\* What the form holds is priced, or a timer or a refresh will see to it.
Covered ==
    Running /\ compare /\ modes = 0 =>
        ticks > 0 \/ Priced(form) \/ \E s \in streams : Underway(s)

PriceInv == TimerDue /\ Covered /\ FetchingEnds

priceVars == <<session, form, modes, compare, rows, loading, pending, ticks, streams>>

PriceStep ==
    \/ \E kept \in BOOLEAN : Edit(kept)
    \/ SwitchMode \/ SaveCreds \/ Tick
    \/ \E s \in streams, p \in session.pairs : Send(s, p) \/ CostRow(s, p)
    \/ \E s \in streams : CostDone(s)
    \/ \E e \in entryReq : EntryArrives(e)

LEMMA OtherSteps ==
    ASSUME Next
    PROVE  PriceStep \/ (UNCHANGED priceVars /\ (Running' => Running))
<1> USE DEF priceVars, formVars, configVars, costVars, credVars, saveVars
<1>1. Keys => PriceStep \/ (UNCHANGED priceVars /\ Running)
    BY DEF Keys, PriceStep, ReloadList, OpenNewName, PickEntry, NewName, PressSave,
           StartDeploy, Escape, ListKeys, Open, Running, Next
<1>2. Refreshing => PriceStep \/ (UNCHANGED priceVars /\ Running)
    BY DEF Refreshing, PriceStep, TimePasses, Next
<1>3. Answers => PriceStep \/ (UNCHANGED priceVars /\ Running)
    BY DEF Answers, PriceStep, WriteCostCompareSecret, ListArrives, ReadEntry,
           EnsureNamespace, WriteBootstrapConfigSecret, SaveReply, Next
<1>4. Quit => UNCHANGED priceVars /\ Running
    BY DEF Quit, Running, Next
<1> QED
    BY <1>1, <1>2, <1>3, <1>4 DEF Next

LEMMA InitPriceInv == Init => PriceInv
<1> SUFFICES ASSUME Init PROVE PriceInv
    OBVIOUS
<1>1. compare => streams = {OpenStream(1, 0)}
    BY DEF Init
<1>2. Underway(OpenStream(1, 0))
    BY DEF Init, Underway, OpenStream
<1> QED
    BY <1>1, <1>2 DEF Init, PriceInv, TimerDue, Covered, FetchingEnds, Quiet

\* markDirty starts a timer, or one is under way.
LEMMA DirtyIsTimed ==
    ASSUME Typed, TimerDue, NEW kept \in BOOLEAN, MarkDirty(kept)
    PROVE  ticks' > 0
BY DEF Typed, CostTyped, TimerDue, MarkDirty

\* A refresh that starts with what the form then holds covers it.
LEMMA KickCovers ==
    ASSUME NEW v, NEW on \in BOOLEAN, Kick(v, on), form' = v, UNCHANGED session, on
    PROVE  \E s \in streams' : Underway(s)'
<1>1. OpenStream(kicks + 1, v) \in streams'
    BY DEF Kick
<1>2. ASSUME NEW s, s = OpenStream(kicks + 1, v) PROVE Underway(s)'
    BY <1>2 DEF Underway, OpenStream
<1> QED
    BY <1>1, <1>2

\* A refresh stays under way when its own row goes into the channel.
LEMMA SendCovers ==
    ASSUME Typed, NEW s \in streams, NEW p \in session.pairs, Send(s, p), UNCHANGED session,
           \E t \in streams : Underway(t)
    PROVE  \E t \in streams' : Underway(t)'
<1> DEFINE sent == [s EXCEPT !.todo = @ \ {p}, !.sent = @ \cup {p}]
<1> PICK t \in streams : Underway(t)
    OBVIOUS
<1>1. UNCHANGED <<form, rows>> /\ streams' = (streams \ {s}) \cup {sent}
    BY DEF Send, formVars
<1>2. t # s => t \in streams' /\ Underway(t)'
    BY <1>1 DEF Underway
<1>3. ASSUME t = s PROVE Underway(sent)'
    <2>1. s \in Stream /\ sent.ver = s.ver /\ sent.todo = s.todo \ {p} /\ sent.sent = s.sent \cup {p}
        BY DEF Typed, CostTyped, Stream
    <2> QED
        BY <1>1, <1>3, <2>1 DEF Underway
<1> QED
    BY <1>1, <1>2, <1>3

\* ... and when it is taken from there into the table.
LEMMA RowCovers ==
    ASSUME Typed, NEW s \in streams, NEW p \in session.pairs, CostRow(s, p), UNCHANGED session
    PROVE  /\ Priced(form) => Priced(form)'
           /\ (\E t \in streams : Underway(t)) => \E t \in streams' : Underway(t)'
<1> DEFINE taken == [s EXCEPT !.sent = @ \ {p}]
<1> DEFINE row == [pair |-> p, ver |-> s.ver]
<1>1. /\ form' = form /\ streams' = (streams \ {s}) \cup {taken}
      /\ rows' = [rows EXCEPT ![row] = @ + 1]
    BY DEF CostRow, formVars
<1>2. s \in Stream /\ row \in Row /\ form \in Version /\ session.pairs \subseteq Pairs
    BY SessionType DEF Typed, CostTyped, FormTyped, Stream, Row
<1>3. /\ \A r \in Row : rows[r] \in Nat /\ rows'[r] \in Nat /\ rows'[r] >= rows[r]
      /\ rows'[row] > 0
    BY <1>1, <1>2 DEF Typed, CostTyped
<1>4. ASSUME NEW q \in session.pairs, rows[[pair |-> q, ver |-> form]] > 0
      PROVE  rows'[[pair |-> q, ver |-> form]] > 0
    <2>1. [pair |-> q, ver |-> form] \in Row
        BY <1>2 DEF Row
    <2> QED
        BY <1>3, <1>4, <2>1
<1>5. Priced(form) => Priced(form)'
    BY <1>1, <1>4 DEF Priced
<1>6. ASSUME NEW t \in streams, Underway(t) PROVE \E u \in streams' : Underway(u)'
    <2>1. t # s => t \in streams' /\ Underway(t)'
        BY <1>1, <1>4, <1>6 DEF Underway
    <2>2. ASSUME t = s PROVE Underway(taken)'
        <3>1. taken.ver = s.ver /\ taken.todo = s.todo /\ taken.sent = s.sent \ {p}
            BY <1>2 DEF Stream
        <3>2. s.ver = form /\ rows'[[pair |-> p, ver |-> form]] > 0
            BY <1>3, <1>6, <2>2 DEF Underway
        <3> QED
            BY <1>1, <1>4, <1>6, <2>2, <3>1, <3>2 DEF Underway
    <2> QED
        BY <1>1, <2>1, <2>2
<1> QED
    BY <1>5, <1>6

LEMMA PriceStepTimer ==
    ASSUME Typed, TimerDue, PriceStep
    PROVE  TimerDue'
<1>1. ASSUME NEW kept \in BOOLEAN, Edit(kept) PROVE TimerDue'
    BY <1>1, DirtyIsTimed DEF Edit, TimerDue
<1>2. CASE SaveCreds
    BY <1>2, DirtyIsTimed DEF SaveCreds, TimerDue
<1>3. CASE SwitchMode \/ Tick
    BY <1>3 DEF SwitchMode, Tick, TimerDue
<1>4. ASSUME NEW s \in streams, NEW p \in session.pairs, Send(s, p) \/ CostRow(s, p) PROVE TimerDue'
    BY <1>4 DEF Send, CostRow, TimerDue
<1>5. ASSUME NEW s \in streams, CostDone(s) PROVE TimerDue'
    BY <1>5 DEF CostDone, TimerDue
<1>6. ASSUME NEW e \in entryReq, EntryArrives(e) PROVE TimerDue'
    BY <1>6 DEF EntryArrives, TimerDue
<1> QED
    BY <1>1, <1>2, <1>3, <1>4, <1>5, <1>6 DEF PriceStep

LEMMA PriceStepCovers ==
    ASSUME Typed, TimerDue, Covered, PriceStep, UNCHANGED session
    PROVE  Covered'
<1>1. ASSUME NEW kept \in BOOLEAN, Edit(kept) PROVE Covered'
    BY <1>1, DirtyIsTimed DEF Edit, Covered
<1>2. CASE SaveCreds
    BY <1>2, DirtyIsTimed DEF SaveCreds, Covered
<1>3. CASE SwitchMode
    <2>1. modes' > 0
        BY <1>3 DEF SwitchMode, Typed, FormTyped
    <2> QED
        BY <2>1 DEF Covered
<1>4. CASE Tick
    <2>1. compare' => \E s \in streams' : Underway(s)'
        BY <1>4, KickCovers DEF Tick, formVars, credVars, Typed, CredTyped
    <2> QED
        BY <2>1 DEF Covered
<1>5. ASSUME NEW s \in streams, NEW p \in session.pairs, Send(s, p) PROVE Covered'
    <2>1. UNCHANGED <<form, modes, compare, run, rows, ticks>>
        BY <1>5 DEF Send, formVars, credVars
    <2>2. Priced(form) => Priced(form)'
        BY <2>1 DEF Priced
    <2>3. (\E t \in streams : Underway(t)) => \E t \in streams' : Underway(t)'
        BY <1>5, SendCovers
    <2> QED
        BY <2>1, <2>2, <2>3 DEF Covered, Running
<1>6. ASSUME NEW s \in streams, NEW p \in session.pairs, CostRow(s, p) PROVE Covered'
    <2>1. UNCHANGED <<form, modes, compare, run, ticks>>
        BY <1>6 DEF CostRow, formVars, credVars
    <2> QED
        BY <1>6, <2>1, RowCovers DEF Covered, Running
<1>7. ASSUME NEW s \in streams, CostDone(s) PROVE Covered'
    <2>1. UNCHANGED <<form, modes, compare, run, rows, ticks>> /\ streams' = streams \ {s}
        BY <1>7 DEF CostDone, formVars, credVars
    <2>2. Underway(s) => Priced(form)
        BY <1>7 DEF CostDone, Underway, Priced
    <2>3. Priced(form) => Priced(form)'
        BY <2>1 DEF Priced
    <2>4. ASSUME NEW t \in streams, t # s, Underway(t) PROVE t \in streams' /\ Underway(t)'
        BY <2>1, <2>4 DEF Underway
    <2> QED
        BY <2>1, <2>2, <2>3, <2>4 DEF Covered, Running
<1>8. ASSUME NEW e \in entryReq, EntryArrives(e) PROVE Covered'
    <2>1. e.compare \in BOOLEAN
        BY DEF Typed, ConfigTyped, Entry
    <2>2. compare' => \E s \in streams' : Underway(s)'
        BY <1>8, <2>1, KickCovers DEF EntryArrives
    <2> QED
        BY <2>2 DEF Covered
<1> QED
    BY <1>1, <1>2, <1>3, <1>4, <1>5, <1>6, <1>7, <1>8 DEF PriceStep

LEMMA PriceStepFetching ==
    ASSUME Typed, TimerDue, FetchingEnds, PriceStep
    PROVE  FetchingEnds'
<1> USE DEF Quiet
<1>1. ASSUME NEW kept \in BOOLEAN, Edit(kept) PROVE FetchingEnds'
    BY <1>1, DirtyIsTimed DEF Edit, FetchingEnds
<1>2. CASE SaveCreds
    <2>1. ticks' > 0
        BY <1>2, DirtyIsTimed DEF SaveCreds
    <2> QED
        BY <2>1 DEF FetchingEnds
<1>3. CASE SwitchMode
    BY <1>3 DEF SwitchMode, FetchingEnds, credVars, Running
<1>4. CASE Tick
    BY <1>4 DEF Tick, Kick, FetchingEnds, credVars
<1>5. ASSUME NEW s \in streams, NEW p \in session.pairs, Send(s, p) \/ CostRow(s, p)
      PROVE  FetchingEnds'
    BY <1>5 DEF Send, CostRow, FetchingEnds
<1>6. ASSUME NEW s \in streams, CostDone(s) PROVE FetchingEnds'
    BY <1>6 DEF CostDone, FetchingEnds
<1>7. ASSUME NEW e \in entryReq, EntryArrives(e) PROVE FetchingEnds'
    BY <1>7 DEF EntryArrives, Kick, FetchingEnds
<1> QED
    BY <1>1, <1>2, <1>3, <1>4, <1>5, <1>6, <1>7 DEF PriceStep

LEMMA NextPriceInv == Typed /\ PriceInv /\ [Next]_vars => PriceInv'
<1> SUFFICES ASSUME Typed, PriceInv, [Next]_vars PROVE PriceInv'
    OBVIOUS
<1>1. ASSUME UNCHANGED priceVars, Running' => Running PROVE PriceInv'
    <2>1. TimerDue' /\ FetchingEnds'
        BY <1>1 DEF PriceInv, TimerDue, FetchingEnds, Quiet, priceVars
    <2>2. Priced(form) => Priced(form)'
        BY <1>1 DEF Priced, priceVars
    <2>3. ASSUME NEW t \in streams, Underway(t) PROVE t \in streams' /\ Underway(t)'
        BY <1>1, <2>3 DEF Underway, priceVars
    <2> QED
        BY <1>1, <2>1, <2>2, <2>3 DEF PriceInv, Covered, priceVars
<1>2. CASE Next /\ PriceStep
    BY <1>2, PriceStepTimer, PriceStepCovers, PriceStepFetching DEF PriceInv, Next
<1>3. CASE UNCHANGED vars
    <2>1. UNCHANGED priceVars /\ UNCHANGED run
        BY <1>3 DEF vars, priceVars, formVars, costVars, credVars
    <2> QED
        BY <1>1, <2>1 DEF Running
<1> QED
    BY <1>1, <1>2, <1>3, OtherSteps

LEMMA PricesKept == Spec => [](Typed /\ PriceInv)
BY InitTyped, NextTyped, InitPriceInv, NextPriceInv, PTL DEF Spec

(* Once no timer and no refresh is in flight the table is priced for what  *)
(* the form holds.                                                         *)
THEOREM NoChangeUnpriced == Spec => []AtRestPriced
<1>1. PriceInv => AtRestPriced
    BY DEF PriceInv, Covered, AtRestPriced, Quiet
<1> QED
    BY <1>1, PricesKept, PTL

(* While "fetching" is shown something is under way that will end it.      *)
THEOREM FetchingIsTrue == Spec => []FetchingEnds
<1>1. PriceInv => FetchingEnds
    BY DEF PriceInv
<1> QED
    BY <1>1, PricesKept, PTL

-----------------------------------------------------------------------------
(* Saves.                                                                  *)

\* An entry that is being loaded was counted.
LoadCounted == entryReq # {} => loads > 0

\* Until an entry is loaded, the save under way is the one that is shown.
SaveShown == loads = 0 => (saves # {} => saving) /\ \A s, t \in saves : s = t

SaveInv == LoadCounted /\ SaveShown

LEMMA LoadCountedStep ==
    ASSUME Typed, LoadCounted, Next
    PROVE  LoadCounted' /\ (entryReq # {} => loads > 0) /\ loads' >= loads
<1> USE DEF formVars, configVars, costVars, credVars, saveVars
<1>1. ASSUME UNCHANGED <<entryReq, loads>>
      PROVE  LoadCounted' /\ loads' >= loads
    BY <1>1 DEF LoadCounted, Typed, ConfigTyped
<1>2. ASSUME NEW c \in Configs, PickEntry(c) PROVE LoadCounted' /\ loads' >= loads
    BY <1>2 DEF PickEntry, LoadCounted, Typed, ConfigTyped
<1>3. ASSUME NEW e \in entryReq, ReadEntry(e) \/ EntryArrives(e) PROVE LoadCounted' /\ loads' >= loads
    BY <1>3 DEF ReadEntry, EntryArrives, LoadCounted, Typed, ConfigTyped
<1>4. Keys => UNCHANGED <<entryReq, loads>> \/ \E c \in Configs : PickEntry(c)
    BY DEF Keys, Edit, SwitchMode, SaveCreds, ReloadList, OpenNewName, NewName, PressSave,
           StartDeploy, Escape
<1>5. Refreshing => UNCHANGED <<entryReq, loads>>
    BY DEF Refreshing, TimePasses, Tick, Send, CostRow, CostDone
<1>6. Answers => UNCHANGED <<entryReq, loads>> \/ \E e \in entryReq : ReadEntry(e) \/ EntryArrives(e)
    BY DEF Answers, WriteCostCompareSecret, ListArrives, EnsureNamespace,
           WriteBootstrapConfigSecret, SaveReply
<1>7. Quit => UNCHANGED <<entryReq, loads>>
    BY DEF Quit
<1> QED
    BY <1>1, <1>2, <1>3, <1>4, <1>5, <1>6, <1>7 DEF Next, LoadCounted

LEMMA SaveShownStep ==
    ASSUME Typed, SaveInv, Next
    PROVE  SaveShown'
<1> USE DEF formVars, configVars, costVars, credVars, saveVars
<1>1. SUFFICES ASSUME loads' = 0
               PROVE  (saves' # {} => saving') /\ \A s, t \in saves' : s = t
    BY DEF SaveShown
<1>2. /\ loads = 0 /\ entryReq = {}
      /\ (saves # {} => saving) /\ \A s, t \in saves : s = t
    BY <1>1, LoadCountedStep DEF SaveInv, SaveShown, Typed, ConfigTyped
<1>3. CASE UNCHANGED <<saving, saves>>
    BY <1>2, <1>3
<1>4. CASE PressSave
    BY <1>2, <1>4 DEF PressSave
<1>5. ASSUME NEW s \in saves, EnsureNamespace(s) PROVE (saves' # {} => saving') /\ \A u, t \in saves' : u = t
    BY <1>2, <1>5 DEF EnsureNamespace
<1>6. ASSUME NEW s \in saves, WriteBootstrapConfigSecret(s)
      PROVE  (saves' # {} => saving') /\ \A u, t \in saves' : u = t
    BY <1>2, <1>6 DEF WriteBootstrapConfigSecret
<1>7. ASSUME NEW s \in saves, SaveReply(s) PROVE (saves' # {} => saving') /\ \A u, t \in saves' : u = t
    BY <1>2, <1>7 DEF SaveReply
<1>8. Keys => UNCHANGED <<saving, saves>> \/ PressSave
    BY DEF Keys, Edit, SwitchMode, SaveCreds, ReloadList, OpenNewName, PickEntry, NewName,
           StartDeploy, Escape
<1>9. Refreshing => UNCHANGED <<saving, saves>>
    BY DEF Refreshing, TimePasses, Tick, Send, CostRow, CostDone
<1>10. Answers => \/ UNCHANGED <<saving, saves>>
                  \/ \E s \in saves : \/ EnsureNamespace(s) \/ WriteBootstrapConfigSecret(s)
                                      \/ SaveReply(s)
    BY <1>2 DEF Answers, WriteCostCompareSecret, ListArrives
<1>11. Quit => UNCHANGED <<saving, saves>>
    BY DEF Quit
<1> QED
    BY <1>3, <1>4, <1>5, <1>6, <1>7, <1>8, <1>9, <1>10, <1>11 DEF Next

(* Until an entry is loaded no two saves run at a time, and the one that   *)
(* runs is shown.                                                          *)
THEOREM SavesExclude == Spec => []OneSaveAtATime
<1>1. Init => SaveInv
    BY DEF Init, SaveInv, LoadCounted, SaveShown
<1>2. Typed /\ SaveInv /\ [Next]_vars => SaveInv'
    <2>1. SaveInv /\ UNCHANGED vars => SaveInv'
        BY DEF SaveInv, LoadCounted, SaveShown, vars, configVars, saveVars
    <2> QED
        BY <2>1, LoadCountedStep, SaveShownStep DEF SaveInv
<1>3. SaveInv => OneSaveAtATime
    BY AtMostOne DEF SaveInv, SaveShown, OneSaveAtATime
<1> QED
    BY <1>1, <1>2, <1>3, InitTyped, NextTyped, PTL DEF Spec

-----------------------------------------------------------------------------
(* Deploying.                                                              *)

\* From the key to the end, what is deployed is what the form holds.
DeployFlushed == run \in {"deploy", "deployed"} => cfg.ver = form

LEMMA DeployStep ==
    ASSUME Typed, DeployFlushed, Next
    PROVE  DeployFlushed'
<1> USE DEF formVars, configVars, costVars, credVars, saveVars
<1>1. CASE Keys
    <2>1. StartDeploy => DeployFlushed'
        BY DEF StartDeploy, flushToCfg, DeployFlushed, Typed, StoreTyped
    <2>2. ~StartDeploy => run' \in {"open", "quit"}
        BY <1>1 DEF Keys, Edit, SwitchMode, SaveCreds, ReloadList, OpenNewName, PickEntry, NewName,
               PressSave, Escape, ListKeys, Open
    <2> QED
        BY <2>1, <2>2 DEF DeployFlushed
<1>2. CASE Refreshing
    BY <1>2 DEF Refreshing, TimePasses, Tick, Send, CostRow, CostDone, DeployFlushed
<1>3. CASE Answers
    <2>1. ASSUME NEW e \in entryReq, EntryArrives(e) PROVE DeployFlushed'
        BY <2>1 DEF EntryArrives, DeployFlushed, Running
    <2>2. ASSUME NEW e \in entryReq, ReadEntry(e) PROVE DeployFlushed'
        BY <2>2 DEF ReadEntry, DeployFlushed
    <2>3. ASSUME NEW s \in saves, EnsureNamespace(s) \/ WriteBootstrapConfigSecret(s) \/ SaveReply(s)
          PROVE  DeployFlushed'
        BY <2>3 DEF EnsureNamespace, WriteBootstrapConfigSecret, SaveReply, DeployFlushed
    <2>4. WriteCostCompareSecret \/ (\E ok \in BOOLEAN : ListArrives(ok)) => DeployFlushed'
        BY DEF WriteCostCompareSecret, ListArrives, DeployFlushed
    <2> QED
        BY <1>3, <2>1, <2>2, <2>3, <2>4 DEF Answers
<1>4. CASE Quit
    BY <1>4 DEF Quit, flushToCfg, DeployFlushed, Typed, StoreTyped
<1> QED
    BY <1>1, <1>2, <1>3, <1>4 DEF Next

(* What is deployed is what the form showed, also when an entry or a save  *)
(* answers after the key.                                                  *)
THEOREM DeployedAsShown == Spec => []DeployUsesForm
<1>1. Init => DeployFlushed
    BY DEF Init, DeployFlushed
<1>2. Typed /\ DeployFlushed /\ [Next]_vars => DeployFlushed'
    <2>1. DeployFlushed /\ UNCHANGED vars => DeployFlushed'
        BY DEF DeployFlushed, vars, formVars
    <2> QED
        BY <2>1, DeployStep
<1>3. DeployFlushed => DeployUsesForm
    BY DEF DeployFlushed, DeployUsesForm
<1> QED
    BY <1>1, <1>2, <1>3, InitTyped, NextTyped, PTL DEF Spec
=============================================================================
