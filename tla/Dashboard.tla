----------------------------- MODULE Dashboard -----------------------------
(***************************************************************************)
(* The xapiri dashboard (internal/ui/xapiri): a bubbletea program whose    *)
(* Update handles one message at a time, while the commands it returns run *)
(* in goroutines and answer with messages of their own.  A handler is one  *)
(* action; what a command does between its dispatch and its message is a   *)
(* step of its own, and messages of different commands arrive in any       *)
(* order.                                                                  *)
(*                                                                         *)
(* Contents of a configuration are abstracted to a version: every edit of  *)
(* a cost field, and every save of pricing credentials, makes a new one.   *)
(***************************************************************************)
EXTENDS Naturals, FiniteSets

CONSTANTS
    Pairs,       \* (provider, region) pairs
    Configs,     \* names of configurations, stored on kind or new
    InitStored,  \* the version each of them has on kind, NotStored for none
    NotStored,
    ChanCap,     \* capacity of the channel of a refresh
    MaxVer,      \* bound: versions
    Sessions     \* what the sessions looked at may start with and do

(* A session: the pairs of its provider, CostCompareEnabled and            *)
(* ConfigNameExplicit at its start, and bounds on the versions made, the   *)
(* stored configurations picked, the switches of mode and the saves.       *)
Session == [pairs : SUBSET Pairs, compare : BOOLEAN, explicit : BOOLEAN,
            vers : 0 .. MaxVer, loads : Nat, modes : Nat, saves : Nat]

ASSUME BoundsAssumption ==
    /\ {ChanCap, MaxVer} \subseteq Nat
    /\ ChanCap > 0
    /\ InitStored \in [Configs -> (0 .. MaxVer) \cup {NotStored}]
    /\ NotStored \notin 0 .. MaxVer
    /\ Sessions \subseteq Session
    /\ IsFiniteSet(Configs)
    /\ Cardinality({c \in Configs : InitStored[c] # NotStored}) <= MaxVer

VARIABLES
    session,   \* which of Sessions this is
    form,      \* the version the input fields hold
    last,      \* the newest version made so far
    onPrem,    \* the mode select
    cfg,       \* m.cfg, which every command shares: name and contents
    stored,    \* the bootstrap-config Secrets on kind
    explicit,  \* m.cfg.ConfigNameExplicit
    selected,  \* m.cfgSelected
    screen,    \* m.cfgScreen
    listLoading, listed,   \* m.cfgLoading, m.cfgCandidates
    listing,   \* a list request is in flight
    entryReq,  \* the entry being loaded, at most one
    loads, modes, presses, \* counters of the bounds
    compare,   \* m.cfg.CostCompareEnabled
    credsReq, credsStored, \* the pricing credentials: being written, on kind
    rows,      \* m.costRows, as the number of copies of each row
    loading,   \* m.costLoading
    recent,    \* less than 380 ms since m.lastDirty
    pending,   \* m.refreshPending
    ticks,     \* debounce timers in flight
    streams,   \* refreshes whose channel is still being read
    kicks,     \* how many refreshes were started
    saving,    \* m.saveKindLoading
    saves,     \* saves in flight
    run        \* the program

configVars == <<explicit, selected, screen, listLoading, listed, listing, entryReq, loads>>
costVars == <<rows, loading, recent, pending, ticks, streams, kicks>>
credVars == <<compare, credsReq, credsStored>>
saveVars == <<saving, saves, presses>>
formVars == <<form, last, onPrem, modes>>
vars == <<session, formVars, cfg, stored, configVars, costVars, credVars, saveVars, run>>

Version == 0 .. MaxVer
Row == [pair : Pairs, ver : Version]
Stream == [n : Nat, ver : Version, todo : SUBSET Pairs, sent : SUBSET Pairs]
Entry == [name : Configs, compare : BOOLEAN, explicit : BOOLEAN, copied : Version,
          ver : Version \cup {NotStored}]
Save == [n : Nat, name : Configs, ver : Version, stage : {"label", "write", "reply"}]

NoRows == [r \in Row |-> 0]
OpenStream(n, v) == [n |-> n, ver |-> v, todo |-> session.pairs, sent |-> {}]

(* Keys reach the program while nothing asked it to quit; messages of      *)
(* commands still arrive until the queued Quit is handled.                 *)
Open == run = "open"
Running == run \in {"open", "quit", "deploy"}

(* kickRefreshCmd: a refresh of the form as it is now, none when the cost  *)
(* comparison is off.                                                      *)
Kick(v, on) ==
    /\ streams' = streams \cup (IF on THEN {OpenStream(kicks + 1, v)} ELSE {})
    /\ kicks' = IF on THEN kicks + 1 ELSE kicks

(* markDirty.  "return m, m.markDirty()" reads m and calls a method that   *)
(* changes m in one return statement, and Go leaves their order open: the  *)
(* returned model may miss the changes, the timer is started either way.   *)
MarkDirty(kept) ==
    /\ recent' = (kept \/ recent)
    /\ pending' = (kept \/ pending)
    /\ ticks' = IF pending THEN ticks ELSE ticks + 1

Init ==
    /\ session \in Sessions
    /\ form = 0 /\ onPrem \in BOOLEAN /\ modes = 0
    /\ last = Cardinality({c \in Configs : InitStored[c] # NotStored})
    /\ cfg \in [name : {c \in Configs : InitStored[c] = NotStored}, ver : {0}]
    /\ stored = InitStored
    /\ explicit = session.explicit /\ selected = explicit /\ screen = "list"
    /\ listLoading = ~explicit /\ listing = listLoading /\ listed = {}
    /\ entryReq = {} /\ loads = 0
    /\ compare = session.compare /\ credsReq = FALSE /\ credsStored = FALSE
    /\ rows = NoRows /\ loading = compare
    /\ recent = FALSE /\ pending = FALSE /\ ticks = 0
    /\ streams = (IF compare THEN {OpenStream(1, 0)} ELSE {})
    /\ kicks = (IF compare THEN 1 ELSE 0)
    /\ saving = FALSE /\ saves = {} /\ presses = 0
    /\ run = "open"

-----------------------------------------------------------------------------
(* Keys on the provision and costs tabs.                                   *)

(* The form takes no keys while something is loading.                      *)
Edit(kept) ==
    /\ Open /\ selected /\ ~listLoading /\ last < session.vers
    /\ last' = last + 1 /\ form' = last + 1
    /\ MarkDirty(kept)
    /\ UNCHANGED <<onPrem, modes, cfg, stored, configVars, rows, loading, streams,
                   kicks, credVars, saveVars, run>>

(* The mode select is not a cost field: the rows of the old mode go, and   *)
(* nothing asks for new ones.                                              *)
SwitchMode ==
    /\ Open /\ selected /\ ~listLoading /\ modes < session.modes
    /\ modes' = modes + 1 /\ onPrem' = ~onPrem
    /\ rows' = NoRows
    /\ UNCHANGED <<form, last, cfg, stored, configVars, loading, recent, pending, ticks,
                   streams, kicks, credVars, saveVars, run>>

SaveCreds ==
    /\ Open /\ selected /\ last < session.vers
    /\ last' = last + 1 /\ form' = last + 1
    /\ compare' = TRUE /\ credsReq' = TRUE
    /\ MarkDirty(TRUE)
    /\ UNCHANGED <<onPrem, modes, cfg, stored, configVars, rows, loading, streams,
                   kicks, credsStored, saveVars, run>>

WriteCostCompareSecret ==
    /\ Running /\ credsReq
    /\ credsReq' = FALSE
    /\ credsStored' \in {TRUE, credsStored}
    /\ UNCHANGED <<formVars, cfg, stored, configVars, costVars, compare, saveVars, run>>

-----------------------------------------------------------------------------
(* The cost refresh.                                                       *)

TimePasses ==
    /\ Running /\ recent
    /\ recent' = FALSE
    /\ UNCHANGED <<formVars, cfg, stored, configVars, rows, loading, pending, ticks,
                   streams, kicks, credVars, saveVars, run>>

\* mutant: the flag that a refresh is due is never reset
TickKeepsPending ==
    /\ Running /\ ticks > 0 /\ ~recent
    /\ ticks' = ticks - 1
    /\ loading' = TRUE
    /\ rows' = NoRows
    /\ Kick(form, compare)
    /\ UNCHANGED <<formVars, cfg, stored, configVars, recent, pending, credVars, saveVars,
                   run>>

(* A timer that fires too soon after the last change is only set again.    *)
Tick ==
    /\ Running /\ ticks > 0 /\ ~recent
    /\ ticks' = ticks - 1
    /\ pending' = FALSE
    /\ loading' = TRUE
    /\ rows' = NoRows
    /\ Kick(form, compare)
    /\ UNCHANGED <<formVars, cfg, stored, configVars, recent, credVars, saveVars, run>>

\* mutant: the handler does not read the channel again before it is full
SendBlocked(s, p) ==
    /\ Running /\ p \in s.todo /\ Cardinality(s.sent) < ChanCap - 1
    /\ streams' = (streams \ {s}) \cup {[s EXCEPT !.todo = @ \ {p}, !.sent = @ \cup {p}]}
    /\ UNCHANGED <<formVars, cfg, stored, configVars, rows, loading, recent, pending,
                   ticks, kicks, credVars, saveVars, run>>

(* A worker of StreamWithRegions has its estimate, or its error, and room  *)
(* in the channel.                                                         *)
Send(s, p) ==
    /\ Running /\ p \in s.todo /\ Cardinality(s.sent) < ChanCap
    /\ streams' = (streams \ {s}) \cup {[s EXCEPT !.todo = @ \ {p}, !.sent = @ \cup {p}]}
    /\ UNCHANGED <<formVars, cfg, stored, configVars, rows, loading, recent, pending,
                   ticks, kicks, credVars, saveVars, run>>

CostRow(s, p) ==
    /\ Running /\ p \in s.sent
    /\ streams' = (streams \ {s}) \cup {[s EXCEPT !.sent = @ \ {p}]}
    /\ rows' = [rows EXCEPT ![[pair |-> p, ver |-> s.ver]] = @ + 1]
    /\ UNCHANGED <<formVars, cfg, stored, configVars, loading, recent, pending, ticks,
                   kicks, credVars, saveVars, run>>

\* mutant: the end of a refresh leaves the flag alone
CostDoneKeepsFetching(s) ==
    /\ Running /\ s.todo = {} /\ s.sent = {}
    /\ streams' = streams \ {s}
    /\ UNCHANGED <<formVars, cfg, stored, configVars, rows, loading, recent, pending, ticks,
                   kicks, credVars, saveVars, run>>

(* All workers returned, so the watcher closed the channel.                *)
CostDone(s) ==
    /\ Running /\ s.todo = {} /\ s.sent = {}
    /\ streams' = streams \ {s}
    /\ loading' = FALSE
    /\ UNCHANGED <<formVars, cfg, stored, configVars, rows, recent, pending, ticks,
                   kicks, credVars, saveVars, run>>

-----------------------------------------------------------------------------
(* The config tab.                                                         *)

ListKeys == Open /\ screen = "list" /\ ~listLoading

ReloadList ==
    /\ ListKeys
    /\ listLoading' = TRUE /\ listing' = TRUE /\ listed' = {}
    /\ UNCHANGED <<formVars, cfg, stored, explicit, selected, screen, entryReq, loads,
                   costVars, credVars, saveVars, run>>

(* cfgListMsg, with the stored configurations or an error.                 *)
ListArrives(ok) ==
    /\ Running /\ listing
    /\ listing' = FALSE /\ listLoading' = FALSE
    /\ listed' = IF ok THEN {c \in Configs : stored[c] # NotStored} ELSE listed
    /\ UNCHANGED <<formVars, cfg, stored, explicit, selected, screen, entryReq, loads,
                   costVars, credVars, saveVars, run>>

(* loadCfgEntryCmd copies m.cfg when the key is handled ...                *)
PickEntry(c) ==
    /\ ListKeys /\ c \in listed /\ loads < session.loads
    /\ listLoading' = TRUE /\ loads' = loads + 1
    /\ entryReq' = {[name |-> c, compare |-> compare, explicit |-> explicit,
                     copied |-> cfg.ver, ver |-> NotStored]}
    /\ UNCHANGED <<formVars, cfg, stored, explicit, selected, screen, listed, listing,
                   costVars, credVars, saveVars, run>>

(* ... merges the Secrets of kind into the copy in its goroutine, and says *)
(* nothing when kind does not answer ...                                   *)
ReadEntry(e) ==
    /\ Running /\ e \in entryReq /\ e.ver = NotStored
    /\ \E v \in {stored[e.name], e.copied}, on \in {e.compare \/ credsStored, e.compare} :
          entryReq' = {[e EXCEPT !.ver = v, !.compare = on]}
    /\ UNCHANGED <<formVars, cfg, stored, explicit, selected, screen, listLoading, listed,
                   listing, loads, costVars, credVars, saveVars, run>>

\* mutant: the message is sent before the Secrets are merged
EntryArrivesUnread(e) ==
    /\ Running /\ e \in entryReq
    /\ entryReq' = {}
    /\ cfg' = [name |-> e.name, ver |-> e.ver] /\ form' = e.ver /\ onPrem' \in BOOLEAN
    /\ compare' = e.compare /\ explicit' = e.explicit
    /\ selected' = TRUE /\ screen' = "list"
    /\ listLoading' = ~e.explicit /\ listed' = {}
    /\ recent' = FALSE /\ pending' = FALSE
    /\ saving' = FALSE
    /\ run' = IF run = "deploy" THEN "quit" ELSE run
    /\ Kick(e.ver, e.compare)
    /\ UNCHANGED <<last, modes, stored, listing, loads, rows, loading, ticks, credsReq,
                   credsStored, saves, presses>>

(* ... and the handler of its message overwrites m.cfg with the copy and   *)
(* starts from a new model, of which preserveTransientState restores only  *)
(* the display fields; the mode follows from what was loaded.              *)
EntryArrives(e) ==
    /\ Running /\ e \in entryReq /\ e.ver # NotStored
    /\ entryReq' = {}
    /\ cfg' = [name |-> e.name, ver |-> e.ver] /\ form' = e.ver /\ onPrem' \in BOOLEAN
    /\ compare' = e.compare /\ explicit' = e.explicit
    /\ selected' = TRUE /\ screen' = "list"
    /\ listLoading' = ~e.explicit /\ listed' = {}
    /\ recent' = FALSE /\ pending' = FALSE
    /\ saving' = FALSE
    /\ run' = IF run = "deploy" THEN "quit" ELSE run
    /\ Kick(e.ver, e.compare)
    /\ UNCHANGED <<last, modes, stored, listing, loads, rows, loading, ticks, credsReq,
                   credsStored, saves, presses>>

OpenNewName ==
    /\ ListKeys
    /\ screen' = "new"
    /\ UNCHANGED <<formVars, cfg, stored, explicit, selected, listLoading, listed, listing,
                   entryReq, loads, costVars, credVars, saveVars, run>>

(* Enter on the name field: a blank one keeps the name there is.           *)
NewName(c, blank) ==
    /\ Open /\ screen = "new"
    /\ cfg' = IF blank THEN cfg ELSE [cfg EXCEPT !.name = c]
    /\ explicit' = (explicit \/ ~blank)
    /\ selected' = TRUE
    /\ UNCHANGED <<formVars, stored, screen, listLoading, listed, listing, entryReq, loads,
                   costVars, credVars, saveVars, run>>

-----------------------------------------------------------------------------
(* Saving to kind, deploying and leaving.                                  *)

flushToCfg == cfg' = [cfg EXCEPT !.ver = form]

\* mutant: the key does not look whether a save is running
PressSaveAgain ==
    /\ Open /\ presses < session.saves
    /\ flushToCfg
    /\ saving' = TRUE /\ presses' = presses + 1
    /\ saves' = saves \cup {[n |-> presses + 1, name |-> cfg.name, ver |-> form,
                             stage |-> "label"]}
    /\ UNCHANGED <<formVars, stored, configVars, costVars, credVars, run>>

(* Ctrl+S and the deploy tab's first button.                               *)
PressSave ==
    /\ Open /\ ~saving /\ presses < session.saves
    /\ flushToCfg
    /\ saving' = TRUE /\ presses' = presses + 1
    /\ saves' = saves \cup {[n |-> presses + 1, name |-> cfg.name, ver |-> form,
                             stage |-> "label"]}
    /\ UNCHANGED <<formVars, stored, configVars, costVars, credVars, run>>

(* WriteBootstrapConfigSecret first labels the namespace of the name m.cfg *)
(* has then, and fails or gives up when kind does not answer ...           *)
EnsureNamespace(s) ==
    /\ Running /\ s \in saves /\ s.stage = "label"
    /\ \E st \in {"write", "reply"} :
          saves' = (saves \ {s}) \cup {[s EXCEPT !.stage = st]}
    /\ UNCHANGED <<formVars, cfg, stored, configVars, costVars, credVars, saving, presses,
                   run>>

(* ... then reads all it stores, the name again included, through the      *)
(* shared pointer.                                                         *)
WriteBootstrapConfigSecret(s) ==
    /\ Running /\ s \in saves /\ s.stage = "write"
    /\ saves' = (saves \ {s}) \cup {[s EXCEPT !.stage = "reply"]}
    /\ stored' \in {stored, [stored EXCEPT ![cfg.name] = cfg.ver]}
    /\ UNCHANGED <<formVars, cfg, configVars, costVars, credVars, saving, presses, run>>

SaveReply(s) ==
    /\ Running /\ s \in saves /\ s.stage = "reply"
    /\ saves' = saves \ {s}
    /\ saving' = FALSE
    /\ UNCHANGED <<formVars, cfg, stored, configVars, costVars, credVars, presses, run>>

\* mutant: the deploy button relies on runDashboard for the flush
StartDeployUnflushed ==
    /\ Open /\ selected
    /\ run' = "deploy"
    /\ UNCHANGED <<formVars, cfg, stored, configVars, costVars, credVars, saveVars>>

StartDeploy ==
    /\ Open /\ selected
    /\ flushToCfg
    /\ run' = "deploy"
    /\ UNCHANGED <<formVars, stored, configVars, costVars, credVars, saveVars>>

Escape ==
    /\ Open
    /\ run' = "quit"
    /\ UNCHANGED <<formVars, cfg, stored, configVars, costVars, credVars, saveVars>>

(* The queued Quit ends the program.  runDashboard flushes the last model  *)
(* once more, except in on-prem mode.                                      *)
Quit ==
    /\ run \in {"quit", "deploy"}
    /\ run' = IF run = "deploy" THEN "deployed" ELSE "aborted"
    /\ IF run = "deploy" /\ ~onPrem THEN flushToCfg ELSE UNCHANGED cfg
    /\ UNCHANGED <<formVars, stored, configVars, costVars, credVars, saveVars>>

-----------------------------------------------------------------------------
Keys ==
    \/ \E kept \in BOOLEAN : Edit(kept)
    \/ SwitchMode \/ SaveCreds
    \/ ReloadList \/ OpenNewName
    \/ \E c \in Configs : PickEntry(c)
    \/ \E c \in Configs, blank \in BOOLEAN : NewName(c, blank)
    \/ PressSave \/ StartDeploy \/ Escape

Refreshing ==
    \/ TimePasses \/ Tick
    \/ \E s \in streams, p \in session.pairs : Send(s, p) \/ CostRow(s, p)
    \/ \E s \in streams : CostDone(s)

Answers ==
    \/ WriteCostCompareSecret
    \/ \E ok \in BOOLEAN : ListArrives(ok)
    \/ \E e \in entryReq : ReadEntry(e) \/ EntryArrives(e)
    \/ \E s \in saves : EnsureNamespace(s) \/ WriteBootstrapConfigSecret(s) \/ SaveReply(s)

Next == (Keys \/ Refreshing \/ Answers \/ Quit) /\ UNCHANGED session

Spec == Init /\ [][Next]_vars

(* Timers fire, the pricing calls return or fail (each has a deadline),    *)
(* and the program handles the messages that arrived.  Nothing makes the   *)
(* user press a key.                                                       *)
FairSpec == Spec /\ WF_vars(Refreshing /\ UNCHANGED session)

-----------------------------------------------------------------------------
(* Properties.                                                             *)

TypeOK ==
    /\ form \in Version /\ last \in Version /\ onPrem \in BOOLEAN
    /\ session \in Sessions /\ modes <= session.modes /\ loads <= session.loads
    /\ presses <= session.saves
    /\ cfg \in [name : Configs, ver : Version]
    /\ stored \in [Configs -> Version \cup {NotStored}]
    /\ {explicit, selected, listLoading, listing} \subseteq BOOLEAN
    /\ screen \in {"list", "new"} /\ listed \subseteq Configs
    /\ entryReq \subseteq Entry /\ Cardinality(entryReq) <= 1
    /\ {compare, credsReq, credsStored, loading, recent, pending, saving} \subseteq BOOLEAN
    /\ rows \in [Row -> Nat] /\ ticks \in Nat /\ kicks \in Nat
    /\ streams \subseteq Stream /\ saves \subseteq Save
    /\ run \in {"open", "quit", "deploy", "aborted", "deployed"}

Priced(v) == \A p \in session.pairs : rows[[pair |-> p, ver |-> v]] > 0
Quiet == ticks = 0 /\ streams = {}

(* Once no timer and no refresh is in flight, the table has a row for      *)
(* every pair, priced for what the form holds: the debounce of markDirty   *)
(* and the chain of tickMsg and costRowMsg lose no change, however edits,  *)
(* timers, loads and older refreshes interleave, as long as the mode was   *)
(* not switched.                                                           *)
AtRestPriced == Running /\ compare /\ modes = 0 /\ Quiet => Priced(form)

(* "fetching" is not shown for ever: while it is, a refresh that will end  *)
(* it is running or a timer will start one (tickMsg, costRowMsg.done).     *)
FetchingEnds == Running /\ compare /\ loading => ~Quiet

(* Every cost edit is priced, unless the user edits again, loads another   *)
(* configuration, switches the mode or leaves (markDirty to costRowMsg).   *)
EditsGetPriced ==
    \A v \in Version :
        (Running /\ compare /\ form = v) ~>
            (Priced(v) \/ form # v \/ ~compare \/ modes > 0 \/ ~Running)

(* A save that was started is shown as saving until it answers, so that a  *)
(* second one cannot run beside it (the guard of Ctrl+S), until an entry   *)
(* is loaded: the new model has forgotten the save.                        *)
OneSaveAtATime == loads = 0 => (saves # {} => saving) /\ Cardinality(saves) <= 1

(* What is deployed is what the form showed (StartDeploy, runDashboard).   *)
DeployUsesForm == run = "deployed" => cfg.ver = form
=============================================================================
