------------------------------ MODULE LogRing ------------------------------
(***************************************************************************)
(* The log ring of internal/ui/xapiri (logring.go) and the part of the     *)
(* dashboard that shows it.  Goroutines that log append lines to a         *)
(* circular buffer and poke the subscribers; a watcher command of the      *)
(* dashboard waits for the poke, and its message makes Update copy the     *)
(* ring into m.logLines.  Each mutex section is one step; between the      *)
(* append and the poke, and between the poke and the copy, everybody else  *)
(* may run.                                                                *)
(***************************************************************************)
EXTENDS Integers, Sequences, FiniteSets

CONSTANTS
    Line,      \* lines of text
    NoLine,    \* the content of a slot never written
    Cap,       \* logRingCap
    Writer,    \* goroutines that log
    Batch,     \* what one Write may hold: its non-empty lines
    Chan,      \* channels, each made by one Subscribe
    None       \* the nil channel

ASSUME CapAssumption == Cap \in Nat \ {0}
ASSUME BatchAssumption == Batch \subseteq Seq(Line)
ASSUME NoneAssumption == None \notin Chan

VARIABLES
    buf, head, size,  \* the ring, guarded by r.mu
    subs, token,      \* the subscribers, guarded by r.subsMu; which have a poke in them
    writer,           \* writer[w]: the lines still to add, and where it is
    phase,            \* the dashboard: newDashModel, then Update
    view, logSub,     \* m.logLines, m.logSub
    waiting,          \* waiting[ch]: watchers receiving from ch
    msgs              \* logUpdateMsg sent and not handled

ringVars == <<buf, head, size>>
subVars == <<subs, token>>
dashVars == <<phase, view, logSub, waiting, msgs>>
vars == <<ringVars, subVars, writer, dashVars>>

Slot == 0 .. Cap - 1

(* Lines(): the valid slots, oldest first.                                 *)
Start == (head - size + Cap) % Cap
Lines == [i \in 1 .. size |-> buf[(Start + i - 1) % Cap]]

Init ==
    /\ buf = [i \in Slot |-> NoLine] /\ head = 0 /\ size = 0
    /\ subs = {} /\ token = [ch \in Chan |-> FALSE]
    /\ writer = [w \in Writer |-> [todo |-> <<>>, at |-> "write"]]
    /\ phase = "new" /\ view = <<>> /\ logSub = None
    /\ waiting = [ch \in Chan |-> 0] /\ msgs = 0

-----------------------------------------------------------------------------
(* A goroutine that logs.                                                  *)

Write(w, lines) ==
    /\ writer[w].todo = <<>>
    /\ writer' = [writer EXCEPT ![w].todo = lines]
    /\ UNCHANGED <<ringVars, subVars, dashVars>>

\* mutant: the size grows past the capacity
AppendLineUncapped(w) ==
    /\ writer[w].todo # <<>> /\ writer[w].at = "write"
    /\ buf' = [buf EXCEPT ![head] = Head(writer[w].todo)]
    /\ head' = (head + 1) % Cap
    /\ size' = size + 1
    /\ writer' = [writer EXCEPT ![w].at = "notify"]
    /\ UNCHANGED <<subVars, dashVars>>

\* mutant: the index is advanced before the line is stored
AppendLineAfter(w) ==
    /\ writer[w].todo # <<>> /\ writer[w].at = "write"
    /\ head' = (head + 1) % Cap
    /\ buf' = [buf EXCEPT ![head'] = Head(writer[w].todo)]
    /\ size' = IF size < Cap THEN size + 1 ELSE size
    /\ writer' = [writer EXCEPT ![w].at = "notify"]
    /\ UNCHANGED <<subVars, dashVars>>

(* appendLine, the part under r.mu ...                                     *)
AppendLine(w) ==
    /\ writer[w].todo # <<>> /\ writer[w].at = "write"
    /\ buf' = [buf EXCEPT ![head] = Head(writer[w].todo)]
    /\ head' = (head + 1) % Cap
    /\ size' = IF size < Cap THEN size + 1 ELSE size
    /\ writer' = [writer EXCEPT ![w].at = "notify"]
    /\ UNCHANGED <<subVars, dashVars>>

(* ... and notify: a poke is dropped where one is already in the channel.  *)
Notify(w) ==
    /\ writer[w].at = "notify"
    /\ token' = [ch \in Chan |-> token[ch] \/ ch \in subs]
    /\ writer' = [writer EXCEPT ![w] = [todo |-> Tail(@.todo), at |-> "write"]]
    /\ UNCHANGED <<ringVars, subs, dashVars>>

-----------------------------------------------------------------------------
(* The dashboard.                                                          *)

(* newDashModel subscribes ...                                             *)
Subscribe(ch) ==
    /\ phase = "new" /\ ch \in Chan \ subs
    /\ subs' = subs \cup {ch} /\ logSub' = ch /\ phase' = "subscribed"
    /\ UNCHANGED <<ringVars, token, writer, view, waiting, msgs>>

(* ... copies the ring, and Init starts the first watcher.                 *)
CopyLines ==
    /\ phase = "subscribed"
    /\ view' = Lines /\ phase' = "running"
    /\ waiting' = [waiting EXCEPT ![logSub] = @ + 1]
    /\ UNCHANGED <<ringVars, subVars, writer, logSub, msgs>>

(* A watcher receives the poke.                                            *)
Wake(ch) ==
    /\ waiting[ch] > 0 /\ token[ch]
    /\ token' = [token EXCEPT ![ch] = FALSE]
    /\ waiting' = [waiting EXCEPT ![ch] = @ - 1]
    /\ msgs' = msgs + 1
    /\ UNCHANGED <<ringVars, subs, writer, phase, view, logSub>>

\* mutant: the handler does not start the next watcher
LogUpdateOnce ==
    /\ msgs > 0
    /\ msgs' = msgs - 1 /\ view' = Lines
    /\ UNCHANGED <<ringVars, subVars, writer, phase, logSub, waiting>>

(* logUpdateMsg: copy the ring and watch again.                            *)
LogUpdate ==
    /\ msgs > 0
    /\ msgs' = msgs - 1 /\ view' = Lines
    /\ waiting' = [waiting EXCEPT ![logSub] = @ + 1]
    /\ UNCHANGED <<ringVars, subVars, writer, phase, logSub>>

(* cfgEntryLoadMsg makes a new model, which subscribes again;              *)
(* preserveTransientState then restores the lines and the subscription of  *)
(* the old one, and a second watcher is started on it.                     *)
LoadEntry(ch) ==
    /\ phase = "running" /\ ch \in Chan \ subs
    /\ subs' = subs \cup {ch}
    /\ waiting' = [waiting EXCEPT ![logSub] = @ + 1]
    /\ UNCHANGED <<ringVars, token, writer, phase, view, logSub, msgs>>

-----------------------------------------------------------------------------
Next ==
    \/ \E w \in Writer, lines \in Batch : Write(w, lines)
    \/ \E w \in Writer : AppendLine(w) \/ Notify(w)
    \/ \E ch \in Chan : Subscribe(ch) \/ Wake(ch) \/ LoadEntry(ch)
    \/ CopyLines \/ LogUpdate

Spec == Init /\ [][Next]_vars

-----------------------------------------------------------------------------
(* Properties.                                                             *)

TypeOK ==
    /\ buf \in [Slot -> Line \cup {NoLine}] /\ head \in Slot /\ size \in 0 .. Cap
    /\ subs \subseteq Chan /\ token \in [Chan -> BOOLEAN]
    /\ writer \in [Writer -> [todo : Seq(Line), at : {"write", "notify"}]]
    /\ phase \in {"new", "subscribed", "running"}
    /\ view \in Seq(Line \cup {NoLine}) /\ logSub \in Chan \cup {None}
    /\ waiting \in [Chan -> Nat] /\ msgs \in Nat

(* The ring is a log of the last Cap lines: appendLine adds a line at the  *)
(* end and drops the oldest when it must, and nothing else changes what    *)
(* Lines() returns.                                                        *)
Ring == INSTANCE BoundedLog WITH log <- Lines
ImplementsBoundedLog == Ring!Spec

(* No poke is lost.  When no writer still owes one, no message waits and   *)
(* no watcher has one to receive, the [logs] tab shows what the ring       *)
(* holds: a slow reader, the dropped pokes of notify and a second watcher  *)
(* on one channel cost no line.                                            *)
Poked == waiting[logSub] > 0 /\ token[logSub]
LogCaughtUp ==
    phase = "running" /\ msgs = 0 /\ (\A w \in Writer : writer[w].at = "write") /\ ~Poked
        => view = Lines
=============================================================================
