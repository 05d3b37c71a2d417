--------------------------- MODULE LogRingProofs ---------------------------
(***************************************************************************)
(* Proofs about LogRing, for every capacity, every set of writers and      *)
(* channels, and every batch of lines.                                     *)
(***************************************************************************)
EXTENDS LogRing, SequenceTheorems, TLAPS

Content == Line \cup {NoLine}

-----------------------------------------------------------------------------
(* The arithmetic of the circular buffer.                                  *)

(* The slot of an index that runs over the end of the buffer.              *)
SlotAt(x) == x % Cap

(* The remainders that the ring takes are of numbers below 2 * Cap.        *)
LEMMA Wrap ==
    \A x \in 0 .. 2 * Cap - 1 :
        /\ SlotAt(x) \in Slot
        /\ x < Cap => SlotAt(x) = x
        /\ ~ (x < Cap) => SlotAt(x) = x - Cap
<1>1. \A x \in 0 .. Cap - 1 : SlotAt(x) = x
  BY CapAssumption DEF SlotAt
<1>2. \A x \in Cap .. 2 * Cap - 1 : SlotAt(x) = x - Cap
  BY CapAssumption DEF SlotAt
<1> QED
  BY <1>1, <1>2, CapAssumption DEF Slot, SlotAt

(* Start and Lines as functions of the ring's fields, so that the lemmas   *)
(* hold before and after a step.                                           *)
StartOf(h, n) == SlotAt(h - n + Cap)
LinesOf(b, h, n) == [i \in 1 .. n |-> b[SlotAt(StartOf(h, n) + i - 1)]]

(* Where the oldest line is, by cases instead of a remainder.              *)
LEMMA StartByCases ==
  ASSUME NEW h \in Slot, NEW n \in 0 .. Cap
  PROVE  /\ StartOf(h, n) \in Slot
         /\ StartOf(h, n) = IF n <= h THEN h - n ELSE h - n + Cap
<1>1. h - n + Cap \in 0 .. 2 * Cap - 1
  BY CapAssumption DEF Slot
<1> QED
  BY <1>1, Wrap, CapAssumption DEF StartOf, Slot

(* Lines() returns a sequence as long as the ring is full.                 *)
LEMMA LinesIsSeq ==
  ASSUME NEW b \in [Slot -> Content], NEW h \in Slot, NEW n \in 0 .. Cap
  PROVE  /\ LinesOf(b, h, n) \in Seq(Content)
         /\ Len(LinesOf(b, h, n)) = n
         /\ \A i \in 1 .. n : LinesOf(b, h, n)[i] = b[SlotAt(StartOf(h, n) + i - 1)]
<1> DEFINE L == LinesOf(b, h, n)
<1>1. StartOf(h, n) \in Slot
  BY StartByCases
<1>2. \A i \in 1 .. n : SlotAt(StartOf(h, n) + i - 1) \in Slot
  <2> SUFFICES ASSUME NEW i \in 1 .. n PROVE SlotAt(StartOf(h, n) + i - 1) \in Slot
    OBVIOUS
  <2>1. StartOf(h, n) + i - 1 \in 0 .. 2 * Cap - 1
    BY <1>1, CapAssumption DEF Slot
  <2> QED
    BY <2>1, Wrap, CapAssumption DEF Slot
<1>3. L \in [1 .. n -> Content]
  BY <1>2 DEF LinesOf
<1>4. n \in Nat
  BY CapAssumption
<1>5. L \in Seq(Content)
  BY <1>3, <1>4, SeqDef
<1>6. Len(L) = n
  <2>1. DOMAIN L = 1 .. n
    BY DEF LinesOf
  <2>2. Len(L) \in Nat /\ DOMAIN L = 1 .. Len(L)
    BY <1>5, LenProperties
  <2> QED
    BY <2>1, <2>2, <1>4
<1> QED
  BY <1>5, <1>6 DEF LinesOf

LEMMA LinesAre ==
    /\ Lines = LinesOf(buf, head, size)
    /\ Lines' = LinesOf(buf', head', size')
  BY DEF Lines, Start, LinesOf, StartOf, SlotAt

(* A line put in a ring is the last one of it, and the others keep their   *)
(* order; the oldest is dropped from a full ring.                          *)
LEMMA PutInRing ==
  ASSUME NEW b \in [Slot -> Content], NEW h \in Slot, NEW n \in 0 .. Cap,
         NEW line \in Content
  PROVE  LinesOf([b EXCEPT ![h] = line], SlotAt(h + 1), IF n < Cap THEN n + 1 ELSE n)
           = Append(IF n < Cap THEN LinesOf(b, h, n) ELSE Tail(LinesOf(b, h, n)), line)
<1> DEFINE b2 == [b EXCEPT ![h] = line]
           h2 == SlotAt(h + 1)
           n2 == IF n < Cap THEN n + 1 ELSE n
           L  == LinesOf(b, h, n)
           L2 == LinesOf(b2, h2, n2)
           K  == IF n < Cap THEN L ELSE Tail(L)
           s  == StartOf(h, n)
           s2 == StartOf(h2, n2)
<1>1. h2 \in Slot /\ h2 = IF h + 1 = Cap THEN 0 ELSE h + 1
  <2>1. h + 1 \in 0 .. 2 * Cap - 1
    BY CapAssumption DEF Slot
  <2>2. /\ h2 \in Slot
        /\ h + 1 < Cap => h2 = h + 1
        /\ ~ (h + 1 < Cap) => h2 = h + 1 - Cap
    BY <2>1, Wrap, CapAssumption DEF Slot
  <2> QED
    BY <2>2, CapAssumption DEF Slot
<1>2. n2 \in 1 .. Cap /\ b2 \in [Slot -> Content]
  BY CapAssumption
<1>3. /\ L \in Seq(Content) /\ Len(L) = n
      /\ \A i \in 1 .. n : L[i] = b[SlotAt(s + i - 1)]
  BY LinesIsSeq
<1>4. /\ L2 \in Seq(Content) /\ Len(L2) = n2
      /\ \A i \in 1 .. n2 : L2[i] = b2[SlotAt(s2 + i - 1)]
  <2> HIDE DEF b2, h2, n2
  <2>1. n2 \in 0 .. Cap
    BY <1>2, CapAssumption
  <2> QED
    BY <1>1, <1>2, <2>1, LinesIsSeq
<1>5. /\ s \in Slot /\ s = IF n <= h THEN h - n ELSE h - n + Cap
      /\ s2 \in Slot /\ s2 = IF n2 <= h2 THEN h2 - n2 ELSE h2 - n2 + Cap
  <2> HIDE DEF b2, h2, n2
  <2> QED
    BY <1>1, <1>2, CapAssumption, StartByCases
<1>6. /\ K \in Seq(Content) /\ Len(K) = n2 - 1
      /\ \A i \in 1 .. n2 - 1 : K[i] = IF n < Cap THEN L[i] ELSE L[i + 1]
  <2>1. CASE n < Cap
    BY <2>1, <1>3
  <2>2. CASE n = Cap
    <3>1. L # <<>>
      BY <2>2, <1>3, EmptySeq, CapAssumption
    <3> QED
      BY <2>2, <3>1, <1>3, HeadTailProperties, CapAssumption
  <2> QED
    BY <2>1, <2>2, CapAssumption
<1>7. /\ Append(K, line) \in Seq(Content) /\ Len(Append(K, line)) = n2
      /\ \A i \in 1 .. n2 - 1 : Append(K, line)[i] = K[i]
      /\ Append(K, line)[n2] = line
  <2> HIDE DEF K
  <2> QED
    BY <1>2, <1>6, AppendProperties, CapAssumption
<1>8. \A i \in 1 .. n2 : L2[i] = Append(K, line)[i]
  <2> SUFFICES ASSUME NEW i \in 1 .. n2 PROVE L2[i] = Append(K, line)[i]
    OBVIOUS
  <2> HIDE DEF b2, h2, n2, L, L2, K, s, s2
  <2>1. CASE i = n2
    <3>1. SlotAt(s2 + i - 1) = h
      <4>1. s2 + i - 1 \in 0 .. 2 * Cap - 1
        BY <1>2, <1>5, CapAssumption DEF Slot
      <4>2. /\ s2 + i - 1 < Cap => SlotAt(s2 + i - 1) = s2 + i - 1
            /\ ~ (s2 + i - 1 < Cap) => SlotAt(s2 + i - 1) = s2 + i - 1 - Cap
        BY <4>1, <1>2, <1>5, Wrap, CapAssumption DEF Slot
      <4> QED
        BY <2>1, <4>2, <1>1, <1>2, <1>5, CapAssumption DEF Slot
    <3> QED
      BY <2>1, <3>1, <1>4, <1>7 DEF b2
  <2>2. CASE i # n2
    <3> DEFINE j == IF n < Cap THEN i ELSE i + 1
    <3>1. i \in 1 .. n2 - 1 /\ j \in 1 .. n
      BY <2>2, <1>2, CapAssumption DEF n2
    <3>2. K[i] = L[j]
      BY <3>1, <1>6
    <3>3. s2 + i - 1 \in 0 .. 2 * Cap - 1 /\ s + j - 1 \in 0 .. 2 * Cap - 1
      BY <3>1, <1>2, <1>5, CapAssumption DEF Slot
    <3>4. SlotAt(s2 + i - 1) = SlotAt(s + j - 1) /\ SlotAt(s + j - 1) \in Slot \ {h}
      <4>1. /\ s2 + i - 1 < Cap => SlotAt(s2 + i - 1) = s2 + i - 1
            /\ ~ (s2 + i - 1 < Cap) => SlotAt(s2 + i - 1) = s2 + i - 1 - Cap
            /\ s + j - 1 < Cap => SlotAt(s + j - 1) = s + j - 1
            /\ ~ (s + j - 1 < Cap) => SlotAt(s + j - 1) = s + j - 1 - Cap
        BY <3>1, <3>3, <1>2, <1>5, Wrap, CapAssumption DEF Slot
      <4> QED
        BY <3>1, <4>1, <1>1, <1>2, <1>5, CapAssumption DEF Slot, n2
    <3>5. b2[SlotAt(s2 + i - 1)] = b[SlotAt(s + j - 1)]
      BY <3>4 DEF b2
    <3> QED
      BY <3>1, <3>2, <3>5, <1>3, <1>4, <1>7
  <2> QED
    BY <2>1, <2>2
<1> QED
  <2> HIDE DEF L2, K, n2
  <2>1. L2 = Append(K, line)
    BY <1>4, <1>7, <1>8, SeqEqual
  <2> QED
    BY <2>1 DEF L2, K, n2

-----------------------------------------------------------------------------
(* What every variable holds: the component's TypeOK.                      *)

(* A writer that owes a poke has the line it added still at its head.      *)
OwesALine == \A w \in Writer : writer[w].at = "notify" => writer[w].todo # <<>>

(* The dashboard reads from the channel it was given, and from no other.   *)
ReadsItsChannel ==
    /\ phase = "new" => logSub = None
    /\ phase # "new" => logSub \in subs
    /\ phase # "running" => msgs = 0 /\ \A ch \in Chan : waiting[ch] = 0
    /\ \A ch \in Chan : waiting[ch] > 0 => ch = logSub

(* One more than TypeOK: what Write, Notify and the watchers rely on.      *)
Typed == TypeOK /\ OwesALine /\ ReadsItsChannel

LEMMA InitTyped == Init => Typed
<1> SUFFICES ASSUME Init PROVE Typed
  OBVIOUS
<1>1. TypeOK
  BY CapAssumption, EmptySeq DEF Init, TypeOK, Slot
<1> QED
  BY <1>1, NoneAssumption DEF Init, Typed, OwesALine, ReadsItsChannel

(* Every step keeps Typed.                                                 *)
LEMMA NextTyped == Typed /\ [Next]_vars => Typed'
<1> SUFFICES ASSUME Typed, [Next]_vars PROVE Typed'
  OBVIOUS
<1> USE DEF Typed, TypeOK, OwesALine, ReadsItsChannel
<1>l. Lines \in Seq(Content)
  BY LinesAre, LinesIsSeq DEF Content
<1>1. ASSUME NEW w \in Writer, NEW lines \in Batch, Write(w, lines) PROVE Typed'
  BY <1>1, BatchAssumption DEF Write, ringVars, subVars, dashVars
<1>2. ASSUME NEW w \in Writer, AppendLine(w) PROVE Typed'
  <2>1. Head(writer[w].todo) \in Line
    BY <1>2, HeadTailProperties DEF AppendLine
  <2>2. (head + 1) % Cap \in Slot
    BY CapAssumption DEF Slot
  <2>3. size' \in 0 .. Cap
    BY <1>2, CapAssumption DEF AppendLine
  <2>4. buf' \in [Slot -> Line \cup {NoLine}]
    BY <1>2, <2>1 DEF AppendLine
  <2> QED
    BY <1>2, <2>2, <2>3, <2>4 DEF AppendLine, subVars, dashVars
<1>3. ASSUME NEW w \in Writer, Notify(w) PROVE Typed'
  <2>1. Tail(writer[w].todo) \in Seq(Line)
    BY <1>3, HeadTailProperties DEF Notify
  <2>2. writer' \in [Writer -> [todo : Seq(Line), at : {"write", "notify"}]]
    BY <1>3, <2>1 DEF Notify
  <2>3. token' \in [Chan -> BOOLEAN]
    BY <1>3 DEF Notify
  <2> QED
    BY <1>3, <2>2, <2>3 DEF Notify, ringVars, dashVars
<1>4. ASSUME NEW ch \in Chan, Subscribe(ch) PROVE Typed'
  BY <1>4, NoneAssumption DEF Subscribe, ringVars
<1>5. ASSUME NEW ch \in Chan, Wake(ch) PROVE Typed'
  BY <1>5, NoneAssumption DEF Wake, ringVars
<1>6. ASSUME NEW ch \in Chan, LoadEntry(ch) PROVE Typed'
  BY <1>6, NoneAssumption DEF LoadEntry, ringVars
<1>7. CASE CopyLines
  BY <1>7, <1>l, NoneAssumption DEF CopyLines, ringVars, subVars, Content
<1>8. CASE LogUpdate
  BY <1>8, <1>l, NoneAssumption DEF LogUpdate, ringVars, subVars, Content
<1>9. CASE UNCHANGED vars
  BY <1>9 DEF vars, ringVars, subVars, dashVars
<1> QED
  BY <1>1, <1>2, <1>3, <1>4, <1>5, <1>6, <1>7, <1>8, <1>9 DEF Next

(* Type correctness: the indexes of the ring stay within the buffer and    *)
(* every counter and channel holds what its Go type holds, at any capacity *)
(* and with any number of writers.                                         *)
THEOREM TypeCorrect == Spec => []TypeOK
<1>1. Typed => TypeOK
  BY DEF Typed
<1> QED
  BY <1>1, InitTyped, NextTyped, PTL DEF Spec

-----------------------------------------------------------------------------
(* No poke is lost.                                                        *)

(* Somebody still comes to copy the ring: a message on its way to Update,  *)
(* a poke in the channel, or a writer that has yet to poke.                *)
Stale == msgs > 0 \/ token[logSub] \/ \E w \in Writer : writer[w].at = "notify"

(* LogCaughtUp alone is not inductive: it says nothing while a poke is on  *)
(* its way.  What a running dashboard keeps is that somebody listens, and  *)
(* that either the tab is up to date or somebody will come.                *)
Listened ==
    phase = "running" =>
        /\ msgs > 0 \/ waiting[logSub] > 0
        /\ view = Lines \/ Stale

(* A step that leaves the ring alone leaves what Lines() returns.          *)
LEMMA SameLines == ASSUME UNCHANGED ringVars PROVE Lines' = Lines
  BY DEF ringVars, Lines, Start

(* Every step keeps Listened: only appendLine makes the tab stale, and it  *)
(* owes a poke from then on; notify hands its debt to the channel, the     *)
(* watcher hands the poke to a message, and the message copies the ring.   *)
LEMMA NextListened == Typed /\ Listened /\ [Next]_vars => Listened'
<1> SUFFICES ASSUME Typed, Listened, [Next]_vars PROVE Listened'
  OBVIOUS
<1> USE DEF Typed, TypeOK, ReadsItsChannel, Listened, Stale
<1>1. ASSUME NEW w \in Writer, NEW lines \in Batch, Write(w, lines) PROVE Listened'
  <2>1. \A v \in Writer : writer'[v].at = writer[v].at
    BY <1>1 DEF Write
  <2> QED
    BY <1>1, <2>1, SameLines DEF Write, ringVars, subVars, dashVars
<1>2. ASSUME NEW w \in Writer, AppendLine(w) PROVE Listened'
  <2>1. writer'[w].at = "notify"
    BY <1>2 DEF AppendLine
  <2> QED
    BY <1>2, <2>1 DEF AppendLine, subVars, dashVars
<1>3. ASSUME NEW w \in Writer, Notify(w) PROVE Listened'
  <2>1. CASE phase = "running"
    <3>1. token'[logSub] = TRUE
      BY <1>3, <2>1 DEF Notify
    <3> QED
      BY <1>3, <3>1 DEF Notify, dashVars
  <2> QED
    BY <1>3, <2>1 DEF Notify, dashVars
<1>4. ASSUME NEW ch \in Chan, Subscribe(ch) PROVE Listened'
  BY <1>4 DEF Subscribe
<1>5. ASSUME NEW ch \in Chan, Wake(ch) PROVE Listened'
  BY <1>5 DEF Wake
<1>6. ASSUME NEW ch \in Chan, LoadEntry(ch) PROVE Listened'
  <2>1. waiting'[logSub] > 0
    BY <1>6 DEF LoadEntry
  <2> QED
    BY <1>6, <2>1, SameLines DEF LoadEntry
<1>7. CASE CopyLines
  <2>1. waiting'[logSub] > 0
    BY <1>7 DEF CopyLines
  <2> QED
    BY <1>7, <2>1, SameLines DEF CopyLines
<1>8. CASE LogUpdate
  <2>1. phase = "running" /\ logSub \in Chan
    BY <1>8 DEF LogUpdate
  <2>2. waiting'[logSub] > 0
    BY <1>8, <2>1 DEF LogUpdate
  <2> QED
    BY <1>8, <2>2, SameLines DEF LogUpdate
<1>9. CASE UNCHANGED vars
  BY <1>9, SameLines DEF vars, ringVars, subVars, dashVars
<1> QED
  BY <1>1, <1>2, <1>3, <1>4, <1>5, <1>6, <1>7, <1>8, <1>9 DEF Next

(* The [logs] tab is never left behind: once nothing is on its way to it,  *)
(* it shows what the ring holds, with any number of goroutines logging.    *)
THEOREM NoPokeIsLost == Spec => []LogCaughtUp
<1>1. Init => Listened
  BY DEF Init, Listened
<1>2. Typed /\ Listened => LogCaughtUp
  <2> SUFFICES ASSUME Typed, Listened, phase = "running", msgs = 0,
                      \A w \in Writer : writer[w].at = "write", ~Poked
               PROVE  view = Lines
    BY DEF LogCaughtUp
  <2>1. waiting[logSub] > 0
    BY DEF Listened, Typed, TypeOK
  <2> QED
    BY <2>1 DEF Listened, Stale, Poked
<1> QED
  BY <1>1, <1>2, InitTyped, NextTyped, NextListened, PTL DEF Spec

-----------------------------------------------------------------------------
(* The circular buffer implements the log.                                 *)

(* appendLine adds its line at the end of what Lines() returns, without    *)
(* the oldest line when the ring is full.                                  *)
LEMMA AppendLineAdds ==
  ASSUME Typed, NEW w \in Writer, AppendLine(w)
  PROVE  Ring!Next
<1> USE DEF Typed, TypeOK
<1> DEFINE line == Head(writer[w].todo)
<1>1. line \in Line /\ line \in Content
  BY HeadTailProperties DEF AppendLine, Content
<1>2. Lines' = Append(IF size < Cap THEN Lines ELSE Tail(Lines), line)
  <2>1. /\ buf' = [buf EXCEPT ![head] = line] /\ head' = SlotAt(head + 1)
        /\ size' = IF size < Cap THEN size + 1 ELSE size
    BY DEF AppendLine, SlotAt
  <2>2. buf \in [Slot -> Content] /\ head \in Slot /\ size \in 0 .. Cap
    BY DEF Content
  <2> HIDE DEF line, Typed, TypeOK
  <2>3. LinesOf([buf EXCEPT ![head] = line], SlotAt(head + 1),
                IF size < Cap THEN size + 1 ELSE size)
          = Append(IF size < Cap THEN LinesOf(buf, head, size)
                                 ELSE Tail(LinesOf(buf, head, size)), line)
    BY <1>1, <2>2, PutInRing
  <2> QED
    BY <2>1, <2>3, LinesAre
<1>3. Len(Lines) = size
  BY LinesAre, LinesIsSeq DEF Content
<1> QED
  BY <1>1, <1>2, <1>3 DEF Ring!Next, Ring!Add

(* The ring implements BoundedLog: a reader of Lines() sees a log of the   *)
(* last Cap lines in the order they were added, whatever the capacity and  *)
(* however the writers interleave.                                         *)
THEOREM RingIsALog == Spec => ImplementsBoundedLog
<1>1. Init => Ring!Init
  <2> SUFFICES ASSUME Init PROVE Lines = <<>>
    BY DEF Ring!Init
  <2> QED
    BY DEF Init, Lines
<1>2. Typed /\ [Next]_vars => [Ring!Next]_Lines
  <2> SUFFICES ASSUME Typed, [Next]_vars, ~ UNCHANGED ringVars PROVE Ring!Next
    BY SameLines
  <2>1. PICK w \in Writer : AppendLine(w)
    BY DEF Next, vars, Write, Notify, Subscribe, Wake, LoadEntry, CopyLines, LogUpdate
  <2> QED
    BY <2>1, AppendLineAdds
<1> QED
  BY <1>1, <1>2, InitTyped, NextTyped, PTL
     DEF Spec, ImplementsBoundedLog, Ring!Spec
=============================================================================
