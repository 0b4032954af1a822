--------------------------- MODULE EventStoreProofs ---------------------------
(***************************************************************************)
(* What the event store promises, for every set of events and every length *)
(* of the log: an append that returned is durable, and the lines a reader  *)
(* has seen never change.  AgentSession implements this store (UsesStore), *)
(* so both hold of the log of a session.                                   *)
(***************************************************************************)
EXTENDS EventStore, TLAPS

\* What is left of s when its first n items are kept.
LEMMA SubSeqKeeps ==
    ASSUME NEW S, NEW s \in Seq(S), NEW n \in 0 .. Len(s)
    PROVE  /\ SubSeq(s, 1, n) \in Seq(S)
           /\ Len(SubSeq(s, 1, n)) = n
           /\ \A i \in 1 .. n : SubSeq(s, 1, n)[i] = s[i]
  OBVIOUS

LEMMA AppendKeeps ==
    ASSUME NEW S, NEW s \in Seq(S), NEW e \in S
    PROVE  /\ Append(s, e) \in Seq(S)
           /\ Len(Append(s, e)) = Len(s) + 1
           /\ Append(s, e)[Len(s) + 1] = e
           /\ \A i \in 1 .. Len(s) : Append(s, e)[i] = s[i]
  OBVIOUS

\* A sequence whose first items are those of s starts with s.
LEMMA PrefixIsSubSeq ==
    ASSUME NEW S, NEW s \in Seq(S), NEW t \in Seq(S),
           Len(s) <= Len(t), \A i \in 1 .. Len(s) : s[i] = t[i]
    PROVE  SubSeq(t, 1, Len(s)) = s
  OBVIOUS

\* file grows from Old to New, as far as the lines of Old are concerned.
Grows(Old, New) ==
    /\ New \in Seq(Event)
    /\ Len(Old) <= Len(New)
    /\ \A i \in 1 .. Len(Old) : New[i] = Old[i]

\* What a write that fails half way leaves: a longer prefix of the lines.
LEMMA PartlyWrittenGrows ==
    ASSUME StoreInv, isOpen, NEW lines \in Seq(Event), Grows(mem, lines),
           PartlyWritten(lines)
    PROVE  /\ Grows(file, file')
           /\ Len(file') <= Len(lines)
           /\ \A i \in 1 .. Len(file') : file'[i] = lines[i]
           /\ torn' \in BOOLEAN
<1>1. PICK n \in Len(file) .. Len(lines) :
         /\ file' = SubSeq(lines, 1, n)
         /\ torn' \in IF n = Len(lines) THEN {FALSE}
                      ELSE IF n = Len(file) /\ torn /\ ~badTail THEN {TRUE}
                      ELSE BOOLEAN
  BY DEF PartlyWritten
<1>2. file \in Seq(Event) /\ mem \in Seq(Event) /\ Len(file) \in Nat
  BY DEF StoreInv, TypeOK
<1>3. n \in 0 .. Len(lines)
  BY <1>2
<1>4. Len(file') = n /\ file' \in Seq(Event) /\ \A i \in 1 .. n : file'[i] = lines[i]
  BY <1>1, <1>3, SubSeqKeeps
<1>5. Len(file) <= n /\ n <= Len(lines)
  BY <1>2
<1>6. \A i \in 1 .. Len(file) : file'[i] = file[i]
  BY <1>2, <1>4, <1>5 DEF Grows, StoreInv, ListExtendsFile
<1>7. torn' \in BOOLEAN
  BY <1>1
<1> QED
  BY <1>4, <1>5, <1>6, <1>7 DEF Grows

\* The lines the log gains leave what was acknowledged where it was.
LEMMA AckedKept ==
    ASSUME StoreInv, Grows(file, file'), acked' = acked
    PROVE  AckedDurable'
<1> SUFFICES ASSUME NEW a \in acked
             PROVE  a[1] <= Len(file') /\ file'[a[1]] = a[2]
  BY DEF AckedDurable
<1>1. a[1] \in Nat /\ a[1] >= 1 /\ a[1] <= Len(file) /\ file[a[1]] = a[2]
  BY DEF StoreInv, TypeOK, AckedDurable
<1>2. Len(file) \in Nat /\ Len(file') \in Nat
  BY DEF StoreInv, TypeOK, Grows
<1>3. a[1] \in 1 .. Len(file) /\ a[1] <= Len(file')
  BY <1>1, <1>2 DEF Grows
<1> QED
  BY <1>1, <1>3 DEF Grows

LEMMA StoreInit == Init => StoreInv
<1> SUFFICES ASSUME Init PROVE StoreInv
  OBVIOUS
<1>1. <<>> \in Seq(Event) /\ Len(<<>>) = 0
  OBVIOUS
<1>2. TypeOK
  BY <1>1 DEF Init, TypeOK
<1>3. ListExtendsFile
  BY <1>1 DEF Init, ListExtendsFile
<1>4. AckedDurable
  BY DEF Init, AckedDurable
<1> QED
  BY <1>2, <1>3, <1>4 DEF StoreInv

LEMMA ForgetKeeps ==
    ASSUME StoreInv, ForgetMemory, Grows(file, file'), torn' \in BOOLEAN
    PROVE  StoreInv'
<1>1. TypeOK'
  <2>1. <<>> \in Seq(Event)
    OBVIOUS
  <2>2. /\ file' \in Seq(Event) /\ mem' = <<>> /\ isOpen' = FALSE
        /\ badTail' = FALSE /\ acked' = acked
    BY DEF ForgetMemory, Grows
  <2>3. acked \subseteq (Nat \ {0}) \X Event
    BY DEF StoreInv, TypeOK
  <2> QED  BY <2>1, <2>2, <2>3 DEF TypeOK
<1>2. ListExtendsFile'
  BY DEF ForgetMemory, ListExtendsFile
<1>3. AckedDurable'
  BY AckedKept DEF ForgetMemory
<1> QED
  BY <1>1, <1>2, <1>3 DEF StoreInv

\* Every step keeps the invariant and the lines of the file.
LEMMA StoreNext ==
    ASSUME StoreInv, [Next]_vars
    PROVE  StoreInv' /\ (UNCHANGED vars \/ Grows(file, file'))
<1>t. file \in Seq(Event) /\ mem \in Seq(Event) /\ Grows(file, file)
  BY DEF StoreInv, TypeOK, Grows
<1>m. isOpen => Grows(file, mem)
  BY <1>t DEF StoreInv, ListExtendsFile, Grows
<1>1. CASE Open
  <2>1. TypeOK' /\ ListExtendsFile'
    BY <1>1, <1>t DEF Open, StoreInv, TypeOK, ListExtendsFile
  <2>2. Grows(file, file') /\ AckedDurable'
    BY <1>1, <1>t, AckedKept DEF Open
  <2> QED  BY <2>1, <2>2 DEF StoreInv
<1>2. CASE RepairTail
  <2>1. TypeOK' /\ ListExtendsFile'
    BY <1>2 DEF RepairTail, StoreInv, TypeOK, ListExtendsFile
  <2>2. Grows(file, file') /\ AckedDurable'
    BY <1>2, <1>t, AckedKept DEF RepairTail
  <2> QED  BY <2>1, <2>2 DEF StoreInv
<1>3. CASE Flush
  <2>1. TypeOK'
    BY <1>3, <1>t DEF Flush, StoreInv, TypeOK
  <2>4. ListExtendsFile'
    <3>1. file' = mem /\ mem' = mem /\ Len(mem) \in Nat
      BY <1>3, <1>t DEF Flush
    <3> QED  BY <3>1 DEF ListExtendsFile
  <2>2. Grows(file, file')
    BY <1>3, <1>m DEF Flush
  <2>3. AckedDurable'
    BY <1>3, <2>2, AckedKept DEF Flush
  <2> QED  BY <2>1, <2>2, <2>3, <2>4 DEF StoreInv
<1>4. CASE Close
  <2>1. TypeOK' /\ ListExtendsFile'
    BY <1>4, <1>t DEF Close, StoreInv, TypeOK, ListExtendsFile
  <2>2. Grows(file, file')
    BY <1>4, <1>m DEF Close
  <2>3. AckedDurable'
    BY <1>4, <2>2, AckedKept DEF Close
  <2> QED  BY <2>1, <2>2, <2>3 DEF StoreInv
<1>5. CASE Crash
  <2>1. Grows(file, file') /\ torn' \in BOOLEAN
    BY <1>5, <1>t DEF Crash, StoreInv, TypeOK
  <2> QED  BY <1>5, <2>1, ForgetKeeps DEF Crash
<1>6. CASE \E e \in Event : AppendEvent(e) \/ AppendFails(e) \/ CrashInAppend(e)
  <2>1. PICK e \in Event : AppendEvent(e) \/ AppendFails(e) \/ CrashInAppend(e)
    BY <1>6
  <2> DEFINE lines == Append(mem, e)
  <2>2. /\ lines \in Seq(Event) /\ Len(lines) = Len(mem) + 1
        /\ lines[Len(mem) + 1] = e /\ Grows(mem, lines)
    BY <1>t, AppendKeeps DEF Grows
  <2>3. isOpen => Grows(file, lines)
    BY <1>t, <1>m, <2>2 DEF Grows
  <2>4. CASE AppendEvent(e)
    <3>1. Grows(file, file') /\ file' = lines /\ mem' = lines
      BY <2>3, <2>4 DEF AppendEvent
    <3>2. ListExtendsFile'
      <4>1. Len(lines) \in Nat
        BY <2>2
      <4> QED  BY <3>1, <4>1 DEF ListExtendsFile
    <3>4. TypeOK'
      <4>1. Len(lines) \in Nat \ {0}
        BY <1>t, <2>2, <2>4 DEF AppendEvent
      <4>2. acked' \subseteq (Nat \ {0}) \X Event
        BY <2>4, <3>1, <4>1 DEF AppendEvent, StoreInv, TypeOK
      <4> QED  BY <2>2, <2>4, <3>1, <4>2 DEF AppendEvent, StoreInv, TypeOK
    <3>3. AckedDurable'
      <4> SUFFICES ASSUME NEW a \in acked'
                   PROVE  a[1] <= Len(file') /\ file'[a[1]] = a[2]
        BY DEF AckedDurable
      <4>1. CASE a \in acked
        BY <1>t, <3>1, <4>1 DEF StoreInv, TypeOK, AckedDurable, Grows
      <4>2. CASE a = <<Len(lines), e>>
        BY <1>t, <2>2, <3>1, <4>2
      <4> QED  BY <2>4, <4>1, <4>2 DEF AppendEvent
    <3> QED  BY <3>1, <3>2, <3>3, <3>4 DEF StoreInv
  <2>5. CASE AppendFails(e)
    <3>1. /\ Grows(file, file') /\ torn' \in BOOLEAN
          /\ Len(file') <= Len(lines) /\ \A i \in 1 .. Len(file') : file'[i] = lines[i]
      BY <2>2, <2>5, PartlyWrittenGrows DEF AppendFails
    <3>2. TypeOK' /\ ListExtendsFile'
      BY <2>2, <2>5, <3>1 DEF AppendFails, StoreInv, TypeOK, ListExtendsFile, Grows
    <3>3. AckedDurable'
      BY <2>5, <3>1, AckedKept DEF AppendFails
    <3> QED  BY <3>1, <3>2, <3>3 DEF StoreInv
  <2>6. CASE CrashInAppend(e)
    <3>1. Grows(file, file') /\ torn' \in BOOLEAN
      BY <2>2, <2>6, PartlyWrittenGrows DEF CrashInAppend, ForgetMemory
    <3> QED  BY <2>6, <3>1, ForgetKeeps DEF CrashInAppend
  <2> QED  BY <2>1, <2>4, <2>5, <2>6
<1>7. CASE UNCHANGED vars
  BY <1>7 DEF vars, StoreInv, TypeOK, ListExtendsFile, AckedDurable
<1> QED
  BY <1>1, <1>2, <1>3, <1>4, <1>5, <1>6, <1>7 DEF Next

\* The invariant behind both theorems (event_store.py:79-193).
THEOREM StoreInvariant == Spec => []StoreInv
<1>1. StoreInv /\ [Next]_vars => StoreInv'
  BY StoreNext
<1> QED
  BY StoreInit, <1>1, PTL DEF Spec

\* An append that returned is in the file for ever, at the line its seq names,
\* whatever write failed and wherever the process died (event_store.py:79-100,
\* 143-157).
THEOREM Durable == Spec => []AckedDurable
<1>1. StoreInv => AckedDurable
  BY DEF StoreInv
<1> QED
  BY <1>1, StoreInvariant, PTL

\* No step removes or changes a complete line of the file: repair_tail cuts
\* only what no reader has loaded (event_store.py:143-157).
THEOREM AppendOnly == Spec => FileOnlyGrows
<1> DEFINE Step == /\ Len(file) <= Len(file')
                   /\ SubSeq(file', 1, Len(file)) = file
<1>1. StoreInv /\ [Next]_vars => [Step]_vars
  <2> SUFFICES ASSUME StoreInv, [Next]_vars, ~UNCHANGED vars
               PROVE  Step
    OBVIOUS
  <2>1. Grows(file, file')
    BY StoreNext
  <2>2. file \in Seq(Event)
    BY DEF StoreInv, TypeOK
  <2> QED
    BY <2>1, <2>2, PrefixIsSubSeq DEF Grows
<1> QED
  BY <1>1, StoreInvariant, PTL DEF Spec, FileOnlyGrows
=============================================================================
