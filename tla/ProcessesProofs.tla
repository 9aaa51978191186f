-------------------------- MODULE ProcessesProofs --------------------------
(***************************************************************************)
(* Proofs about Processes for any number of processes, any size of a       *)
(* profile and any vectors: which profile the shared file holds, who can   *)
(* read it, and what a translation leaves of it.                           *)
(***************************************************************************)
EXTENDS Processes, FiniteSetTheorems, WellFoundedInduction, TLAPS

\* Pieces of texts, and holes.
Pieces == (Profiles \cup {NoProfile}) \X Nat

ProcRecord ==
    [tool : {"none", "emulator", "translator"},
     at : {"free", "create", "load", "run", "truncate", "write", "unreadable"},
     profile : Profiles, existing : BOOLEAN,
     text : Seq(Pieces), off : Nat, stale : BOOLEAN]

\* The profile a process that saves has serialised.
Serialised(r) == r.text[1][1]

\* A process has a text from the end of its run to its last piece, every piece left; and
\* while it loads, which only translators do.
TextOK(r) ==
    /\ r.at = "create" => r.tool # "none"
    /\ r.at = "load" => r.tool = "translator"
    /\ IF r.at \in {"truncate", "write"}
       THEN /\ Serialised(r) \in Profiles /\ r.text = Text(Serialised(r))
            /\ r.off \in 0 .. Length(Serialised(r)) - 1
            /\ r.at = "truncate" => r.off = 0
       ELSE (r.at = "load" \/ r.text = <<>>) /\ r.off = 0

ProcsOK == proc \in [Procs -> ProcRecord] /\ \A p \in Procs : TextOK(proc[p])

\* A file that is written exists.
FileOK ==
    /\ file = [exists |-> file.exists, text |-> file.text] /\ file.exists \in BOOLEAN
    /\ file.text \in Seq(Pieces) /\ emptied \in BOOLEAN
    /\ ~ file.exists => file.text = <<>> /\ Writing = {}
    /\ saved \in Profiles \cup {NoProfile}
    /\ torn \in BOOLEAN /\ (torn => saved = NoProfile)

\* While no save is torn there is one writer at most, and the file holds what it has
\* written so far.
LoneWriter ==
    ~ torn => \A p \in Writing :
        /\ Writing = {p}
        /\ file.text = [i \in 1 .. proc[p].off |-> <<Serialised(proc[p]), i>>]

\* A translator, from load() to its last piece, behind whose back nobody wrote.
Unaware(r) ==
    /\ r.tool = "translator" /\ ~ r.stale /\ r.at \in {"load", "run", "truncate", "write"}
    /\ r.at = "load" => r.text # <<>>

\* The first pieces of the file.
Begun(t) ==
    /\ Len(t) \in Nat /\ Len(t) <= Len(file.text)
    /\ t = [i \in 1 .. Len(t) |-> file.text[i]]

\* Then nothing is torn, nobody else writes, and it has read the first pieces of the file,
\* or its profile is the saved one, or is serialised with the same targets and no higher
\* counters.
Fresh(p, r) ==
    /\ ~ torn /\ Writing \subseteq {p}
    /\ r.at = "run" => r.profile = Base
    /\ r.at = "load" => Begun(r.text)
    /\ r.at \in {"truncate", "write"} => /\ Serialised(r).counts <= Base.counts
                                         /\ Serialised(r).targets = Base.targets

FreshOK == \A p \in Procs : Unaware(proc[p]) => Fresh(p, proc[p])

IInv == ProcsOK /\ FileOK /\ LoneWriter /\ ProfileWhole /\ FreshOK

-----------------------------------------------------------------------------
\* A text has at least one piece, and two profiles never have the same text.
LEMMA TextFacts ==
    /\ \A d \in Profiles : Length(d) \in Nat \ {0}
    /\ \A d \in Profiles : Len(Text(d)) = Length(d) /\ Text(d)[1] = <<d, 1>> /\ Text(d) # <<>>
    /\ \A d \in Profiles : Text(d) \in Seq(Pieces)
    /\ \A d, e \in Profiles : Text(d) = Text(e) => d = e
<1>1. ASSUME NEW d \in Profiles PROVE Length(d) \in Nat \ {0}
  <2> DEFINE S == {f \in {"counts", "targets"} : d[f] > 0}
  <2>1. IsFiniteSet({"counts"} \cup {"targets"})
    BY FS_Singleton, FS_AddElement
  <2>2. IsFiniteSet(S)
    BY <2>1, FS_Subset
  <2> HIDE DEF S
  <2>3. Cardinality(S) \in Nat
    BY <2>2, FS_CardinalityType
  <2>4. QED
    BY <2>3 DEF Length, S
<1>2. ASSUME NEW d \in Profiles
      PROVE  Len(Text(d)) = Length(d) /\ Text(d)[1] = <<d, 1>> /\ Text(d) # <<>>
  <2>1. Length(d) \in Nat /\ 1 \in 1 .. Length(d)
    BY <1>1
  <2>2. QED
    BY <2>1 DEF Text
<1>3. ASSUME NEW d \in Profiles, NEW e \in Profiles, Text(d) = Text(e) PROVE d = e
  BY <1>2, <1>3
<1>4. ASSUME NEW d \in Profiles PROVE Text(d) \in Seq(Pieces)
  <2>1. Length(d) \in Nat /\ \A i \in 1 .. Length(d) : <<d, i>> \in Pieces
    BY <1>1 DEF Pieces
  <2>2. QED
    BY <2>1 DEF Text
<1>5. QED
  BY <1>1, <1>2, <1>3, <1>4

\* No pieces make up the empty text.
LEMMA EmptyText == \A d : [i \in 1 .. 0 |-> <<d, i>>] = <<>>
<1>1. 1 .. 0 = {}
  OBVIOUS
<1>2. QED
  BY <1>1

\* The next piece of a text, written behind the pieces before it.
LEMMA NextPiece ==
    ASSUME NEW d, NEW n \in Nat
    PROVE  WrittenAt([i \in 1 .. n |-> <<d, i>>], n + 1, <<d, n + 1>>)
           = [i \in 1 .. n + 1 |-> <<d, i>>]
<1> DEFINE f == [i \in 1 .. n |-> <<d, i>>]
<1>1. Len(f) = n /\ \A i \in 1 .. n : f[i] = <<d, i>>
  OBVIOUS
<1> HIDE DEF f
<1>2. WrittenAt(f, n + 1, <<d, n + 1>>) =
        [i \in 1 .. n + 1 |-> IF i = n + 1 THEN <<d, n + 1>>
                             ELSE IF i <= n THEN f[i] ELSE Hole]
  BY <1>1 DEF WrittenAt
<1>3. \A i \in 1 .. n + 1 : i # n + 1 => i <= n /\ i \in 1 .. n
  OBVIOUS
<1>4. QED
  BY <1>1, <1>2, <1>3 DEF f

\* A piece written anywhere leaves pieces and holes.
LEMMA WrittenPieces ==
    ASSUME NEW f \in Seq(Pieces), NEW o \in Nat \ {0}, NEW x \in Pieces
    PROVE  WrittenAt(f, o, x) \in Seq(Pieces)
<1> DEFINE n == IF o > Len(f) THEN o ELSE Len(f)
           y(i) == IF i = o THEN x ELSE IF i <= Len(f) THEN f[i] ELSE Hole
<1>1. n \in Nat /\ Hole \in Pieces
  BY DEF Hole, Pieces
<1>2. \A i \in 1 .. n : y(i) \in Pieces
  BY <1>1
<1>3. WrittenAt(f, o, x) = [i \in 1 .. n |-> y(i)]
  BY DEF WrittenAt
<1> HIDE DEF n, y
<1>4. QED
  BY <1>1, <1>2, <1>3

\* What load() makes of a file is a profile or an error; a whole one it reads as it was
\* saved, and an empty one as no counts.
LEMMA ParsedFacts ==
    /\ NoProfile \notin Profiles /\ NoCounts \in Profiles
    /\ \A f : Parsed(f) \subseteq Profiles \cup {NoProfile}
    /\ Parsed(<<>>) = {NoCounts}
    /\ \A d \in Profiles : Parsed(Text(d)) = {d}
<1>1. NoProfile \notin Profiles /\ NoCounts \in Profiles
  BY ProcessesAssumption DEF NoProfile, NoCounts, Profiles
<1>2. ASSUME NEW f PROVE Parsed(f) \subseteq Profiles \cup {NoProfile}
  BY <1>1 DEF Parsed
<1>3. Parsed(<<>>) = {NoCounts}
  BY DEF Parsed
<1>4. ASSUME NEW d \in Profiles PROVE Parsed(Text(d)) = {d}
  <2>1. Text(d) # <<>>
    BY TextFacts
  <2>2. (CHOOSE e \in Profiles : Text(e) = Text(d)) = d
    BY TextFacts
  <2>3. QED
    BY <2>1, <2>2 DEF Parsed
<1>5. QED
  BY <1>1, <1>2, <1>3, <1>4

\* What is serialised at the end of a run is a profile with the same targets and no
\* higher counters.
LEMMA PersistedFacts ==
    ASSUME NEW r \in ProcRecord
    PROVE  /\ Persisted(r) \in Profiles
           /\ Persisted(r).counts <= r.profile.counts
           /\ Persisted(r).targets = r.profile.targets
<1>1. /\ r.profile \in Profiles /\ r.profile.counts \in 0 .. MaxCount
      /\ r.profile.targets \in 0 .. MaxTargets
  BY DEF ProcRecord, Profiles
<1>2. \A n \in 0 .. MaxCount : n \div 2 \in 0 .. MaxCount /\ n \div 2 <= n
  BY ProcessesAssumption
<1>3. QED
  BY <1>1, <1>2 DEF Persisted, Profiles

\* The record of a process that is not there.
LEMMA FreeFacts == Free \in ProcRecord /\ TextOK(Free)
<1>1. NoCounts \in Profiles
  BY ParsedFacts
<1>2. QED
  BY <1>1 DEF Free, ProcRecord, TextOK

-----------------------------------------------------------------------------
\* The initial state satisfies the invariant.
LEMMA InitInv == Init => IInv
<1> SUFFICES ASSUME Init PROVE IInv
  OBVIOUS
<1>1. ProcsOK
  BY FreeFacts DEF Init, ProcsOK
<1>2. Writing = {} /\ \A p \in Procs : proc[p].at = "free"
  BY DEF Init, Writing, Free
<1>3. FileOK
  <2>1. <<>> \in Seq(Pieces)
    OBVIOUS
  <2>2. QED
    BY <1>2, <2>1 DEF Init, FileOK
<1>4. LoneWriter /\ ProfileWhole
  BY <1>2 DEF Init, LoneWriter, ProfileWhole
<1>5. FreshOK
  BY <1>2 DEF FreshOK, Unaware
<1>6. QED
  BY <1>1, <1>3, <1>4, <1>5 DEF IInv

\* A step that changes one process, neither from nor to its writing, and not the file.
LEMMA QuietStep ==
    ASSUME IInv, NEW p \in Procs, NEW r \in ProcRecord, TextOK(r), Set(p, r),
           proc[p].at # "write", r.at # "write", Unaware(r) => Fresh(p, r),
           UNCHANGED <<file, saved, emptied, torn>>
    PROVE  IInv'
<1>0. ProcsOK /\ FileOK /\ LoneWriter /\ ProfileWhole /\ FreshOK
  BY DEF IInv
<1>1. /\ proc' = [proc EXCEPT ![p] = r] /\ proc' \in [Procs -> ProcRecord]
      /\ proc'[p] = r /\ \A q \in Procs \ {p} : proc'[q] = proc[q]
  BY <1>0 DEF Set, ProcsOK
<1>2. ProcsOK'
  BY <1>0, <1>1 DEF ProcsOK
<1>3. Writing' = Writing /\ p \notin Writing /\ Base' = Base
  BY <1>1 DEF Writing, Base
<1>4. FileOK' /\ ProfileWhole'
  BY <1>0, <1>3 DEF FileOK, ProfileWhole
<1>5. LoneWriter'
  <2> SUFFICES ASSUME ~ torn, NEW q \in Writing
               PROVE  /\ Writing = {q}
                      /\ file.text = [i \in 1 .. proc'[q].off |-> <<Serialised(proc'[q]), i>>]
    BY <1>3 DEF LoneWriter
  <2>1. proc'[q] = proc[q]
    BY <1>1, <1>3 DEF Writing
  <2>2. QED
    BY <1>0, <2>1 DEF LoneWriter
<1>6. FreshOK'
  <2> SUFFICES ASSUME NEW q \in Procs, Unaware(proc[q])' PROVE Fresh(q, proc[q])'
    BY DEF FreshOK
  <2>1. Fresh(q, proc'[q])
    BY <1>0, <1>1 DEF FreshOK, Unaware
  <2>2. QED
    BY <1>3, <2>1 DEF Fresh, Serialised, Begun
<1>7. QED
  BY <1>2, <1>4, <1>5, <1>6 DEF IInv

\* A step that none of the profile's variables notices.
LEMMA UnnoticedStep ==
    ASSUME IInv, UNCHANGED <<proc, file, saved, emptied, torn>>
    PROVE  IInv'
<1>1. Writing' = Writing /\ Base' = Base
  BY DEF Writing, Base
<1>2. QED
  BY <1>1 DEF IInv, ProcsOK, FileOK, LoneWriter, ProfileWhole, FreshOK, Fresh, Begun

-----------------------------------------------------------------------------
\* What a load finds when nothing is torn and nobody writes: the saved profile.
LEMMA LoadsBase ==
    ASSUME IInv, ~ torn, Writing = {}
    PROVE  Parsed(file.text) = {Base} /\ Base \in Profiles
<1>1. saved \in Profiles \cup {NoProfile}
  BY DEF IInv, FileOK
<1>2. file.text = IF saved = NoProfile \/ emptied THEN <<>> ELSE Text(saved)
  BY DEF IInv, ProfileWhole
<1>3. QED
  BY <1>1, <1>2, ParsedFacts DEF Base

\* Opening the profile leaves a process that has nothing to lose yet.
LEMMA StartInv == ASSUME IInv, NEW p \in Procs, Start(p) PROVE IInv'
<1>1. PICK tool \in {"emulator", "translator"} :
        Set(p, [Free EXCEPT !.tool = tool,
                            !.at = IF file.exists THEN Opened(tool) ELSE "create"])
  BY DEF Start
<1> DEFINE r == [Free EXCEPT !.tool = tool,
                             !.at = IF file.exists THEN Opened(tool) ELSE "create"]
<1>2. r.tool = tool /\ r.at = (IF file.exists THEN Opened(tool) ELSE "create")
  BY DEF Free
<1>3. r.at \in {"run", "load", "create"} /\ (r.at = "run" => r.tool = "emulator")
  BY <1>2 DEF Opened
<1>4. r \in ProcRecord /\ TextOK(r)
  BY <1>2, <1>3, FreeFacts DEF ProcRecord, TextOK, Free, Opened
<1>5. ~ Unaware(r)
  BY <1>2, <1>3 DEF Unaware, Free
<1>6. proc[p].at # "write" /\ UNCHANGED <<file, saved, emptied, torn>> /\ Set(p, r)
  BY <1>1 DEF Start
<1> HIDE DEF r
<1>7. QED
  BY <1>3, <1>4, <1>5, <1>6, QuietStep

\* What a translator has read, if nobody wrote behind its back, are the first pieces of
\* a file that is whole.
LEMMA ReadsBase ==
    ASSUME IInv, NEW p \in Procs, proc[p].at = "load", ~ Behind(proc[p])
    PROVE  ~ torn /\ Writing = {} /\ Begun(proc[p].text)
<1>1. /\ proc[p] \in ProcRecord /\ TextOK(proc[p]) /\ FreshOK /\ p \notin Writing
      /\ file.text \in Seq(Pieces)
  BY DEF IInv, ProcsOK, FileOK, Writing
<1>2. CASE proc[p].text = <<>>
  <2>1. ~ torn /\ Writing = {}
    BY <1>2 DEF Behind
  <2>2. Len(file.text) \in Nat /\ <<>> = [i \in 1 .. 0 |-> file.text[i]]
    BY <1>1
  <2>3. QED
    BY <1>2, <2>1, <2>2 DEF Begun
<1>3. CASE proc[p].text # <<>>
  <2>1. Unaware(proc[p])
    BY <1>1, <1>3 DEF Unaware, Behind, TextOK
  <2>2. QED
    BY <1>1, <2>1 DEF FreshOK, Fresh
<1>4. QED
  BY <1>2, <1>3

\* At the end of the file it has read all of it.
LEMMA ReadsAll ==
    ASSUME file.text \in Seq(Pieces), NEW t, Begun(t), Len(t) >= Len(file.text)
    PROVE  t = file.text
<1> DEFINE f == file.text
<1>1. Len(f) \in Nat /\ Len(t) = Len(f)
  BY DEF Begun
<1>2. f = [i \in 1 .. Len(f) |-> f[i]]
  <2>1. f \in Seq(Pieces)
    OBVIOUS
  <2> HIDE DEF f
  <2>2. QED
    BY <2>1
<1>3. QED
  BY <1>1, <1>2 DEF Begun

\* A read goes on where the one before it ended.
LEMMA ReadInv == ASSUME IInv, NEW p \in Procs, Read(p) PROVE IInv'
<1> DEFINE o == proc[p]
           n == Len(o.text)
           t == Append(o.text, file.text[n + 1])
           r == [o EXCEPT !.text = t, !.stale = Behind(o)]
<1>0. o \in ProcRecord /\ TextOK(o) /\ torn \in BOOLEAN /\ file.text \in Seq(Pieces)
  BY DEF IInv, ProcsOK, FileOK
<1>1. o.at = "load" /\ n < Len(file.text) /\ Set(p, r) /\ UNCHANGED <<file, saved, emptied, torn>>
  BY DEF Read
<1>2. o.text \in Seq(Pieces) /\ n \in Nat /\ file.text[n + 1] \in Pieces
  BY <1>0, <1>1 DEF ProcRecord
<1>3. /\ t \in Seq(Pieces) /\ Len(t) = n + 1 /\ t[n + 1] = file.text[n + 1]
      /\ \A i \in 1 .. n : t[i] = o.text[i]
  BY <1>2
<1>4. Behind(o) \in BOOLEAN
  BY <1>0 DEF Behind, ProcRecord
<1> HIDE DEF t
<1>5. r \in ProcRecord /\ r.at = "load" /\ r.text = t /\ r.stale = Behind(o) /\ r.off = o.off
  BY <1>0, <1>1, <1>3, <1>4 DEF ProcRecord
<1>6. TextOK(r)
  BY <1>0, <1>1, <1>5 DEF TextOK, ProcRecord
<1>7. ASSUME Unaware(r) PROVE Fresh(p, r)
  <2>1. ~ torn /\ Writing = {} /\ Begun(o.text)
    BY <1>1, <1>5, <1>7, ReadsBase DEF Unaware
  <2>2. Begun(t)
    <3>1. \A i \in 1 .. n : o.text[i] = file.text[i]
      BY <2>1 DEF Begun
    <3>2. \A i \in 1 .. n + 1 : t[i] = file.text[i]
      BY <1>2, <1>3, <3>1
    <3>3. t = [i \in 1 .. n + 1 |-> t[i]]
      BY <1>3
    <3>4. n + 1 \in Nat /\ n + 1 <= Len(file.text)
      BY <1>0, <1>1, <1>2
    <3>5. QED
      BY <1>3, <3>2, <3>3, <3>4 DEF Begun
  <2>3. QED
    BY <1>5, <2>1, <2>2 DEF Fresh
<1> HIDE DEF r
<1>8. QED
  BY <1>1, <1>5, <1>6, <1>7, QuietStep

\* A load takes over what it has read, and knows whether that is whole.
LEMMA LoadInv == ASSUME IInv, NEW p \in Procs, load(p) PROVE IInv'
<1> DEFINE o == proc[p]
<1>0. o \in ProcRecord /\ TextOK(o) /\ torn \in BOOLEAN /\ file.text \in Seq(Pieces)
  BY DEF IInv, ProcsOK, FileOK
<1>1. PICK d \in Parsed(o.text) :
        Set(p, IF d = NoProfile THEN [Free EXCEPT !.at = "unreadable"]
               ELSE [o EXCEPT !.at = "run", !.profile = d, !.existing = (d # NoCounts),
                              !.text = <<>>, !.stale = Behind(o)])
  BY DEF load
<1>2. /\ o.at = "load" /\ Len(o.text) >= Len(file.text)
      /\ UNCHANGED <<file, saved, emptied, torn>>
  BY DEF load
<1>3. CASE d = NoProfile
  <2> DEFINE r == [Free EXCEPT !.at = "unreadable"]
  <2>1. r \in ProcRecord /\ TextOK(r) /\ r.at = "unreadable"
    BY FreeFacts DEF ProcRecord, TextOK, Free
  <2>2. ~ Unaware(r)
    BY <2>1 DEF Unaware
  <2>3. Set(p, r)
    BY <1>1, <1>3
  <2> HIDE DEF r
  <2>4. QED
    BY <1>2, <2>1, <2>2, <2>3, QuietStep
<1>4. CASE d # NoProfile
  <2> DEFINE r == [o EXCEPT !.at = "run", !.profile = d, !.existing = (d # NoCounts),
                            !.text = <<>>, !.stale = Behind(o)]
  <2>1. d \in Profiles /\ Behind(o) \in BOOLEAN /\ <<>> \in Seq(Pieces)
    <3>1. d \in Profiles
      BY <1>4, ParsedFacts
    <3>2. Behind(o) \in BOOLEAN
      BY <1>0 DEF Behind, ProcRecord
    <3>3. QED
      BY <3>1, <3>2
  <2>2. r \in ProcRecord
    BY <1>0, <2>1 DEF ProcRecord
  <2>3. r.at = "run" /\ r.profile = d /\ r.stale = Behind(o) /\ r.text = <<>> /\ r.off = o.off
    BY <1>0 DEF ProcRecord
  <2>4. TextOK(r)
    BY <1>0, <1>2, <2>3 DEF TextOK
  <2>5. Set(p, r)
    BY <1>1, <1>4
  <2> HIDE DEF r
  <2>6. ASSUME Unaware(r) PROVE Fresh(p, r)
    <3>1. ~ torn /\ Writing = {} /\ Begun(o.text)
      BY <1>2, <2>3, <2>6, ReadsBase DEF Unaware
    <3>2. o.text = file.text
      BY <1>0, <1>2, <3>1, ReadsAll
    <3>3. d = Base
      BY <3>1, <3>2, LoadsBase
    <3>4. QED
      BY <2>3, <3>1, <3>3 DEF Fresh
  <2>7. QED
    BY <1>2, <2>2, <2>3, <2>4, <2>5, <2>6, QuietStep
<1>5. QED
  BY <1>3, <1>4

\* Counting changes a profile that only its emulator has.
LEMMA RecordInv == ASSUME IInv, NEW p \in Procs, Record(p) PROVE IInv'
<1>0. proc[p] \in ProcRecord /\ TextOK(proc[p])
  BY DEF IInv, ProcsOK
<1>1. PICK jump \in {n \in {0, 1} : proc[p].profile.targets + n <= MaxTargets} :
        Set(p, [proc[p] EXCEPT !.profile = [counts |-> @.counts + 1, targets |-> @.targets + jump]])
  BY DEF Record
<1> DEFINE e == [counts |-> proc[p].profile.counts + 1,
                 targets |-> proc[p].profile.targets + jump]
           r == [proc[p] EXCEPT !.profile = e]
<1>2. /\ proc[p].at = "run" /\ proc[p].tool = "emulator"
      /\ proc[p].profile.counts < MaxCount /\ UNCHANGED <<file, saved, emptied, torn>>
  BY DEF Record
<1>3. e \in Profiles
  <2>1. proc[p].profile.counts \in 0 .. MaxCount /\ proc[p].profile.targets \in 0 .. MaxTargets
    BY <1>0 DEF ProcRecord, Profiles
  <2>2. jump \in {0, 1} /\ proc[p].profile.targets + jump <= MaxTargets
    OBVIOUS
  <2>3. /\ proc[p].profile.counts + 1 \in 0 .. MaxCount
        /\ proc[p].profile.targets + jump \in 0 .. MaxTargets
    <3>1. MaxCount \in Nat /\ MaxTargets \in Nat
      BY ProcessesAssumption
    <3>2. QED
      BY <1>2, <2>1, <2>2, <3>1
  <2>4. QED
    BY <2>3 DEF Profiles
<1>4. Set(p, r)
  BY <1>1
<1> HIDE DEF e
<1>5. r \in ProcRecord /\ r.at = "run" /\ r.tool = "emulator" /\ TextOK(r)
  BY <1>0, <1>2, <1>3 DEF ProcRecord, TextOK
<1> HIDE DEF r
<1>6. QED
  BY <1>2, <1>4, <1>5, QuietStep DEF Unaware

\* The end of a run serialises the profile; the file is as it was.
LEMMA ExitInv == ASSUME IInv, NEW p \in Procs, Exit(p) PROVE IInv'
<1> DEFINE d == Persisted(proc[p])
           r == [Free EXCEPT !.at = "truncate", !.tool = proc[p].tool, !.stale = proc[p].stale,
                             !.text = Text(d)]
<1>0. proc[p] \in ProcRecord /\ FreshOK
  BY DEF IInv, ProcsOK
<1>1. proc[p].at = "run" /\ Set(p, r) /\ UNCHANGED <<file, saved, emptied, torn>>
  BY DEF Exit
<1>2. d \in Profiles /\ d.counts <= proc[p].profile.counts /\ d.targets = proc[p].profile.targets
  BY <1>0, PersistedFacts
<1> HIDE DEF d
<1>3. /\ r.at = "truncate" /\ r.tool = proc[p].tool /\ r.stale = proc[p].stale
      /\ r.text = Text(d) /\ r.off = 0
  BY DEF Free
<1>4. r \in ProcRecord
  BY <1>0, <1>2, FreeFacts, TextFacts DEF ProcRecord, Free
<1> HIDE DEF r
<1>5. Serialised(r) = d
  BY <1>2, <1>3, TextFacts DEF Serialised
<1>6. TextOK(r)
  BY <1>2, <1>3, <1>5, TextFacts DEF TextOK
<1>7. ASSUME Unaware(r) PROVE Fresh(p, r)
  <2>1. Fresh(p, proc[p])
    BY <1>0, <1>1, <1>3, <1>7 DEF Unaware, FreshOK
  <2>2. QED
    BY <1>1, <1>2, <1>3, <1>5, <2>1 DEF Fresh
<1>8. QED
  BY <1>1, <1>3, <1>4, <1>6, <1>7, QuietStep

-----------------------------------------------------------------------------
\* Opening the file for writing: what the others have is as before, or stale.
LEMMA RewritingFacts ==
    ASSUME ProcsOK, NEW p \in Procs, NEW to \in {"load", "run", "write"}, Rewriting(p, to),
           proc[p].at = "create" => to # "write", to = "load" => proc[p].tool = "translator",
           proc[p].at \in {"create", "truncate"},
           proc[p].at = "truncate" => to = "write"
    PROVE  /\ ProcsOK'
           /\ proc'[p] = [proc[p] EXCEPT !.at = to]
           /\ \A q \in Procs \ {p} :
                /\ proc'[q].at = proc[q].at
                /\ proc'[q].tool = "translator" => proc'[q].stale
           /\ Writing' = IF to = "write" THEN Writing \cup {p} ELSE Writing
           /\ p \notin Writing
<1>1. proc \in [Procs -> ProcRecord] /\ \A q \in Procs : TextOK(proc[q])
  BY DEF ProcsOK
<1>2. proc' = [q \in Procs |-> IF q = p THEN [proc[p] EXCEPT !.at = to]
                               ELSE [proc[q] EXCEPT !.stale = @ \/ proc[q].tool = "translator"]]
  BY DEF Rewriting
<1>3. proc'[p] = [proc[p] EXCEPT !.at = to]
  BY <1>2
<1>4. proc'[p] \in ProcRecord /\ TextOK(proc'[p]) /\ proc'[p].at = to
  <2>1. proc[p] \in ProcRecord /\ TextOK(proc[p])
    BY <1>1
  <2>2. QED
    BY <1>3, <2>1 DEF ProcRecord, TextOK, Serialised
<1>5. ASSUME NEW q \in Procs \ {p}
      PROVE  /\ proc'[q] \in ProcRecord /\ TextOK(proc'[q]) /\ proc'[q].at = proc[q].at
             /\ proc'[q].tool = "translator" => proc'[q].stale
  <2>1. proc[q] \in ProcRecord /\ TextOK(proc[q])
    BY <1>1
  <2>2. proc'[q] = [proc[q] EXCEPT !.stale = proc[q].stale \/ proc[q].tool = "translator"]
    BY <1>2
  <2>3. proc[q].stale \in BOOLEAN /\ (proc[q].stale \/ proc[q].tool = "translator") \in BOOLEAN
    BY <2>1 DEF ProcRecord
  <2>4. QED
    BY <2>1, <2>2, <2>3 DEF ProcRecord, TextOK, Serialised
<1>6. ProcsOK'
  BY <1>2, <1>4, <1>5 DEF ProcsOK
<1>7. Writing' = (IF to = "write" THEN Writing \cup {p} ELSE Writing) /\ p \notin Writing
  BY <1>4, <1>5 DEF Writing
<1>8. QED
  BY <1>3, <1>5, <1>6, <1>7

\* A created file is empty, and whoever loaded another one is stale.
LEMMA CreateInv == ASSUME IInv, NEW p \in Procs, Create(p) PROVE IInv'
<1> DEFINE to == Opened(proc[p].tool)
<1>1. /\ proc[p].at = "create" /\ file' = [exists |-> TRUE, text |-> <<>>]
      /\ Rewriting(p, to) /\ torn' = (Writing # {}) /\ emptied' = TRUE
      /\ saved' = IF torn' THEN NoProfile ELSE saved
  BY DEF Create
<1>2. proc[p] \in ProcRecord /\ TextOK(proc[p]) /\ ProcsOK /\ FileOK
  BY DEF IInv, ProcsOK
<1>3. /\ to \in {"load", "run"} /\ (to = "run" => proc[p].tool = "emulator")
      /\ to = "load" => proc[p].tool = "translator"
  BY <1>1, <1>2 DEF Opened, TextOK, ProcRecord
<1> HIDE DEF to
<1>4. /\ ProcsOK' /\ Writing' = Writing
      /\ proc'[p] = [proc[p] EXCEPT !.at = to]
      /\ \A q \in Procs \ {p} : proc'[q].tool = "translator" => proc'[q].stale
  BY <1>1, <1>2, <1>3, RewritingFacts
<1>5. FileOK'
  BY <1>1, <1>2, <1>4 DEF FileOK
<1>6. LoneWriter' /\ ProfileWhole'
  BY <1>1, <1>4 DEF LoneWriter, ProfileWhole
<1>7. proc'[p].at = to /\ proc'[p].tool = proc[p].tool /\ proc'[p].text = <<>>
  BY <1>1, <1>2, <1>4 DEF ProcRecord, TextOK
<1>8. FreshOK'
  BY <1>3, <1>4, <1>7 DEF FreshOK, Unaware
<1>9. QED
  BY <1>4, <1>5, <1>6, <1>8 DEF IInv

\* A save begins with an empty file: alone, or torn.
LEMMA TruncateInv == ASSUME IInv, NEW p \in Procs, Truncate(p) PROVE IInv'
<1>1. /\ proc[p].at = "truncate" /\ file' = [exists |-> TRUE, text |-> <<>>]
      /\ Rewriting(p, "write") /\ torn' = (Writing # {})
      /\ saved' = (IF torn' THEN NoProfile ELSE saved) /\ emptied' = emptied
  BY DEF Truncate
<1>2. proc[p] \in ProcRecord /\ TextOK(proc[p]) /\ ProcsOK /\ FileOK /\ FreshOK
  BY DEF IInv, ProcsOK
<1>3. /\ ProcsOK' /\ Writing' = Writing \cup {p} /\ p \notin Writing
      /\ proc'[p] = [proc[p] EXCEPT !.at = "write"]
      /\ \A q \in Procs \ {p} : proc'[q].tool = "translator" => proc'[q].stale
  BY <1>1, <1>2, RewritingFacts
<1>4. /\ proc'[p].at = "write" /\ proc'[p].off = 0 /\ proc'[p].tool = proc[p].tool
      /\ proc'[p].stale = proc[p].stale /\ Serialised(proc'[p]) = Serialised(proc[p])
  BY <1>1, <1>2, <1>3 DEF ProcRecord, TextOK, Serialised
<1>5. FileOK'
  BY <1>1, <1>2 DEF FileOK
<1>6. ProfileWhole'
  BY <1>3 DEF ProfileWhole
<1>7. LoneWriter'
  <2>1. \A d : [i \in 1 .. 0 |-> <<d, i>>] = <<>>
    BY EmptyText
  <2>2. ASSUME ~ torn' PROVE Writing' = {p}
    BY <1>1, <1>3, <2>2
  <2>3. file'.text = [i \in 1 .. proc'[p].off |-> <<Serialised(proc'[p]), i>>]
    BY <1>1, <1>4, <2>1
  <2>4. QED
    BY <2>2, <2>3 DEF LoneWriter
<1>8. FreshOK'
  <2> SUFFICES ASSUME NEW q \in Procs, Unaware(proc[q])' PROVE Fresh(q, proc[q])'
    BY DEF FreshOK
  <2>1. q = p
    BY <1>3 DEF Unaware
  <2>2. Fresh(p, proc[p])
    BY <1>1, <1>2, <1>4, <2>1 DEF FreshOK, Unaware
  <2>3. Writing = {} /\ torn' = FALSE /\ saved' = saved /\ Base' = Base
    BY <1>1, <1>3, <2>2 DEF Fresh, Base
  <2>4. QED
    BY <1>1, <1>3, <1>4, <2>1, <2>2, <2>3 DEF Fresh
<1>9. QED
  BY <1>3, <1>5, <1>6, <1>7, <1>8 DEF IInv

\* A process that dies in a save tears it; any other leaves nothing behind.
LEMMA CrashInv == ASSUME IInv, NEW p \in Procs, Crash(p) PROVE IInv'
<1>1. /\ Set(p, Free) /\ torn' = (torn \/ proc[p].at = "write")
      /\ saved' = (IF torn' THEN NoProfile ELSE saved) /\ file' = file /\ emptied' = emptied
  BY DEF Crash
<1>2. ProcsOK /\ FileOK /\ FreshOK /\ Free.at = "free"
  BY DEF IInv, Free
<1>3. CASE proc[p].at # "write"
  <2>1. torn' = torn /\ saved' = saved
    BY <1>1, <1>2, <1>3 DEF FileOK
  <2>2. QED
    BY <1>1, <1>2, <1>3, <2>1, FreeFacts, QuietStep DEF Unaware
<1>4. CASE proc[p].at = "write"
  <2>1. torn' = TRUE /\ saved' = NoProfile
    BY <1>1, <1>4
  <2>2. proc' \in [Procs -> ProcRecord] /\ proc'[p] = Free /\ \A q \in Procs \ {p} : proc'[q] = proc[q]
    BY <1>1, <1>2, FreeFacts DEF Set, ProcsOK
  <2>3. ProcsOK'
    BY <1>2, <2>2, FreeFacts DEF ProcsOK
  <2>4. Writing' = Writing \ {p} /\ p \in Writing
    BY <1>2, <1>4, <2>2 DEF Writing
  <2>5. FileOK' /\ LoneWriter' /\ ProfileWhole'
    BY <1>1, <1>2, <2>1, <2>4 DEF FileOK, LoneWriter, ProfileWhole
  <2>6. FreshOK'
    <3> SUFFICES ASSUME NEW q \in Procs, Unaware(proc[q])' PROVE FALSE
      BY DEF FreshOK
    <3>1. q # p
      BY <1>2, <2>2 DEF Unaware
    <3>2. Fresh(q, proc[q])
      BY <1>2, <2>2, <3>1 DEF FreshOK, Unaware
    <3>3. QED
      BY <2>4, <3>1, <3>2 DEF Fresh
  <2>7. QED
    BY <2>3, <2>5, <2>6 DEF IInv
<1>5. QED
  BY <1>3, <1>4

\* A piece goes behind those before it; the last one makes the text whole.
LEMMA WriteInv == ASSUME IInv, NEW p \in Procs, WriteText(p) PROVE IInv'
<1> DEFINE r == proc[p]
           d == Serialised(r)
           n == r.off
           done == n + 1 = Len(r.text)
           s == IF done THEN Free ELSE [r EXCEPT !.off = n + 1]
<1>0. ProcsOK /\ FileOK /\ LoneWriter /\ FreshOK
  BY DEF IInv
<1>1. /\ r.at = "write" /\ Set(p, s)
      /\ file' = [file EXCEPT !.text = WrittenAt(@, n + 1, r.text[n + 1])]
      /\ saved' = (IF done /\ ~ torn THEN d ELSE saved) /\ torn' = torn
      /\ emptied' = (emptied /\ ~ done)
  BY DEF WriteText, Serialised
<1>2. /\ r \in ProcRecord /\ d \in Profiles /\ r.text = Text(d)
      /\ n \in 0 .. Length(d) - 1
  BY <1>0, <1>1 DEF ProcsOK, TextOK
<1>3. /\ Length(d) \in Nat /\ Len(r.text) = Length(d) /\ r.text[n + 1] = <<d, n + 1>>
      /\ n \in Nat /\ (~ done => n + 1 \in 0 .. Length(d) - 1)
  <2>1. Length(d) \in Nat /\ Len(r.text) = Length(d)
    BY <1>2, TextFacts
  <2>2. n \in Nat /\ n + 1 \in 1 .. Length(d)
    BY <1>2, <2>1
  <2>3. r.text[n + 1] = <<d, n + 1>>
    BY <1>2, <2>2 DEF Text
  <2>4. QED
    BY <2>1, <2>2, <2>3
<1>4. /\ s \in ProcRecord /\ TextOK(s)
      /\ done => s.at = "free"
      /\ ~ done => /\ s.at = "write" /\ s.off = n + 1 /\ Serialised(s) = d
                   /\ s.tool = r.tool /\ s.stale = r.stale
  <2>1. CASE done
    BY <2>1, FreeFacts DEF Free
  <2>2. CASE ~ done
    <3>1. s = [r EXCEPT !.off = n + 1]
      BY <2>2
    <3>2. /\ s \in ProcRecord /\ s.at = "write" /\ s.off = n + 1 /\ s.text = r.text
          /\ s.tool = r.tool /\ s.stale = r.stale
      BY <1>1, <1>2, <1>3, <3>1 DEF ProcRecord
    <3>3. Serialised(s) = d
      BY <3>2 DEF Serialised
    <3>4. QED
      BY <1>2, <1>3, <2>2, <3>2, <3>3 DEF TextOK
  <2>3. QED
    BY <2>1, <2>2
<1> HIDE DEF s, d
<1>5. /\ proc' \in [Procs -> ProcRecord] /\ proc'[p] = s
      /\ \A q \in Procs \ {p} : proc'[q] = proc[q]
  BY <1>0, <1>1, <1>4 DEF Set, ProcsOK
<1>6. ProcsOK'
  BY <1>0, <1>4, <1>5 DEF ProcsOK
<1>7. p \in Writing /\ Writing' = IF done THEN Writing \ {p} ELSE Writing
  BY <1>1, <1>4, <1>5 DEF Writing
<1>8. FileOK'
  <2>1. file.text \in Seq(Pieces) /\ <<d, n + 1>> \in Pieces /\ n + 1 \in Nat \ {0}
    BY <1>0, <1>2, <1>3 DEF FileOK, Pieces
  <2>2. WrittenAt(file.text, n + 1, r.text[n + 1]) \in Seq(Pieces)
    BY <1>3, <2>1, WrittenPieces
  <2>3. file' = [exists |-> file.exists, text |-> WrittenAt(file.text, n + 1, r.text[n + 1])]
    BY <1>0, <1>1 DEF FileOK
  <2>4. emptied' \in BOOLEAN /\ file.exists
    BY <1>0, <1>1, <1>7 DEF FileOK
  <2>5. saved' \in Profiles \cup {NoProfile} /\ (torn' => saved' = NoProfile)
    BY <1>0, <1>1, <1>2 DEF FileOK
  <2> HIDE DEF r, n, done
  <2>6. QED
    BY <1>0, <1>1, <2>2, <2>3, <2>4, <2>5 DEF FileOK
<1>9. ASSUME ~ torn
      PROVE  Writing = {p} /\ file'.text = [i \in 1 .. n + 1 |-> <<d, i>>]
  <2>1. Writing = {p} /\ file.text = [i \in 1 .. n |-> <<d, i>>]
    BY <1>0, <1>7, <1>9 DEF LoneWriter, d
  <2>2. file'.text = WrittenAt(file.text, n + 1, <<d, n + 1>>)
    BY <1>0, <1>1, <1>3 DEF FileOK
  <2>3. WrittenAt([i \in 1 .. n |-> <<d, i>>], n + 1, <<d, n + 1>>) = [i \in 1 .. n + 1 |-> <<d, i>>]
    BY <1>3, NextPiece, Zenon
  <2>4. QED
    BY <2>1, <2>2, <2>3, Zenon
<1>10. LoneWriter'
  <2> SUFFICES ASSUME ~ torn, ~ done, NEW q \in Writing'
               PROVE  /\ Writing' = {q}
                      /\ file'.text = [i \in 1 .. proc'[q].off |-> <<Serialised(proc'[q]), i>>]
    BY <1>1, <1>7, <1>9 DEF LoneWriter
  <2>1. q = p /\ Writing' = {p}
    BY <1>7, <1>9
  <2>2. QED
    BY <1>4, <1>5, <1>9, <2>1
<1>11. ProfileWhole'
  <2> SUFFICES ASSUME ~ torn, Writing' = {}
               PROVE  file'.text = IF saved' = NoProfile \/ emptied' THEN <<>> ELSE Text(saved')
    BY <1>1 DEF ProfileWhole
  <2>1. done
    BY <1>7
  <2>2. saved' = d /\ d # NoProfile /\ ~ emptied'
    BY <1>1, <1>2, <2>1, ParsedFacts
  <2>3. file'.text = Text(d)
    BY <1>3, <1>9, <2>1 DEF Text
  <2>4. QED
    BY <2>2, <2>3
<1>12. FreshOK'
  <2> SUFFICES ASSUME NEW q \in Procs, Unaware(proc[q])' PROVE Fresh(q, proc[q])'
    BY DEF FreshOK
  <2>1. q = p
    <3> SUFFICES ASSUME q # p PROVE FALSE
      OBVIOUS
    <3>1. Fresh(q, proc[q])
      BY <1>0, <1>5 DEF FreshOK, Unaware
    <3>2. QED
      BY <1>7, <3>1 DEF Fresh
  <2>2. ~ done /\ Fresh(p, r)
    BY <1>0, <1>1, <1>4, <1>5, <2>1 DEF FreshOK, Unaware
  <2>3. Writing' = Writing /\ saved' = saved /\ Base' = Base
    BY <1>1, <1>7, <2>2 DEF Base
  <2>4. QED
    BY <1>1, <1>4, <1>5, <2>1, <2>2, <2>3 DEF Fresh, d
<1>13. QED
  BY <1>6, <1>8, <1>10, <1>11, <1>12 DEF IInv

\* A child is one more emulator with the profile of its parent.
LEMMA CloneInv == ASSUME IInv, NEW p \in Procs, clone(p) PROVE IInv'
<1>1. proc[p].at = "run" /\ proc[p].tool = "emulator" /\ UNCHANGED <<file, saved, emptied, torn>>
  BY DEF clone, Calls
<1>2. CASE UNCHANGED proc
  BY <1>1, <1>2, UnnoticedStep
<1>3. ASSUME NEW q \in Procs, proc[q].at = "free", Set(q, proc[p]) PROVE IInv'
  <2>1. proc[p] \in ProcRecord /\ TextOK(proc[p])
    BY DEF IInv, ProcsOK
  <2>2. QED
    BY <1>1, <1>3, <2>1, QuietStep DEF Unaware
<1>4. QED
  BY <1>2, <1>3 DEF clone

\* A process that execs is gone, and its profile with it.
LEMMA ExecveInv == ASSUME IInv, NEW p \in Procs, execve(p) PROVE IInv'
<1>1. proc[p].at = "run" /\ UNCHANGED <<file, saved, emptied, torn>> /\ Free.at = "free"
  BY DEF execve, Calls, Free
<1>2. CASE UNCHANGED proc
  BY <1>1, <1>2, UnnoticedStep
<1>3. CASE Set(p, Free)
  BY <1>1, <1>3, FreeFacts, QuietStep DEF Unaware
<1>4. QED
  BY <1>2, <1>3 DEF execve

\* Every step keeps the invariant.
LEMMA StepInv == IInv /\ [Next]_vars => IInv'
<1> SUFFICES ASSUME IInv, [Next]_vars PROVE IInv'
  OBVIOUS
<1>1. ASSUME NEW p \in Procs, writev(p) \/ OtherCall(p) PROVE IInv'
  <2>1. UNCHANGED <<proc, file, saved, emptied, torn>>
    BY <1>1 DEF writev, OtherCall
  <2>2. QED
    BY <2>1, UnnoticedStep
<1>2. CASE UNCHANGED vars
  BY <1>2, UnnoticedStep DEF vars
<1>3. QED
  BY <1>1, <1>2, StartInv, CreateInv, ReadInv, LoadInv, RecordInv, ExitInv, TruncateInv, WriteInv,
     CrashInv, CloneInv, ExecveInv DEF Next

\* The inductive invariant holds whatever the processes do.
THEOREM Invariant == Spec => []IInv
<1>1. QED
  BY InitInv, StepInv, PTL DEF Spec

\* The state of the processes and of the file is well typed; a stream's offset never
\* leaves the text it writes.
THEOREM TypeCorrect == Spec => []TypeOK
<1>1. ASSUME IInv PROVE TypeOK
  <2>1. ASSUME NEW p \in Procs
        PROVE  /\ proc[p].at \in {"free", "create", "load", "run", "truncate", "write", "unreadable"}
               /\ proc[p].profile \in Profiles
               /\ proc[p].off \in 0 .. Len(proc[p].text)
    <3>1. proc[p] \in ProcRecord /\ TextOK(proc[p])
      BY <1>1 DEF IInv, ProcsOK
    <3>2. proc[p].off \in 0 .. Len(proc[p].text)
      <4>1. CASE proc[p].at \in {"truncate", "write"}
        BY <3>1, <4>1, TextFacts DEF TextOK
      <4>2. CASE proc[p].at \notin {"truncate", "write"}
        BY <3>1, <4>2 DEF TextOK, ProcRecord
      <4>3. QED
        BY <4>1, <4>2
    <3>3. QED
      BY <3>1, <3>2 DEF ProcRecord
  <2>2. QED
    BY <1>1, <2>1 DEF TypeOK, IInv, FileOK
<1>2. QED
  BY <1>1, Invariant, PTL

\* Whatever processes start, fork, exec, exit and die: the file that no save is in is the
\* profile of the last save, unless a save was cut short or two of them overlapped
\* (ProfilingInfo::save truncates and rewrites the file without a lock); or empty, if since
\* then a process that had found no file came to create it (ProfilingInfo::openFile).
THEOREM FileIsLastSave == Spec => []ProfileWhole
<1>1. IInv => ProfileWhole
  BY DEF IInv
<1>2. QED
  BY <1>1, Invariant, PTL

-----------------------------------------------------------------------------
\* What a step does to the process that takes it, as far as it ends a load or a save.
LEMMA WhoEnds ==
    ASSUME IInv, Next, NEW p \in Procs
    PROVE  /\ proc[p].at = "load" /\ proc'[p].at = "unreadable" => load(p)
           /\ proc[p].at = "write" /\ proc'[p].at = "free" => WriteText(p) \/ Crash(p)
<1>0. proc \in [Procs -> ProcRecord]
  BY DEF IInv, ProcsOK
<1>1. ASSUME NEW q \in Procs, NEW r, Set(q, r), p # q PROVE proc'[p] = proc[p]
  BY <1>0, <1>1 DEF Set
<1>2. ASSUME NEW q \in Procs, NEW r, Set(q, r) PROVE proc'[q] = r
  BY <1>0, <1>2 DEF Set
<1>3. ASSUME NEW q \in Procs, NEW to \in {"load", "run", "write"}, Rewriting(q, to)
      PROVE  proc'[p].at = IF p = q THEN to ELSE proc[p].at
  BY <1>0, <1>3 DEF Rewriting, ProcRecord
<1>4. PICK q \in Procs :
        \/ Start(q) \/ Create(q) \/ Read(q) \/ load(q) \/ Record(q)
        \/ Exit(q) \/ Truncate(q) \/ WriteText(q) \/ Crash(q)
        \/ clone(q) \/ execve(q) \/ writev(q) \/ OtherCall(q)
  BY DEF Next
<1>5. CASE Create(q) \/ Truncate(q)
  <2>1. Opened(proc[q].tool) \in {"load", "run", "write"}
    BY DEF Opened
  <2>2. QED
    BY <1>3, <1>5, <2>1 DEF Create, Truncate
<1>6. CASE Start(q) \/ Record(q) \/ Exit(q)
  BY <1>1, <1>6 DEF Start, Record, Exit
<1>6a. CASE Read(q)
  <2>1. p = q => proc'[p].at = "load"
    BY <1>0, <1>2, <1>6a DEF Read, ProcRecord
  <2>2. QED
    BY <1>1, <1>6a, <2>1 DEF Read
<1>7. CASE load(q) \/ WriteText(q) \/ Crash(q)
  <2>1. \E r : Set(q, r)
    BY <1>7 DEF load, WriteText, Crash
  <2>2. CASE p # q
    BY <1>1, <2>1, <2>2
  <2>3. load(p) => proc[p].at = "load"
    BY DEF load
  <2>4. WriteText(p) => proc[p].at = "write"
    BY DEF WriteText
  <2>5. Crash(p) => proc'[p].at = "free"
    BY <1>2 DEF Crash, Free
  <2>6. QED
    BY <1>7, <2>2, <2>3, <2>4, <2>5
<1>8. CASE clone(q) \/ execve(q)
  BY <1>1, <1>2, <1>8 DEF clone, execve, Calls
<1>9. CASE writev(q) \/ OtherCall(q)
  BY <1>9 DEF writev, OtherCall
<1>10. QED
  BY <1>4, <1>5, <1>6, <1>6a, <1>7, <1>8, <1>9

\* A translator meets a profile it cannot parse only if it began to read during a save or
\* after a torn one, or the file was opened for writing while it read: what
\* ProfilingInfo::save leaves behind, and the empty file openFile() makes, are always
\* readable.
THEOREM LoadsWhatWasSaved == Spec => ReadableUnlessTorn
<1> DEFINE A == \A p \in Procs :
              proc'[p].at = "unreadable" /\ proc[p].at = "load" => Behind(proc[p])
<1>1. ASSUME IInv, [Next]_vars PROVE [A]_vars
  <2>1. ASSUME Next, NEW p \in Procs, proc'[p].at = "unreadable", proc[p].at = "load",
               ~ Behind(proc[p])
        PROVE  FALSE
    <3>1. load(p)
      BY <1>1, <2>1, WhoEnds
    <3>2. proc \in [Procs -> ProcRecord] /\ file.text \in Seq(Pieces)
      BY <1>1 DEF IInv, ProcsOK, FileOK
    <3>3. Parsed(file.text) = {Base} /\ Base \in Profiles /\ NoProfile \notin Profiles
      BY <1>1, <2>1, ReadsBase, LoadsBase, ParsedFacts
    <3>4. proc[p].text = file.text
      BY <1>1, <2>1, <3>1, <3>2, ReadsBase, ReadsAll DEF load
    <3>5. proc' = [proc EXCEPT ![p] =
                    [proc[p] EXCEPT !.at = "run", !.profile = Base, !.existing = (Base # NoCounts),
                                    !.text = <<>>, !.stale = Behind(proc[p])]]
      BY <3>1, <3>3, <3>4 DEF load, Set
    <3>6. proc'[p].at = "run"
      BY <3>2, <3>5 DEF ProcRecord
    <3>7. QED
      BY <2>1, <3>6
  <2>2. QED
    BY <1>1, <2>1
<1>2. QED
  BY <1>1, Invariant, PTL DEF Spec, ReadableUnlessTorn

\* A translation costs no branch target and raises no counter: what the translator writes
\* back has the targets of the profile it replaces (ProfilingInfo's appendMode halves the
\* counters only), unless another process wrote the file since it was loaded.
THEOREM WriteBackKeepsTargets == Spec => TranslationKeepsTargets
<1> DEFINE A == \A p \in Procs :
              /\ proc[p].tool = "translator" /\ proc[p].at = "write" /\ proc'[p].at = "free"
              /\ ~ proc[p].stale /\ ~ torn'
              => saved'.counts <= Base.counts /\ saved'.targets = Base.targets
<1>1. ASSUME IInv, [Next]_vars PROVE [A]_vars
  <2>1. ASSUME Next, NEW p \in Procs, proc[p].tool = "translator", proc[p].at = "write",
               proc'[p].at = "free", ~ proc[p].stale, ~ torn'
        PROVE  saved'.counts <= Base.counts /\ saved'.targets = Base.targets
    <3>1. WriteText(p)
      BY <1>1, <2>1, WhoEnds DEF Crash
    <3>2. proc \in [Procs -> ProcRecord] /\ Fresh(p, proc[p])
      BY <1>1, <2>1 DEF IInv, ProcsOK, FreshOK, Unaware
    <3>3. proc[p].off + 1 = Len(proc[p].text)
      BY <2>1, <3>1, <3>2 DEF WriteText, Set, ProcRecord
    <3>4. saved' = Serialised(proc[p])
      BY <3>1, <3>2, <3>3 DEF WriteText, Fresh, Serialised
    <3>5. QED
      BY <2>1, <3>2, <3>4 DEF Fresh
  <2>2. QED
    BY <1>1, <2>1
<1>2. QED
  BY <1>1, Invariant, PTL DEF Spec, TranslationKeepsTargets

-----------------------------------------------------------------------------
(* writev *)

\* A nonempty set of naturals has a least element.
LEMMA LeastNat ==
    ASSUME NEW S \in SUBSET Nat, S # {}
    PROVE  \E n \in S : \A m \in S : n <= m
<1> DEFINE R == {ss \in Nat \X Nat : ss[1] < ss[2]}
<1>1. IsWellFoundedOn(R, Nat)
  BY NatLessThanWellFounded, Zenon DEF OpToRel
<1>2. PICK x \in S : \A y \in S : ~ (<<y, x>> \in R)
  <2> HIDE DEF R
  <2> QED
    BY <1>1, WFMin, Zenon
<1>3. ASSUME NEW y \in S PROVE x <= y
  <2>1. x \in Nat /\ y \in Nat
    OBVIOUS
  <2>2. y < x => <<y, x>> \in R
    BY <2>1
  <2>3. ~ (y < x)
    BY <1>2, <2>2
  <2> HIDE DEF R
  <2>4. QED
    BY <2>1, <2>3
<1>4. QED
  BY <1>3

NoRound == [left |-> FALSE, a0 |-> 0, pos |-> 0, written |-> <<>>]
IsRounds(f, v, taken, n) ==
    f = [k \in 0 .. n |-> IF k = 0 THEN NoRound ELSE Round(f[k - 1], v[k], taken[k])]

\* The recursive function behind Rounds exists.
LEMMA RoundsExist ==
    ASSUME NEW v, NEW taken, NEW n \in Nat
    PROVE  \E f : IsRounds(f, v, taken, n)
<1> DEFINE G(c, k) == Round(c, v[k], taken[k])
           F(m) == \E f : f = [k \in 0 .. m |-> IF k = 0 THEN NoRound ELSE G(f[k - 1], k)]
           Bad == {m \in Nat : ~ F(m)}
<1> HIDE DEF G
<1>1. SUFFICES ASSUME Bad # {} PROVE FALSE
  <2>1. n \notin Bad
    BY <1>1
  <2>2. F(n)
    BY <2>1
  <2>3. QED
    BY <2>2 DEF G, IsRounds
<1>2. PICK m \in Bad : \A k \in Bad : m <= k
  <2>1. Bad \in SUBSET Nat
    OBVIOUS
  <2> HIDE DEF Bad
  <2>2. QED
    BY <1>1, <2>1, LeastNat
<1>3. m \in Nat /\ ~ F(m)
  OBVIOUS
<1>4. m # 0
  <2> DEFINE f == [k \in 0 .. 0 |-> NoRound]
  <2>1. f = [k \in 0 .. 0 |-> IF k = 0 THEN NoRound ELSE G(f[k - 1], k)]
    OBVIOUS
  <2>2. F(0)
    <3> HIDE DEF f
    <3> QED
      BY <2>1
  <2>3. QED
    BY <1>3, <2>2
<1>5. m - 1 \in Nat /\ F(m - 1)
  <2>1. m - 1 \in Nat /\ ~ (m <= m - 1)
    BY <1>3, <1>4
  <2>2. m - 1 \notin Bad
    <3> HIDE DEF Bad
    <3> QED
      BY <1>2, <2>1
  <2>3. QED
    BY <2>1, <2>2
<1>6. PICK f : f = [k \in 0 .. m - 1 |-> IF k = 0 THEN NoRound ELSE G(f[k - 1], k)]
  BY <1>5
<1> DEFINE g == [k \in 0 .. m |-> IF k = m THEN G(f[m - 1], m) ELSE f[k]]
<1>7. ASSUME NEW k \in 0 .. m
      PROVE  g[k] = IF k = 0 THEN NoRound ELSE G(g[k - 1], k)
  <2>1. CASE k = m
    <3>1. g[k] = G(f[m - 1], m) /\ k # 0
      BY <1>4, <2>1
    <3>2. m - 1 \in 0 .. m /\ m - 1 # m
      BY <1>5, <1>3
    <3>3. g[k - 1] = f[m - 1]
      BY <2>1, <3>2
    <3>4. QED
      BY <2>1, <3>1, <3>3
  <2>2. CASE k # m
    <3>1. k \in 0 .. m - 1
      BY <2>2, <1>3
    <3>2. g[k] = f[k]
      BY <2>2
    <3>3. f[k] = IF k = 0 THEN NoRound ELSE G(f[k - 1], k)
      BY <3>1, <1>6
    <3>4. k # 0 => k - 1 \in 0 .. m /\ k - 1 # m
      BY <3>1, <1>3
    <3>5. k # 0 => g[k - 1] = f[k - 1]
      BY <3>4
    <3> HIDE DEF g
    <3>6. QED
      BY <3>2, <3>3, <3>5
  <2>3. QED
    BY <2>1, <2>2
<1>8. g = [k \in 0 .. m |-> IF k = 0 THEN NoRound ELSE G(g[k - 1], k)]
  <2>1. g = [k \in 0 .. m |-> g[k]]
    OBVIOUS
  <2> HIDE DEF g
  <2>2. QED
    BY <1>7, <2>1
<1>9. F(m)
  <2> HIDE DEF g
  <2> QED
    BY <1>8
<1>10. QED
  BY <1>3, <1>9

\* The loop starts with nothing written, and each round goes on from the one before.
LEMMA RoundsFacts ==
    ASSUME NEW v \in Seq(Nat), NEW taken, NEW n, n = Len(v)
    PROVE  /\ n \in Nat
           /\ Rounds(v, taken)[0] = NoRound
           /\ \A k \in 1 .. n :
                 Rounds(v, taken)[k] = Round(Rounds(v, taken)[k - 1], v[k], taken[k])
<1> DEFINE f == Rounds(v, taken)
<1>1. n \in Nat
  OBVIOUS
<1>2. IsRounds(f, v, taken, n)
  <2>1. \E c : IsRounds(c, v, taken, n)
    BY <1>1, RoundsExist
  <2>2. QED
    BY <2>1, Zenon DEF Rounds, NoRound, IsRounds
<1> HIDE DEF f
<1>3. f[0] = NoRound
  BY <1>1, <1>2 DEF IsRounds
<1>4. ASSUME NEW k \in 1 .. n PROVE f[k] = Round(f[k - 1], v[k], taken[k])
  BY <1>1, <1>2 DEF IsRounds
<1>5. QED
  BY <1>1, <1>3, <1>4 DEF f

\* The first n places of a vector.
Prefix(n) == [i \in 1 .. n |-> i]

\* What came out after some rounds: it is a prefix of the vector, of the length that the
\* sum tells if the sum fits, and of all entries so far if the loop goes on.
RoundOK(c) ==
    /\ c = [left |-> c.left, a0 |-> c.a0, pos |-> c.pos, written |-> c.written]
    /\ c.left \in BOOLEAN /\ c.a0 \in Int /\ c.pos \in Nat
    /\ \E m \in Nat :
          /\ c.written = Prefix(m)
          /\ m <= MaxInt => c.a0 = m \/ (c.left /\ m = 0 /\ c.a0 < 0)
          /\ ~ c.left => m = c.pos

\* A prefix with what follows it.
LEMMA PrefixGrows ==
    ASSUME NEW m \in Nat, NEW n \in Nat
    PROVE  Prefix(m) \o [i \in 1 .. n |-> m + i] = Prefix(m + n)
<1> DEFINE p == Prefix(m)
           q == [i \in 1 .. n |-> m + i]
<1>1. /\ p \in Seq(Int) /\ Len(p) = m /\ \A i \in 1 .. m : p[i] = i
  BY DEF Prefix
<1>2. q \in Seq(Int) /\ Len(q) = n /\ \A i \in 1 .. n : q[i] = m + i
  OBVIOUS
<1> HIDE DEF p, q
<1>3. p \o q = [i \in 1 .. m + n |-> IF i <= m THEN p[i] ELSE q[i - m]]
  <2>1. p \o q \in Seq(Int) /\ Len(p \o q) = m + n
    <3>1. p \in Seq(Int) /\ q \in Seq(Int)
      BY <1>1, <1>2
    <3>2. p \o q \in Seq(Int)
      BY <3>1
    <3>3. Len(p \o q) = Len(p) + Len(q)
      BY <3>1
    <3>4. QED
      BY <1>1, <1>2, <3>2, <3>3
  <2>2. ASSUME NEW i \in 1 .. m + n
        PROVE  (p \o q)[i] = IF i <= m THEN p[i] ELSE q[i - m]
    BY <1>1, <1>2
  <2>3. p \o q = [i \in 1 .. m + n |-> (p \o q)[i]]
    <3> DEFINE r == p \o q
    <3>1. r \in Seq(Int) /\ Len(r) = m + n
      BY <2>1
    <3> HIDE DEF r
    <3>2. r = [i \in 1 .. m + n |-> r[i]]
      BY <3>1
    <3>3. QED
      BY <3>2 DEF r
  <2>4. QED
    BY <2>2, <2>3
<1>4. ASSUME NEW i \in 1 .. m + n PROVE (IF i <= m THEN p[i] ELSE q[i - m]) = i
  <2>1. CASE i <= m
    BY <1>1, <2>1
  <2>2. CASE ~ (i <= m)
    <3>1. i - m \in 1 .. n /\ m + (i - m) = i
      BY <2>2
    <3>2. QED
      BY <1>2, <2>2, <3>1
  <2>3. QED
    BY <2>1, <2>2
<1>5. QED
  BY <1>3, <1>4 DEF Prefix, p, q

\* Sums that fit are not changed.
LEMMA SignedFits == \A n \in Int : Signed(n) \in Int /\ (n \in 0 .. MaxInt => Signed(n) = n)
<1> DEFINE w == 2 * (MaxInt + 1)
<1>1. MaxInt \in Nat /\ w \in Nat /\ w > 0
  BY ProcessesAssumption
<1>2. ASSUME NEW n \in Int PROVE Signed(n) \in Int
  BY <1>1 DEF Signed
<1>3. ASSUME NEW n \in 0 .. MaxInt PROVE Signed(n) = n
  <2> DEFINE x == n + MaxInt + 1
  <2>1. x \in Nat /\ x < w
    BY <1>1
  <2>2. x % w = x
    <3> HIDE DEF x, w
    <3> QED
      BY <1>1, <2>1
  <2>3. QED
    BY <1>1, <2>2 DEF Signed
<1>4. QED
  BY <1>2, <1>3

\* The account of a round from its parts.
LEMMA RoundIs ==
    ASSUME NEW l \in BOOLEAN, NEW a \in Int, NEW p \in Nat, NEW w, NEW m \in Nat, w = Prefix(m),
           m <= MaxInt => a = m \/ (l /\ m = 0 /\ a < 0), ~ l => m = p,
           NEW c, c = [left |-> l, a0 |-> a, pos |-> p, written |-> w]
    PROVE  RoundOK(c)
<1>1. c.left = l /\ c.a0 = a /\ c.pos = p /\ c.written = w
  OBVIOUS
<1>2. c = [left |-> c.left, a0 |-> c.a0, pos |-> c.pos, written |-> c.written]
  BY <1>1
<1>3. QED
  BY <1>1, <1>2, Zenon DEF RoundOK

\* A round keeps the account, whatever the host takes of the entry.
LEMMA RoundKeeps ==
    ASSUME NEW c, RoundOK(c), NEW len \in Nat, NEW n \in Outcomes(len)
    PROVE  RoundOK(Round(c, len, n))
<1>1. n \in Int /\ (n >= 0 => n \in Nat /\ n <= len)
  BY DEF Outcomes
<1> DEFINE l == c.left
           a == c.a0
           p == c.pos
           w == c.written
<1>2. /\ c = [left |-> l, a0 |-> a, pos |-> p, written |-> w]
      /\ l \in BOOLEAN /\ a \in Int /\ p \in Nat
  BY DEF RoundOK
<1>3. PICK m \in Nat : /\ w = Prefix(m)
                       /\ m <= MaxInt => a = m \/ (l /\ m = 0 /\ a < 0)
                       /\ ~ l => m = p
  BY DEF RoundOK
<1>4. CASE c.left
  BY <1>4 DEF Round
<1>5. CASE ~ c.left /\ n < 0
  <2> DEFINE b == IF a = 0 THEN -Errno ELSE a
  <2>1. Round(c, len, n) = [c EXCEPT !.left = TRUE, !.a0 = b]
    BY <1>5 DEF Round
  <2>2. b \in Int /\ (b = a \/ (a = 0 /\ b < 0))
    BY <1>2 DEF Errno
  <2> HIDE DEF l, a, p, w, b
  <2>3. Round(c, len, n) = [left |-> TRUE, a0 |-> b, pos |-> p, written |-> w]
    BY <1>2, <2>1
  <2>4. ~ l
    BY <1>5 DEF l
  <2>5. m <= MaxInt => b = m \/ (m = 0 /\ b < 0)
    BY <1>3, <2>2, <2>4
  <2>6. QED
    BY <1>2, <1>3, <2>2, <2>3, <2>5, RoundIs
<1>6. CASE ~ c.left /\ ~ (n < 0)
  <2> DEFINE b == Signed(a + n)
             x == w \o [i \in 1 .. n |-> p + i]
  <2>1. Round(c, len, n) = [left |-> n < len, a0 |-> b, pos |-> p + len, written |-> x]
    BY <1>6 DEF Round
  <2>2. n \in Nat /\ n <= len
    BY <1>1, <1>6
  <2>3. ~ l
    BY <1>6
  <2> HIDE DEF l, a, p, w
  <2>4. m = p /\ x = Prefix(m + n)
    BY <1>3, <2>2, <2>3, PrefixGrows
  <2>5. m + n <= MaxInt => b = m + n
    <3>1. ASSUME m + n <= MaxInt PROVE b = m + n
      <4>1. MaxInt \in Nat
        BY ProcessesAssumption
      <4>2. a = m /\ m + n \in 0 .. MaxInt
        BY <1>3, <2>2, <2>3, <3>1, <4>1
      <4>3. QED
        BY <4>2, SignedFits
    <3>2. QED
      BY <3>1
  <2>6. b \in Int
    BY <1>2, <2>2, SignedFits
  <2> HIDE DEF b, x
  <2>7. m + n \in Nat /\ p + len \in Nat /\ (~ (n < len) => m + n = p + len)
    BY <1>2, <2>2, <2>4
  <2>8. QED
    <3> DEFINE d == n < len
    <3>1. d \in BOOLEAN /\ (~ d => m + n = p + len)
      BY <2>7
    <3>2. Round(c, len, n) = [left |-> d, a0 |-> b, pos |-> p + len, written |-> x]
      BY <2>1
    <3> HIDE DEF d
    <3>3. QED
      BY <2>4, <2>5, <2>6, <2>7, <3>1, <3>2, RoundIs
<1>7. QED
  BY <1>4, <1>5, <1>6

\* All rounds of a call keep it.
LEMMA RoundsKeep ==
    ASSUME NEW v \in Seq(Nat), NEW taken, \A i \in DOMAIN v : taken[i] \in Outcomes(v[i])
    PROVE  RoundOK(Rounds(v, taken)[Len(v)])
<1> DEFINE n == Len(v)
           f == Rounds(v, taken)
<1>1. /\ n \in Nat /\ f[0] = NoRound
      /\ \A k \in 1 .. n : f[k] = Round(f[k - 1], v[k], taken[k])
  BY RoundsFacts
<1>2. \A k \in 1 .. n : v[k] \in Nat /\ taken[k] \in Outcomes(v[k])
  OBVIOUS
<1> HIDE DEF n, f
<1>3. RoundOK(NoRound)
  <2>1. <<>> = Prefix(0)
    BY DEF Prefix
  <2>2. QED
    BY <2>1 DEF RoundOK, NoRound
<1> DEFINE Bad == {k \in Nat : k <= n /\ ~ RoundOK(f[k])}
<1>4. SUFFICES ASSUME Bad # {} PROVE FALSE
  <2>1. n \in Nat /\ n <= n
    BY <1>1
  <2>2. RoundOK(f[n])
    BY <1>4, <2>1
  <2>3. QED
    BY <2>2 DEF f, n
<1>5. PICK m \in Bad : \A k \in Bad : m <= k
  <2>1. Bad \in SUBSET Nat
    OBVIOUS
  <2> HIDE DEF Bad
  <2>2. QED
    BY <1>4, <2>1, LeastNat
<1>6. m \in Nat /\ m <= n /\ ~ RoundOK(f[m])
  OBVIOUS
<1>7. m # 0
  BY <1>1, <1>3, <1>6
<1>8. m - 1 \in Nat /\ m - 1 <= n /\ ~ (m <= m - 1) /\ m \in 1 .. n
  BY <1>1, <1>6, <1>7
<1>9. m - 1 \notin Bad
  <2> HIDE DEF Bad
  <2> QED
    BY <1>5, <1>8
<1>10. RoundOK(f[m - 1])
  BY <1>8, <1>9
<1>11. RoundOK(f[m])
  BY <1>1, <1>2, <1>8, <1>10, RoundKeeps
<1>12. QED
  BY <1>6, <1>11

\* The result of writev says how much of the vector came out, for vectors of any length
\* and whatever part of each entry the host takes (the loop of Syscall::_writev).
THEOREM WritevTells == Spec => []OutputAccounted
<1>1. Init => OutputAccounted
  BY DEF Init, NoCall, OutputAccounted
<1>2. ASSUME OutputAccounted, [Next]_vars PROVE OutputAccounted'
  <2>1. ASSUME NEW p \in Procs, writev(p) PROVE OutputAccounted'
    <3>1. PICK v \in Vectors : \E taken \in [DOMAIN v -> UNION {Outcomes(v[i]) : i \in DOMAIN v}] :
            /\ \A i \in DOMAIN v : taken[i] \in Outcomes(v[i])
            /\ call' = [name |-> "writev", a0 |-> Rounds(v, taken)[Len(v)].a0,
                        written |-> Rounds(v, taken)[Len(v)].written]
      BY <2>1 DEF writev
    <3>2. PICK taken : /\ \A i \in DOMAIN v : taken[i] \in Outcomes(v[i])
                       /\ call' = [name |-> "writev", a0 |-> Rounds(v, taken)[Len(v)].a0,
                                   written |-> Rounds(v, taken)[Len(v)].written]
      BY <3>1
    <3> DEFINE c == Rounds(v, taken)[Len(v)]
    <3>3. RoundOK(c)
      <4>1. v \in Seq(Nat)
        BY ProcessesAssumption
      <4>2. QED
        BY <3>2, <4>1, RoundsKeep
    <3>4. call' = [name |-> "writev", a0 |-> c.a0, written |-> c.written]
      BY <3>2
    <3> HIDE DEF c
    <3> DEFINE a == c.a0
               w == c.written
    <3>5. a \in Int /\ call'.a0 = a /\ call'.written = w
      BY <3>3, <3>4 DEF RoundOK
    <3>6. PICK m \in Nat : w = Prefix(m) /\ (m <= MaxInt => a = m \/ (m = 0 /\ a < 0))
      BY <3>3 DEF RoundOK
    <3> HIDE DEF a, w
    <3>7. Len(w) = m
      BY <3>6 DEF Prefix
    <3>8. m <= MaxInt => w = [i \in 1 .. (IF a < 0 THEN 0 ELSE a) |-> i]
      BY <3>5, <3>6 DEF Prefix
    <3>9. QED
      BY <3>5, <3>7, <3>8 DEF OutputAccounted
  <2>2. ASSUME NEW p \in Procs,
               \/ Start(p) \/ Create(p) \/ Read(p) \/ load(p) \/ Record(p)
               \/ Exit(p) \/ Truncate(p) \/ WriteText(p) \/ Crash(p)
               \/ clone(p) \/ execve(p) \/ OtherCall(p)
        PROVE  OutputAccounted'
    <3>1. call' = NoCall \/ \E r : Returns(r)
      BY <2>2 DEF Start, Create, Read, load, Record, Exit, Truncate, WriteText, Crash, clone, execve,
                  OtherCall
    <3>2. call'.name = "none"
      BY <3>1 DEF Returns, NoCall
    <3>3. QED
      BY <3>2 DEF OutputAccounted
  <2>3. CASE UNCHANGED vars
    BY <1>2, <2>3 DEF vars, OutputAccounted
  <2>4. QED
    BY <1>2, <2>1, <2>2, <2>3 DEF Next
<1>3. QED
  BY <1>1, <1>2, PTL DEF Spec
=============================================================================
