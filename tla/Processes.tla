----------------------------- MODULE Processes -----------------------------
(***************************************************************************)
(* Host processes that share a directory: emulators, the children their    *)
(* guests fork, and translators. What they share is ./profiling.json       *)
(* (ProfilingInfo); what a guest does to its process are system calls      *)
(* (write, writev, clone, execve, exit).                                   *)
(*                                                                         *)
(* A profile is one number for the counters and one for the indirect       *)
(* branch targets. Its text is a sequence of pieces, in the order in which *)
(* they are written: the last one holds the closing brace.                 *)
(***************************************************************************)
EXTENDS Integers, Sequences, FiniteSets, SequencesExt

CONSTANTS
    Procs,        \* processes that can be alive at a time
    MaxCount,     \* bound on the counters of a profile
    MaxTargets,   \* bound on its branch targets
    Vectors,      \* writev's vectors: sequences of lengths
    MaxInt        \* the largest sum of an int32_t

ASSUME ProcessesAssumption ==
    /\ MaxCount \in Nat \ {0} /\ MaxTargets \in Nat
    /\ \A v \in Vectors : v \in Seq(Nat)
    /\ MaxInt \in Nat \ {0}

VARIABLES
    profiling,    \* RISCV_EMU_PROFILING of the emulator's build
    proc,         \* the processes
    call,         \* the result of the system call just made
    file,         \* ./profiling.json: whether it exists, and its text
    saved,        \* history: the profile of the last save that finished, if none is torn since
    emptied,      \* history: openFile() truncated the file since that save
    torn          \* history: a save was cut short, or two of them overlapped

vars == <<profiling, proc, call, file, saved, emptied, torn>>

-----------------------------------------------------------------------------
(* Profiles and their text *)

Profiles == [counts : 0 .. MaxCount, targets : 0 .. MaxTargets]
NoCounts == [counts |-> 0, targets |-> 0]
NoProfile == [counts |-> -1, targets |-> -1]

\* Counters that are zero and branches that were not seen are not written.
Length(d) == 1 + Cardinality({f \in {"counts", "targets"} : d[f] > 0})
Text(d) == [i \in 1 .. Length(d) |-> <<d, i>>]

\* A piece written behind the end of the file leaves a hole.
Hole == <<NoProfile, 0>>
WrittenAt(f, o, piece) ==
    [i \in 1 .. (IF o > Len(f) THEN o ELSE Len(f)) |->
        IF i = o THEN piece ELSE IF i <= Len(f) THEN f[i] ELSE Hole]

\* Pieces of several texts that make up a text.
Mixed(f) == /\ \A i \in DOMAIN f : f[i][2] = i
            /\ Len(f) = Length(Last(f)[1])

\* Mutant: an empty file is parsed.
ParsedNoPeek(f) ==
    IF \E d \in Profiles : Text(d) = f THEN {CHOOSE d \in Profiles : Text(d) = f}
    ELSE IF f # <<>> /\ Mixed(f) THEN Profiles \cup {NoProfile} ELSE {NoProfile}

\* What load() may make of the file; NoProfile: json::parse throws.
Parsed(f) ==
    IF f = <<>> THEN {NoCounts}
    ELSE IF \E d \in Profiles : Text(d) = f THEN {CHOOSE d \in Profiles : Text(d) = f}
    ELSE IF Mixed(f) THEN Profiles \cup {NoProfile} ELSE {NoProfile}

-----------------------------------------------------------------------------
(* Processes *)

\* text: what load() has read, or what is left to write from off on.
\* stale: history, load() began with a torn file or in the middle of a save, or the file
\* was opened for writing since.
Free == [tool |-> "none", at |-> "free", profile |-> NoCounts, existing |-> FALSE,
         text |-> <<>>, off |-> 0, stale |-> FALSE]

\* a0; and of writev the bytes that came out, by their place in the vector.
NoCall == [name |-> "none", a0 |-> 0, written |-> <<>>]

Writing == {p \in Procs : proc[p].at = "write"}

Init ==
    /\ profiling \in BOOLEAN
    /\ proc = [p \in Procs |-> Free]
    /\ call = NoCall
    /\ file = [exists |-> FALSE, text |-> <<>>]
    /\ saved = NoProfile
    /\ emptied = FALSE
    /\ torn = FALSE

Set(p, r) == proc' = [proc EXCEPT ![p] = r]

Opened(tool) == IF tool = "emulator" THEN "run" ELSE "load"

\* The constructor's openFile(), first try.
Start(p) ==
    /\ proc[p].at \in {"free", "unreadable"}
    /\ \E tool \in {"emulator", "translator"} :
        Set(p, [Free EXCEPT !.tool = tool,
                            !.at = IF file.exists THEN Opened(tool) ELSE "create"])
    /\ call' = NoCall
    /\ UNCHANGED <<profiling, file, saved, emptied, torn>>

\* The file was opened for writing by p: what others loaded is stale.
Rewriting(p, at) ==
    proc' = [q \in Procs |-> IF q = p THEN [proc[p] EXCEPT !.at = at]
                             ELSE [proc[q] EXCEPT !.stale = @ \/ proc[q].tool = "translator"]]

\* openFile(), second try: an output stream, which truncates, also what others saved since
\* the first one.
Create(p) ==
    /\ proc[p].at = "create"
    /\ file' = [exists |-> TRUE, text |-> <<>>]
    /\ Rewriting(p, Opened(proc[p].tool))
    /\ torn' = (Writing # {})
    /\ saved' = IF torn' THEN NoProfile ELSE saved
    /\ emptied' = TRUE
    /\ call' = NoCall
    /\ UNCHANGED profiling

\* What a translator reads, or has read so far, is not what one save left.
Behind(r) == IF r.text = <<>> THEN torn \/ Writing # {} ELSE r.stale

\* load() of a translator: the next piece of the file.
Read(p) ==
    LET r == proc[p]
    IN  /\ r.at = "load" /\ Len(r.text) < Len(file.text)
        /\ Set(p, [r EXCEPT !.text = Append(@, file.text[Len(r.text) + 1]), !.stale = Behind(r)])
        /\ call' = NoCall
        /\ UNCHANGED <<profiling, file, saved, emptied, torn>>

\* Mutant: an exception is swallowed.
loadSwallowed(p) ==
    LET r == proc[p]
    IN  /\ r.at = "load" /\ Len(r.text) >= Len(file.text)
        /\ \E d \in Parsed(r.text) :
            Set(p, [r EXCEPT !.at = "run", !.profile = d, !.existing = (d # NoCounts),
                             !.text = <<>>, !.stale = Behind(r)])
        /\ call' = NoCall
        /\ UNCHANGED <<profiling, file, saved, emptied, torn>>

\* load(), at the end of the file: a profile it cannot parse ends the process.
load(p) ==
    LET r == proc[p]
    IN  /\ r.at = "load" /\ Len(r.text) >= Len(file.text)
        /\ \E d \in Parsed(r.text) :
            Set(p, IF d = NoProfile THEN [Free EXCEPT !.at = "unreadable"]
                   ELSE [r EXCEPT !.at = "run", !.profile = d, !.existing = (d # NoCounts),
                                  !.text = <<>>, !.stale = Behind(r)])
        /\ call' = NoCall
        /\ UNCHANGED <<profiling, file, saved, emptied, torn>>

\* logInstruction and logRegister, and logJump if the instruction is a JALR.
Record(p) ==
    /\ proc[p].at = "run" /\ proc[p].tool = "emulator" /\ profiling
    /\ proc[p].profile.counts < MaxCount
    /\ \E jump \in {n \in {0, 1} : proc[p].profile.targets + n <= MaxTargets} :
        Set(p, [proc[p] EXCEPT !.profile = [counts |-> @.counts + 1, targets |-> @.targets + jump]])
    /\ call' = NoCall
    /\ UNCHANGED <<profiling, file, saved, emptied, torn>>

-----------------------------------------------------------------------------
(* The end of a process *)

\* Mutant: targets are halved too.
PersistedHalves(r) ==
    IF r.tool = "translator" /\ r.existing
    THEN [counts |-> r.profile.counts \div 2, targets |-> r.profile.targets \div 2]
    ELSE r.profile

\* What save() serialises: a translator that loaded a profile (appendMode) halves the counters.
Persisted(r) ==
    IF r.tool = "translator" /\ r.existing
    THEN [r.profile EXCEPT !.counts = @ \div 2] ELSE r.profile

\* exit() of the guest, the end of main() of either tool: the destructor's save().
Exit(p) ==
    /\ proc[p].at = "run"
    /\ Set(p, [Free EXCEPT !.at = "truncate", !.tool = proc[p].tool, !.stale = proc[p].stale,
                           !.text = Text(Persisted(proc[p]))])
    /\ call' = NoCall
    /\ UNCHANGED <<profiling, file, saved, emptied, torn>>

\* Mutant: the file is opened without std::ios::trunc.
TruncateNot(p) ==
    /\ proc[p].at = "truncate"
    /\ file' = [file EXCEPT !.exists = TRUE]
    /\ Rewriting(p, "write")
    /\ torn' = (Writing # {})
    /\ saved' = IF torn' THEN NoProfile ELSE saved
    /\ call' = NoCall
    /\ UNCHANGED <<profiling, emptied>>

\* save(): the file is opened again, and truncated.
Truncate(p) ==
    /\ proc[p].at = "truncate"
    /\ file' = [exists |-> TRUE, text |-> <<>>]
    /\ Rewriting(p, "write")
    /\ torn' = (Writing # {})
    /\ saved' = IF torn' THEN NoProfile ELSE saved
    /\ call' = NoCall
    /\ UNCHANGED <<profiling, emptied>>

\* save(): the next piece, where this process's stream is; after the last one it ends.
WriteText(p) ==
    LET r == proc[p]
        done == r.off + 1 = Len(r.text)
    IN  /\ r.at = "write"
        /\ file' = [file EXCEPT !.text = WrittenAt(@, r.off + 1, r.text[r.off + 1])]
        /\ Set(p, IF done THEN Free ELSE [r EXCEPT !.off = @ + 1])
        /\ saved' = IF done /\ ~ torn THEN r.text[1][1] ELSE saved
        /\ emptied' = (emptied /\ ~ done)
        /\ call' = NoCall
        /\ UNCHANGED <<profiling, torn>>

\* A process is killed; or the file cannot be opened, and the exception ends the process;
\* or the text cannot be written, which nobody looks at.
Crash(p) ==
    /\ proc[p].at \notin {"free", "unreadable"}
    /\ Set(p, Free)
    /\ torn' = (torn \/ proc[p].at = "write")
    /\ saved' = IF torn' THEN NoProfile ELSE saved
    /\ call' = NoCall
    /\ UNCHANGED <<profiling, file, emptied>>

-----------------------------------------------------------------------------
(* System calls *)

Errno == 11
EINVAL == 22
handleError(r) == IF r < 0 THEN -Errno ELSE r

\* A system call of the guest that p runs.
Calls(p) == proc[p].at = "run" /\ proc[p].tool = "emulator"
Returns(r) == call' = [NoCall EXCEPT !.a0 = r]

\* clone: only fork. The child has the counters of its parent, and will save them too.
clone(p) ==
    /\ Calls(p)
    /\ \/ Returns(-EINVAL) /\ UNCHANGED proc           \* a stack, CLONE_VM, CLONE_THREAD or CLONE_SIGHAND
       \/ Returns(handleError(-1)) /\ UNCHANGED proc
       \/ \E q \in Procs :
            /\ proc[q].at = "free"
            /\ Set(q, proc[p])
            /\ \E r \in {0, 1} : Returns(handleError(r))   \* to the child, to the parent
    /\ UNCHANGED <<profiling, file, saved, emptied, torn>>

\* execve: another program takes the process, and no destructor runs.
execve(p) ==
    /\ Calls(p)
    /\ \/ Set(p, Free) /\ call' = NoCall
       \/ Returns(handleError(-1)) /\ UNCHANGED proc
    /\ UNCHANGED <<profiling, file, saved, emptied, torn>>

\* The calls that are handed to the host (openat, close, read, write, statx, clock_gettime64,
\* with any result), set_tid_address and those that are not known.
OtherCall(p) ==
    /\ Calls(p)
    /\ \E r \in {-1, 0, 1} : Returns(handleError(r)) \/ Returns(0) \/ Returns(-EINVAL)
    /\ UNCHANGED <<profiling, proc, file, saved, emptied, torn>>

\* The bytes of an entry of n bytes that the host may take; -1: an error.
Outcomes(n) == {-1} \cup (IF n = 0 THEN {0} ELSE 1 .. n)

\* The sum in total, an int32_t.
Signed(n) == ((n + MaxInt + 1) % (2 * (MaxInt + 1))) - (MaxInt + 1)

\* Mutant: an error hides what was written before.
RoundError(c, len, n) ==
    IF c.left THEN c
    ELSE IF n < 0 THEN [c EXCEPT !.left = TRUE, !.a0 = -Errno]
    ELSE [left |-> n < len, a0 |-> Signed(c.a0 + n), pos |-> c.pos + len,
          written |-> c.written \o [i \in 1 .. n |-> c.pos + i]]

\* One round of _writev's loop: it is left on an error and after a short write.
Round(c, len, n) ==
    IF c.left THEN c
    ELSE IF n < 0 THEN [c EXCEPT !.left = TRUE, !.a0 = IF c.a0 = 0 THEN -Errno ELSE c.a0]
    ELSE [left |-> n < len, a0 |-> Signed(c.a0 + n), pos |-> c.pos + len,
          written |-> c.written \o [i \in 1 .. n |-> c.pos + i]]

\* The loop after each of its rounds.
Rounds(v, taken) ==
    LET c[k \in 0 .. Len(v)] ==
            IF k = 0 THEN [left |-> FALSE, a0 |-> 0, pos |-> 0, written |-> <<>>]
            ELSE Round(c[k - 1], v[k], taken[k])
    IN  c

writev(p) ==
    /\ Calls(p)
    /\ \E v \in Vectors : \E taken \in [DOMAIN v -> UNION {Outcomes(v[i]) : i \in DOMAIN v}] :
        /\ \A i \in DOMAIN v : taken[i] \in Outcomes(v[i])
        /\ LET c == Rounds(v, taken)[Len(v)]
           IN  call' = [name |-> "writev", a0 |-> c.a0, written |-> c.written]
    /\ UNCHANGED <<profiling, proc, file, saved, emptied, torn>>

Next ==
    \E p \in Procs :
        \/ Start(p) \/ Create(p) \/ Read(p) \/ load(p) \/ Record(p)
        \/ Exit(p) \/ Truncate(p) \/ WriteText(p) \/ Crash(p)
        \/ clone(p) \/ execve(p) \/ writev(p) \/ OtherCall(p)

Spec == Init /\ [][Next]_vars

-----------------------------------------------------------------------------
(* What the processes may rely on *)

\* Type invariant of the processes.
TypeOK ==
    /\ \A p \in Procs :
        /\ proc[p].at \in {"free", "create", "load", "run", "truncate", "write", "unreadable"}
        /\ proc[p].profile \in Profiles
        /\ proc[p].off \in 0 .. Len(proc[p].text)
    /\ file.exists \in BOOLEAN /\ (~ file.exists => file.text = <<>>)
    /\ saved \in Profiles \cup {NoProfile}

\* The profile that a translator finds, if nothing is torn and nobody writes.
Base == IF saved = NoProfile \/ emptied THEN NoCounts ELSE saved

\* Whatever processes start, fork, exec, exit and die, and in whatever order: as long as
\* saves do not overlap and none is cut short, the file between two saves is exactly the
\* last profile that was saved, with nothing left of an older, longer one. The exception
\* is openFile(): a process that had found no file empties the one that another process
\* has created and saved meanwhile, and the file stays empty until the next save.
ProfileWhole ==
    ~ torn /\ Writing = {} =>
        file.text = IF saved = NoProfile \/ emptied THEN <<>> ELSE Text(saved)

\* A translator ends with a parse error only if it began to read during a save or after
\* one that was torn, or the file was opened for writing while it read: a file just
\* created, emptied or saved by any other process is one it can load.
ReadableUnlessTorn ==
    [][\A p \in Procs :
        proc'[p].at = "unreadable" /\ proc[p].at = "load" => Behind(proc[p])]_vars

\* Translating again and again never costs a branch target and never raises a counter,
\* though every translator writes the profile back; unless the file was written
\* behind its back, and its write-back undoes that.
TranslationKeepsTargets ==
    [][\A p \in Procs :
        /\ proc[p].tool = "translator" /\ proc[p].at = "write" /\ proc'[p].at = "free"
        /\ ~ proc[p].stale /\ ~ torn'
        => saved'.counts <= Base.counts /\ saved'.targets = Base.targets]_vars

\* When writev is back its result tells the guest how much came out: that many bytes
\* from the start of the vector without a gap, and nothing at all if it is an error,
\* also when the host takes only part of an entry or fails in the middle. What does not
\* fit an int32_t is not told.
OutputAccounted ==
    call.name = "writev" /\ Len(call.written) <= MaxInt =>
        call.written = [i \in 1 .. (IF call.a0 < 0 THEN 0 ELSE call.a0) |-> i]
=============================================================================
