---------------------------- MODULE BytecodeCache ----------------------------
(***************************************************************************)
(* The command line tool (main.cpp) and the bytecode it keeps beside a     *)
(* source file: file.ts.tsb is used instead of compiling if its            *)
(* modification time equals the one of file.ts, which compileAndRun()      *)
(* gives it.  An editor saves the source file, an older version of it may  *)
(* be restored with its time, and the tool may be killed between any two   *)
(* of its calls of the file system.                                        *)
(*                                                                         *)
(* Bytecode stands for the text it was compiled from.  Times are taken     *)
(* from a clock that ticks with every write: time stamps are assumed finer *)
(* than the time between two writes.                                       *)
(***************************************************************************)
EXTENDS Naturals

CONSTANTS Texts,            \* what a source file can say
          Absent, Cut,      \* no .tsb file, and one that is not written to its end
          EditWhileRunning, \* the source file may change while the tool runs
          MaxWrites         \* bound of the model on writes of files

ASSUME CacheAssumption == /\ Texts # {} /\ Absent \notin Texts /\ Cut \notin Texts /\ Absent # Cut
                          /\ EditWhileRunning \in BOOLEAN
                          /\ MaxWrites \in Nat

VARIABLES
    clock,      \* the time of the last write
    file,       \* the source file: [text, mtime]
    saved,      \* all versions of it that ever were on disk
    tsb,        \* the bytecode file: [bin, mtime]
    pc,         \* the call main() is about to make
    code, bin,  \* the locals of main() and compileAndRun()
    stamp,      \* the time that last_write_time() returned last
    warm        \* the version that was run to the end and needs no compilation

locals == <<code, bin, stamp>>
vars == <<clock, file, saved, tsb, pc, locals, warm>>

Bytecodes == Texts \cup {Absent, Cut}
Versions  == [text : Texts, mtime : Nat]
NoVersion == [text |-> Absent, mtime |-> 0]

Init == /\ clock = 0
        /\ file \in [text : Texts, mtime : {0}]
        /\ saved = {file}
        /\ tsb = [bin |-> Absent, mtime |-> 0]
        /\ pc = "idle" /\ code = file.text /\ bin = Absent /\ stamp = 0
        /\ warm = NoVersion

Writes == clock < MaxWrites /\ clock' = clock + 1
-----------------------------------------------------------------------------
(* The user *)

MayEdit == EditWhileRunning \/ pc = "idle"

Save(text) ==
    /\ MayEdit /\ Writes
    /\ file' = [text |-> text, mtime |-> clock']
    /\ saved' = saved \cup {file'}
    /\ UNCHANGED <<tsb, pc, locals, warm>>

Restore(version) ==
    /\ MayEdit
    /\ file' = version
    /\ UNCHANGED <<clock, saved, tsb, pc, locals, warm>>
-----------------------------------------------------------------------------
(* The tool, one action per call of the file system *)

\* main() starts: code = fileRead(file).
ReadCode ==
    /\ pc = "idle" /\ pc' = "stat"
    /\ code' = file.text
    /\ UNCHANGED <<clock, file, saved, tsb, bin, stamp, warm>>

\* compileAndRun() instead of run(): the bytecode is not kept for sure.
GoCompile == pc' = "compile" /\ warm' = NoVersion

\* fileExists(bytecode) and last_write_time(bytecode).
StatBytecode ==
    /\ pc = "stat"
    /\ \/ tsb.bin = Absent /\ GoCompile /\ UNCHANGED stamp
       \/ tsb.bin # Absent /\ pc' = "compare" /\ stamp' = tsb.mtime /\ UNCHANGED warm
    /\ UNCHANGED <<clock, file, saved, tsb, code, bin>>

\* Variant: bytecode at least as new as the file is taken.
CompareNewer ==
    /\ pc = "compare"
    /\ \/ stamp >= file.mtime /\ pc' = "load" /\ UNCHANGED warm
       \/ stamp < file.mtime /\ GoCompile
    /\ UNCHANGED <<clock, file, saved, tsb, locals>>

\* ... == last_write_time(file)
Compare ==
    /\ pc = "compare"
    /\ \/ stamp = file.mtime /\ pc' = "load" /\ UNCHANGED warm
       \/ stamp # file.mtime /\ GoCompile
    /\ UNCHANGED <<clock, file, saved, tsb, locals>>

\* run(fileRead(bytecode), code, ...)
Load ==
    /\ pc = "load" /\ pc' = "exec"
    /\ bin' = tsb.bin
    /\ UNCHANGED <<clock, file, saved, tsb, code, stamp, warm>>

\* compileAndRun(): the file is read again, parsed and compiled.
Compile ==
    /\ pc = "compile" /\ pc' = "open"
    /\ bin' = file.text
    /\ UNCHANGED <<clock, file, saved, tsb, code, stamp, warm>>

\* fileWrite(): open() truncates, the content is on disk when it is closed.
OpenBytecode ==
    /\ pc = "open" /\ pc' = "write"
    /\ Writes
    /\ tsb' = [bin |-> Cut, mtime |-> clock']
    /\ UNCHANGED <<file, saved, locals, warm>>

WriteBytecode ==
    /\ pc = "write" /\ pc' = "statSource"
    /\ Writes
    /\ tsb' = [bin |-> bin, mtime |-> clock']
    /\ UNCHANGED <<file, saved, locals, warm>>

\* last_write_time(bytecodePath, last_write_time(file))
StatSource ==
    /\ pc = "statSource" /\ pc' = "stamp"
    /\ stamp' = file.mtime
    /\ UNCHANGED <<clock, file, saved, tsb, code, bin, warm>>

\* Variant: the bytecode keeps the time it was written at.
StampNothing ==
    /\ pc = "stamp" /\ pc' = "exec"
    /\ UNCHANGED <<clock, file, saved, tsb, locals, warm>>

Stamp ==
    /\ pc = "stamp" /\ pc' = "exec"
    /\ tsb' = [tsb EXCEPT !.mtime = stamp]
    /\ UNCHANGED <<clock, file, saved, locals, warm>>

\* vm2::run(), printErrors(), the process ends.
Finish ==
    /\ pc = "exec" /\ pc' = "idle"
    /\ warm' = file
    /\ UNCHANGED <<clock, file, saved, tsb, locals>>

\* The process is killed.
Kill ==
    /\ pc # "idle" /\ pc' = "idle"
    /\ UNCHANGED <<clock, file, saved, tsb, locals, warm>>

Next == \/ \E text \in Texts : Save(text)
        \/ \E version \in saved : Restore(version)
        \/ ReadCode \/ StatBytecode \/ Compare \/ Load
        \/ Compile \/ OpenBytecode \/ WriteBytecode \/ StatSource \/ Stamp
        \/ Finish \/ Kill

Spec == Init /\ [][Next]_vars
-----------------------------------------------------------------------------
(* Properties *)

\* What the VM executes is the bytecode of the source file as it is on disk, and
\* diagnostics are reported against the same text: neither a truncated .tsb left
\* by a killed process nor one of another version passes the comparison of times.
ExecutesSavedText == pc = "exec" => bin = file.text /\ code = file.text

\* A file that was checked before and did not change is not compiled again, even
\* if later runs were killed: its bytecode keeps the time of the source file.
WarmWhenUnchanged == [][pc # "compile" /\ pc' = "compile" => warm # file]_vars

\* "if you have a project with 100 files and edit one and rerun type checking,
\* only the changed file has the slower cold timing" (README.md): a source file
\* that changed is compiled on the next run, so bytecode with its time is its own.
NoStaleCache == pc = "idle" /\ tsb.mtime = file.mtime => tsb.bin \in {Absent, file.text}
=============================================================================
