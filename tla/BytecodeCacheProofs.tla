------------------------- MODULE BytecodeCacheProofs -------------------------
(***************************************************************************)
(* Proofs about the bytecode cache of the command line tool, for any set   *)
(* of texts and any number of writes, as long as the source file does not  *)
(* change while the tool runs.                                             *)
(***************************************************************************)
EXTENDS BytecodeCache, TLAPS

Compiling == {"open", "write", "statSource", "stamp"}

CacheTypeOK ==
    /\ clock \in Nat /\ stamp \in Nat
    /\ saved \subseteq Versions /\ file \in saved
    /\ tsb \in [bin : Bytecodes, mtime : Nat]
    /\ pc \in {"idle", "stat", "compare", "load", "compile", "exec"} \cup Compiling
    /\ code \in Texts /\ bin \in Bytecodes
    /\ warm \in Versions \cup {NoVersion}

\* A time belongs to one version, and none lies in the future.
TimesUnique == /\ tsb.mtime <= clock
               /\ \A s \in saved : s.mtime <= clock
               /\ \A s, t \in saved : s.mtime = t.mtime => s = t

\* Bytecode with the time of a version, current or not, is that version's.
TimeTells == \A s \in saved : tsb.bin # Absent /\ tsb.mtime = s.mtime => tsb.bin = s.text

\* How far the tool has got.
Progress ==
    /\ pc # "idle" => code = file.text
    /\ pc = "compare" => stamp = tsb.mtime /\ tsb.bin # Absent
    /\ pc = "load" => tsb.bin # Absent /\ tsb.mtime = file.mtime
    /\ pc \in Compiling \cup {"exec"} => bin = file.text
    /\ pc \in {"statSource", "stamp"} => tsb.bin = bin
    /\ pc = "stamp" => stamp = file.mtime
    /\ pc = "exec" => tsb.bin # Absent /\ tsb.mtime = file.mtime

\* A version that was run to the end has bytecode with its time.
WarmKept == /\ warm # NoVersion => tsb.bin # Absent /\ tsb.mtime = warm.mtime
            /\ pc \in {"compile"} \cup Compiling => warm = NoVersion

CacheInv == CacheTypeOK /\ TimesUnique /\ TimeTells /\ Progress /\ WarmKept

\* Before the first save there is no bytecode.
LEMMA CacheInit == Init => CacheInv
<1> SUFFICES ASSUME Init PROVE CacheInv
  OBVIOUS
<1>1. file \in Versions /\ file.mtime = 0 /\ saved = {file}
  BY DEF Init, Versions
<1>2. CacheTypeOK
  BY <1>1, CacheAssumption DEF Init, CacheTypeOK, Bytecodes, Versions, Compiling
<1>3. TimesUnique /\ TimeTells
  BY <1>1 DEF Init, TimesUnique, TimeTells
<1>4. Progress /\ WarmKept
  BY DEF Init, Progress, WarmKept, Compiling
<1> QED BY <1>2, <1>3, <1>4 DEF CacheInv

\* A new version has a time of its own.
LEMMA SaveInv ==
    ASSUME CacheInv, ~EditWhileRunning, NEW text \in Texts, Save(text)
    PROVE  CacheInv'
<1>1. pc = "idle" /\ pc' = "idle" /\ clock' = clock + 1
  BY DEF Save, MayEdit, Writes
<1>2. /\ file' = [text |-> text, mtime |-> clock + 1] /\ file' \in Versions
      /\ saved' = saved \cup {file'}
  BY <1>1 DEF Save, Versions, CacheInv, CacheTypeOK
<1>3. UNCHANGED <<tsb, code, bin, stamp, warm>>
  BY DEF Save, locals
<1>4. CacheTypeOK'
  BY <1>1, <1>2, <1>3 DEF CacheInv, CacheTypeOK
<1>5. \A s \in saved : s.mtime \in Nat /\ s.mtime < clock + 1
  BY DEF CacheInv, CacheTypeOK, Versions, TimesUnique
<1>6. TimesUnique'
  <2>1. file'.mtime = clock + 1
    BY <1>2
  <2>2. tsb'.mtime <= clock' /\ \A s \in saved' : s.mtime <= clock'
    BY <1>1, <1>2, <1>3, <1>5, <2>1 DEF CacheInv, CacheTypeOK, TimesUnique
  <2>3. \A s, t \in saved' : s.mtime = t.mtime => s = t
    BY <1>2, <1>5, <2>1 DEF CacheInv, TimesUnique
  <2> QED BY <2>2, <2>3 DEF TimesUnique
<1>7. TimeTells'
  <2>1. tsb.mtime # file'.mtime
    BY <1>2 DEF CacheInv, CacheTypeOK, TimesUnique
  <2> QED BY <1>2, <1>3, <2>1 DEF CacheInv, TimeTells
<1>8. Progress' /\ WarmKept'
  BY <1>1, <1>3 DEF CacheInv, Progress, WarmKept, Compiling
<1> QED BY <1>4, <1>6, <1>7, <1>8 DEF CacheInv

\* A version that is restored brings its time with it.
LEMMA RestoreInv ==
    ASSUME CacheInv, ~EditWhileRunning, NEW version \in saved, Restore(version)
    PROVE  CacheInv'
<1>1. pc = "idle" /\ pc' = "idle" /\ file' = version
  BY DEF Restore, MayEdit
<1>2. UNCHANGED <<clock, saved, tsb, code, bin, stamp, warm>>
  BY DEF Restore, locals
<1>3. CacheTypeOK' /\ TimesUnique' /\ TimeTells'
  BY <1>1, <1>2 DEF CacheInv, CacheTypeOK, TimesUnique, TimeTells
<1>4. Progress' /\ WarmKept'
  BY <1>1, <1>2 DEF CacheInv, Progress, WarmKept, Compiling
<1> QED BY <1>3, <1>4 DEF CacheInv

\* Steps of the tool that write no file.
LEMMA ReadingInv ==
    ASSUME CacheInv, ReadCode \/ StatBytecode \/ Compare \/ Load \/ Compile \/ StatSource \/ Kill
    PROVE  CacheInv'
<1>1. UNCHANGED <<clock, file, saved, tsb>>
  BY DEF ReadCode, StatBytecode, Compare, Load, Compile, StatSource, Kill
<1>2. file \in Versions /\ file.text \in Texts /\ file.mtime \in Nat /\ tsb.bin \in Bytecodes /\ tsb.mtime \in Nat
  BY DEF CacheInv, CacheTypeOK, Versions
<1>3. TimesUnique' /\ TimeTells'
  BY <1>1 DEF CacheInv, TimesUnique, TimeTells
<1>4. CASE ReadCode
  BY <1>1, <1>2, <1>3, <1>4 DEF CacheInv, CacheTypeOK, Progress, WarmKept, Compiling, ReadCode, Bytecodes
<1>5. CASE StatBytecode
  BY <1>1, <1>2, <1>3, <1>5 DEF CacheInv, CacheTypeOK, Progress, WarmKept, Compiling, StatBytecode, GoCompile
<1>6. CASE Compare
  BY <1>1, <1>2, <1>3, <1>6 DEF CacheInv, CacheTypeOK, Progress, WarmKept, Compiling, Compare, GoCompile, locals
<1>7. CASE Load
  <2>1. tsb.bin = file.text
    BY <1>2, <1>7 DEF CacheInv, CacheTypeOK, Progress, TimeTells, Load
  <2> QED BY <1>1, <1>2, <1>3, <1>7, <2>1 DEF CacheInv, CacheTypeOK, Progress, WarmKept, Compiling, Load
<1>8. CASE Compile
  BY <1>1, <1>2, <1>3, <1>8 DEF CacheInv, CacheTypeOK, Progress, WarmKept, Compiling, Compile, Bytecodes
<1>9. CASE StatSource
  BY <1>1, <1>2, <1>3, <1>9 DEF CacheInv, CacheTypeOK, Progress, WarmKept, Compiling, StatSource
<1>10. CASE Kill
  BY <1>1, <1>2, <1>3, <1>10 DEF CacheInv, CacheTypeOK, Progress, WarmKept, Compiling, Kill, locals
<1> QED BY <1>4, <1>5, <1>6, <1>7, <1>8, <1>9, <1>10

\* fileWrite() gives the bytecode a time no version has, so that what a killed
\* process leaves behind is never mistaken for bytecode of a version.
LEMMA WritingInv ==
    ASSUME CacheInv, OpenBytecode \/ WriteBytecode
    PROVE  CacheInv'
<1>1. /\ clock' = clock + 1 /\ tsb'.mtime = clock + 1 /\ tsb'.bin \in {Cut, bin}
      /\ tsb' \in [bin : Bytecodes, mtime : Nat]
  BY DEF OpenBytecode, WriteBytecode, Writes, CacheInv, CacheTypeOK, Bytecodes
<1>2. UNCHANGED <<file, saved, code, bin, stamp, warm>>
  BY DEF OpenBytecode, WriteBytecode, locals
<1>3. warm = NoVersion /\ bin = file.text
  BY DEF OpenBytecode, WriteBytecode, CacheInv, Progress, WarmKept, Compiling
<1>4. CacheTypeOK'
  BY <1>1, <1>2 DEF CacheInv, CacheTypeOK, OpenBytecode, WriteBytecode, Compiling
<1>5. TimesUnique' /\ TimeTells'
  BY <1>1, <1>2 DEF CacheInv, CacheTypeOK, TimesUnique, TimeTells, Versions
<1>6. Progress' /\ WarmKept'
  BY <1>1, <1>2, <1>3 DEF CacheInv, Progress, WarmKept, Compiling, OpenBytecode, WriteBytecode
<1> QED BY <1>4, <1>5, <1>6 DEF CacheInv

\* The bytecode gets the time of the version it was compiled from.
LEMMA StampInv == ASSUME CacheInv, Stamp PROVE CacheInv'
<1>1. UNCHANGED <<clock, file, saved, code, bin, stamp, warm>> /\ pc = "stamp" /\ pc' = "exec"
  BY DEF Stamp, locals
<1>2. /\ file \in saved /\ file.text \in Texts /\ file.mtime \in Nat
      /\ tsb'.mtime = file.mtime /\ tsb'.bin = file.text
      /\ tsb' \in [bin : Bytecodes, mtime : Nat]
  BY <1>1 DEF Stamp, CacheInv, CacheTypeOK, Versions, Progress, Compiling
<1>3. warm = NoVersion /\ bin = file.text /\ code = file.text
  BY <1>1 DEF CacheInv, Progress, WarmKept, Compiling
<1>4. CacheTypeOK' /\ TimesUnique'
  BY <1>1, <1>2 DEF CacheInv, CacheTypeOK, TimesUnique
<1>5. TimeTells'
  BY <1>1, <1>2 DEF CacheInv, TimesUnique, TimeTells
<1>6. Progress' /\ WarmKept'
  BY <1>1, <1>2, <1>3, CacheAssumption DEF Progress, WarmKept, Compiling
<1> QED BY <1>4, <1>5, <1>6 DEF CacheInv

\* The version on disk was run to the end.
LEMMA FinishInv == ASSUME CacheInv, Finish PROVE CacheInv'
<1>1. UNCHANGED <<clock, file, saved, tsb, code, bin, stamp>> /\ pc = "exec" /\ pc' = "idle" /\ warm' = file
  BY DEF Finish, locals
<1>2. CacheTypeOK' /\ TimesUnique' /\ TimeTells'
  BY <1>1 DEF CacheInv, CacheTypeOK, TimesUnique, TimeTells
<1>3. Progress' /\ WarmKept'
  BY <1>1 DEF CacheInv, Progress, WarmKept, Compiling
<1> QED BY <1>2, <1>3 DEF CacheInv

\* Every step keeps the invariant.
LEMMA CacheStep == ASSUME CacheInv, ~EditWhileRunning, [Next]_vars PROVE CacheInv'
<1>1. CASE \E text \in Texts : Save(text)
  BY <1>1, SaveInv
<1>2. CASE \E version \in saved : Restore(version)
  BY <1>2, RestoreInv
<1>3. CASE ReadCode \/ StatBytecode \/ Compare \/ Load \/ Compile \/ StatSource \/ Kill
  BY <1>3, ReadingInv
<1>4. CASE OpenBytecode \/ WriteBytecode
  BY <1>4, WritingInv
<1>5. CASE Stamp
  BY <1>5, StampInv
<1>6. CASE Finish
  BY <1>6, FinishInv
<1>7. CASE UNCHANGED vars
  BY <1>7 DEF vars, locals, CacheInv, CacheTypeOK, TimesUnique, TimeTells, Progress, WarmKept
<1> QED BY <1>1, <1>2, <1>3, <1>4, <1>5, <1>6, <1>7 DEF Next

(***************************************************************************)
(* The theorems.                                                           *)
(***************************************************************************)

\* If the source file does not change while the tool runs, the VM only ever
\* executes bytecode of the text on disk, wherever earlier runs were killed and
\* whichever versions were saved or restored in between.
THEOREM CacheIsFaithful ==
    ASSUME ~EditWhileRunning
    PROVE  Spec => []ExecutesSavedText
<1>1. Init => CacheInv
  BY CacheInit
<1>2. CacheInv /\ [Next]_vars => CacheInv'
  BY CacheStep
<1>3. CacheInv => ExecutesSavedText
  BY DEF CacheInv, Progress, ExecutesSavedText, Compiling
<1> QED BY <1>1, <1>2, <1>3, PTL DEF Spec

\* Under the same condition main() never compiles a version again that it ran to
\* the end before.
THEOREM CacheIsUsed ==
    ASSUME ~EditWhileRunning
    PROVE  Spec => WarmWhenUnchanged
<1>1. Init => CacheInv
  BY CacheInit
<1>2. CacheInv /\ [Next]_vars => CacheInv'
  BY CacheStep
<1>3. CacheInv /\ [Next]_vars => [pc # "compile" /\ pc' = "compile" => warm # file]_vars
  <2> SUFFICES ASSUME CacheInv, Next, pc # "compile", pc' = "compile"
               PROVE  warm # file
    BY DEF vars, locals
  <2>1. file # NoVersion
    BY CacheAssumption DEF CacheInv, CacheTypeOK, Versions, NoVersion
  <2>2. StatBytecode \/ Compare
    BY DEF Next, Save, Restore, ReadCode, StatBytecode, Compare, Load, Compile, OpenBytecode,
           WriteBytecode, StatSource, Stamp, Finish, Kill
  <2>3. CASE StatBytecode
    BY <2>1, <2>3 DEF StatBytecode, CacheInv, WarmKept
  <2>4. CASE Compare
    BY <2>1, <2>4 DEF Compare, CacheInv, WarmKept, Progress
  <2> QED BY <2>2, <2>3, <2>4
<1> QED BY <1>1, <1>2, <1>3, PTL DEF Spec, WarmWhenUnchanged
=============================================================================
