------------------------------- MODULE CutCode -------------------------------
(***************************************************************************)
(* The stencil cutter of the repository scripts: repotools.cutCode, run by *)
(* srcCutdir on a C file, as make-weenix-repo.py's main runs it.           *)
(*                                                                         *)
(* cutCode reads the file line by line.  A line                            *)
(*   /* NAME [BLANK] {{{ */   or   /* NAME }}} */                          *)
(* is a delimiter of project NAME.  The code between the delimiters of a   *)
(* project that is not kept is dropped; a non-BLANK opening delimiter is   *)
(* replaced by a NOT_YET_IMPLEMENTED("NAME: func") stub.  Delimiters of a  *)
(* kept project are copied.  A count per project that leaves 0..1 raises   *)
(* CutcodeException.                                                       *)
(*                                                                         *)
(* main cuts the directories of the selected modules with the unselected   *)
(* modules and every extra kept, then the directories of the selected      *)
(* extras with the unselected extras and every module kept.  One file is   *)
(* followed through the passes main gives it: a directory listed by two    *)
(* selected modules, or lying below another one os.walk enters, is cut     *)
(* again with the same keep set.  srcCutdir writes a pass's output back    *)
(* over the file only when cutCode finishes; an exception leaves the file  *)
(* as the pass found it and ends main.                                     *)
(*                                                                         *)
(* A line is abstracted to what project_regex sees: a code line, or a     *)
(* delimiter with its project, brace and BLANK flag.  The function name    *)
(* func_regex finds (lines 108-112) only fills in the text of a stub, so   *)
(* it is left out with the rest of the stub's wording.                     *)
(***************************************************************************)
EXTENDS Naturals, Sequences, SequencesExt

CONSTANTS
  Modules,    \* the keys of main's modules table
  Extras,     \* the keys of main's extras table
  MaxLines,   \* model bound: lines in the file
  MaxRepeat   \* model bound: times one pass reaches the file

ASSUME Modules \cap Extras = {}
ASSUME MaxLines \in Nat /\ MaxRepeat \in Nat \ {0}

Projects == Modules \cup Extras

CodeLine == [kind |-> "code"]
Lines ==
  {CodeLine}
  \cup [kind: {"open"}, proj: Projects, blank: BOOLEAN]
  \cup [kind: {"close"}, proj: Projects]

IsDelim(l) == l.kind \in {"open", "close"}

\* The stub of line 142, for project p.
Stub(p) == [kind |-> "stub", proj |-> p]

\* The keep sets of the two srcCutdir calls of main (make-weenix-repo.py
\* lines 284-290 and 296-302).
ModuleKeep(sm) == (Modules \ sm) \cup Extras
ExtraKeep(se)  == (Extras \ se) \cup Modules

\* The passes one file gets: the module pass while its directory is
\* visited (0 to MaxRepeat times), then the extra pass likewise.  A
\* selection of none skips that srcCutdir call.
Reps(s) == IF s = {} THEN {0} ELSE 0 .. MaxRepeat
PlanOf(sm, se, m, e) ==
  [i \in 1 .. m + e |-> IF i <= m THEN ModuleKeep(sm) ELSE ExtraKeep(se)]
Plans ==
  UNION {UNION {{PlanOf(sm, se, m, e) : m \in Reps(sm), e \in Reps(se)} :
                  sm \in SUBSET Modules} : se \in SUBSET Extras}
  \ {<<>>}

VARIABLES
  original,     \* the file before main ran (history)
  plan,         \* the keep set of each pass the file gets
  pass,         \* the pass running
  file,         \* the file's contents, as the running pass reads them
  pos,          \* the next line readline returns
  in_projects,  \* per project, the open count of line 124-136
  out,          \* the lines the generator has yielded this pass
  status        \* "running", "done" or "raised"

vars == <<original, plan, pass, file, pos, in_projects, out, status>>

keep == plan[pass]
Line == file[pos]

NoCounts == [p \in Projects |-> 0]

Init ==
  /\ original \in BoundedSeq(Lines, MaxLines)
  /\ plan \in Plans
  /\ pass = 1
  /\ file = original
  /\ pos = 1
  /\ in_projects = NoCounts
  /\ out = <<>>
  /\ status = "running"

\* Seeded fault: the count is moved without the mismatch check of line 138
\* (TypeOK catches a count of 2).
CutDelimiterNoCheck ==
  /\ status = "running"
  /\ pos <= Len(file)
  /\ IsDelim(Line) /\ Line.proj \notin keep
  /\ LET p == Line.proj
         c == in_projects[p] + (IF Line.kind = "open" THEN 1 ELSE -1)
     IN /\ in_projects' = [in_projects EXCEPT ![p] = c]
        /\ out' = IF c = 1 /\ ~Line.blank THEN Append(out, Stub(p)) ELSE out
        /\ UNCHANGED status
  /\ pos' = pos + 1
  /\ UNCHANGED <<original, plan, pass, file>>

\* Seeded fault: the stub is written for BLANK delimiters too
\* (CutMatchesDocstring catches it).
CutDelimiterStubsBlank ==
  /\ status = "running"
  /\ pos <= Len(file)
  /\ IsDelim(Line) /\ Line.proj \notin keep
  /\ LET p == Line.proj
         c == in_projects[p] + (IF Line.kind = "open" THEN 1 ELSE -1)
     IN /\ in_projects' = [in_projects EXCEPT ![p] = c]
        /\ IF c < 0 \/ c > 1
           THEN status' = "raised" /\ UNCHANGED out
           ELSE /\ out' = IF c = 1 THEN Append(out, Stub(p)) ELSE out
                /\ UNCHANGED status
  /\ pos' = pos + 1
  /\ UNCHANGED <<original, plan, pass, file>>

(***************************************************************************)
(* Lines 114-142: a delimiter of a project that is not kept moves its      *)
(* count; a count below 0 or above 1 raises; an opening delimiter that     *)
(* leaves the count at 1 yields a stub unless it is BLANK.                 *)
(***************************************************************************)
CutDelimiter ==
  /\ status = "running"
  /\ pos <= Len(file)
  /\ IsDelim(Line) /\ Line.proj \notin keep
  /\ LET p == Line.proj
         c == in_projects[p] + (IF Line.kind = "open" THEN 1 ELSE -1)
     IN /\ in_projects' = [in_projects EXCEPT ![p] = c]
        /\ IF c < 0 \/ c > 1
           THEN status' = "raised" /\ UNCHANGED out
           ELSE /\ out' = IF c = 1 /\ ~Line.blank THEN Append(out, Stub(p)) ELSE out
                /\ UNCHANGED status
  /\ pos' = pos + 1
  /\ UNCHANGED <<original, plan, pass, file>>

\* Lines 143-144: a delimiter of a kept project is copied, whatever is open.
KeptDelimiter ==
  /\ status = "running"
  /\ pos <= Len(file)
  /\ IsDelim(Line) /\ Line.proj \in keep
  /\ out' = Append(out, Line)
  /\ pos' = pos + 1
  /\ UNCHANGED <<original, plan, pass, file, in_projects, status>>

(***************************************************************************)
(* Lines 108-112 and 145-154: any other line is yielded only when no      *)
(* project's count is positive.                                            *)
(***************************************************************************)
OtherLine ==
  /\ status = "running"
  /\ pos <= Len(file)
  /\ ~IsDelim(Line)
  /\ out' = IF \A p \in Projects : in_projects[p] <= 0 THEN Append(out, Line) ELSE out
  /\ pos' = pos + 1
  /\ UNCHANGED <<original, plan, pass, file, in_projects, status>>

(***************************************************************************)
(* Lines 104-106 ending the generator, and srcCutdir lines 198-205: the    *)
(* output replaces the file, and the next pass reads it afresh.            *)
(***************************************************************************)
EndOfFile ==
  /\ status = "running"
  /\ pos > Len(file)
  /\ file' = out
  /\ pos' = 1
  /\ in_projects' = NoCounts
  /\ out' = <<>>
  /\ IF pass < Len(plan) THEN pass' = pass + 1 /\ UNCHANGED status
     ELSE status' = "done" /\ UNCHANGED pass
  /\ UNCHANGED <<original, plan>>

Next == CutDelimiter \/ KeptDelimiter \/ OtherLine \/ EndOfFile

Spec == Init /\ [][Next]_vars

\* Type invariant: lines are lines, and while a pass runs every count is 0
\* or 1 (line 138 raises before a count leaves that range).
TypeOK ==
  /\ original \in Seq(Lines) /\ plan \in Plans /\ pass \in 1 .. Len(plan)
  /\ file \in Seq(Lines \cup {Stub(p) : p \in Projects})
  /\ in_projects \in [Projects -> -1 .. 2]
  /\ status = "running" => in_projects \in [Projects -> 0 .. 1]
  /\ status \in {"running", "done", "raised"}

(***************************************************************************)
(* What the docstring of cutCode promises, stated over the original file:  *)
(* a project cut by some pass loses the code between its delimiters and    *)
(* the delimiters themselves; a non-BLANK opening leaves its stub; every   *)
(* other line, delimiters of kept projects included, stays, in order.      *)
(***************************************************************************)
Kept == {p \in Projects : \A k \in 1 .. Len(plan) : p \in plan[k]}

\* Line i of s lies after an opening delimiter of p not yet closed.
InRegion(s, i, p) ==
  \E j \in 1 .. i - 1 :
    /\ s[j].kind = "open" /\ s[j].proj = p
    /\ \A m \in j + 1 .. i - 1 : ~(IsDelim(s[m]) /\ s[m].proj = p)

Hidden(s, i) == \E p \in Projects \ Kept : InRegion(s, i, p)

Emit(s, i) ==
  CASE Hidden(s, i)                                   -> <<>>
    [] IsDelim(s[i]) /\ s[i].proj \in Kept             -> <<s[i]>>
    [] s[i].kind = "open" /\ ~s[i].blank               -> <<Stub(s[i].proj)>>
    [] IsDelim(s[i])                                  -> <<>>
    [] OTHER                                          -> <<s[i]>>

Expected == FlattenSeq([i \in 1 .. Len(original) |-> Emit(original, i)])

\* The delimiters of every cut project alternate open, close, and end closed.
Matched(s) ==
  \A p \in Projects \ Kept :
    LET d == SelectSeq(s, LAMBDA l : IsDelim(l) /\ l.proj = p)
    IN /\ Len(d) % 2 = 0
       /\ \A k \in 1 .. Len(d) : d[k].kind = IF k % 2 = 1 THEN "open" ELSE "close"

\* No delimiter lies inside the region of another cut project.
NoNesting(s) ==
  \A i \in 1 .. Len(s) : IsDelim(s[i]) =>
    \A p \in (Projects \ Kept) \ {s[i].proj} : ~InRegion(s, i, p)

(***************************************************************************)
(* A file whose regions are matched and not nested is cut exactly as the   *)
(* docstring says, by the chain of passes main gives it (a module pass,    *)
(* repeated when its directory is walked again, then an extra pass, each   *)
(* rewriting the file), and no pass raises on it.                          *)
(***************************************************************************)
CutMatchesDocstring ==
  Matched(original) /\ NoNesting(original) =>
    /\ status # "raised"
    /\ status = "done" => file = Expected

(***************************************************************************)
(* A file whose cut delimiters do not match is refused: CutcodeException's *)
(* "Mismatched code cut delimiter" is raised rather than the file being    *)
(* written back.                                                           *)
(***************************************************************************)
MismatchRaises == status = "done" => Matched(original)

(***************************************************************************)
(* Nested regions are cut as the docstring says too: a delimiter or stub   *)
(* inside a cut region is code between that region's delimiters.          *)
(***************************************************************************)
NestedRegionCut == Matched(original) => (status = "done" => file = Expected)
=============================================================================
