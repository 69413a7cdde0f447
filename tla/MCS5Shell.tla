------------------------------ MODULE MCS5Shell ------------------------------
(***************************************************************************)
(* Model-checking instance of S5ShellSpec (constants in MCS5Shell.cfg).    *)
(***************************************************************************)
EXTENDS S5ShellSpec

\* Relative names, "." and "..", and an absolute path.
MCPaths ==
  {[abs |-> FALSE, segs |-> s] : s \in {<<"a">>, <<"b">>, <<".">>, <<"..">>}}
  \cup {[abs |-> TRUE, segs |-> <<"a">>]}

\* A host directory holding directory a, which holds a 3-byte file a.
MCHostTree ==
  << [dir |-> TRUE,  segs |-> <<>>,         len |-> 0],
     [dir |-> TRUE,  segs |-> <<"a">>,      len |-> 0],
     [dir |-> FALSE, segs |-> <<"a", "a">>, len |-> 3] >>

\* cd and mkdir alone, and cd of relative paths with mkdir and format.
CdMkdirSpec == ShellInit /\ [][DoCd \/ DoMkdir]_shell_vars

DoCdRelative == \E p \in {q \in Paths : ~q.abs} : Do(Cd(FS, cwd, p))
FormatSpec == ShellInit /\ [][DoCdRelative \/ DoMkdir \/ DoFormat]_shell_vars
=============================================================================
