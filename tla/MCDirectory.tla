---------------------------- MODULE MCDirectory ----------------------------
(* /d is a directory or a device, which can get the name /f; names in /d   *)
(* are absolute or relative to it.                                         *)
EXTENDS Directory

call(op, path) == [op |-> op, path |-> path]

MCCalls ==
  {[op |-> "link", old |-> <<"/", "d">>, path |-> <<"/", "f">>],
   call("unlink", <<"/", "d">>), call("unlink", <<"..", "f">>),
   [op |-> "link", old |-> <<"/", "f">>, path |-> <<"/", "d", "g">>],
   call("unlink", <<".">>), call("unlink", <<"/">>),
   call("mkdir", <<"/", "d">>), call("mknod", <<"/", "d">>), call("create", <<"/", "d", "g">>),
   call("open", <<"/", "d">>), call("chdir", <<"/", "d">>)}

\* A directory in a directory, removed while it is someone's current one.
DeepCalls ==
  {call("mkdir", <<"/", "d">>), call("mkdir", <<"/", "d", "g">>), call("chdir", <<"d", "g">>),
   call("unlink", <<"/", "d", "g">>), call("unlink", <<"/", "d">>), call("chdir", <<"..">>)}

Symmetry == Permutations(Procs)
=============================================================================
