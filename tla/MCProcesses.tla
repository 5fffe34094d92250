---------------------------- MODULE MCProcesses ----------------------------
(***************************************************************************)
(* An instance of Processes for TLC: a small file system and the spawns    *)
(* that differ in how the program is found.                                *)
(***************************************************************************)
EXTENDS Processes, SequencesExt

Abs(names) == [absolute |-> TRUE, names |-> names]
Rel(names) == [absolute |-> FALSE, names |-> names]

(* The program is in /bin, /work and /work/sub, cannot be run in /opt, is a  *)
(* directory in /etc and /home/sub; /locked may not be searched and /passwd  *)
(* is a file.                                                                *)
McFiles == (<<"bin">> :> "program") @@ (<<"work">> :> "program")
           @@ (<<"work", "sub">> :> "program") @@ (<<"opt">> :> "unrunnable")
           @@ (<<"etc">> :> "directory") @@ (<<"home", "sub">> :> "directory")
           @@ (<<"locked">> :> "hidden") @@ (<<"passwd">> :> "under_file")

McDirectories == (<<"home">> :> "searchable") @@ (<<"work">> :> "searchable")
                 @@ (<<"gone">> :> "missing") @@ (<<"locked">> :> "locked")
                 @@ (<<"locked", "sub">> :> "hidden") @@ (<<"passwd">> :> "file")
                 @@ (<<"passwd", "sub">> :> "under_file")

McParentCwd == <<"home">>
McParentPath == << Abs(<<"etc">>), Rel(<<>>) >>

Default == [ valid |-> TRUE, detached |-> TRUE, cwd |-> NoPath, slash |-> NoPath,
             env_clear |-> FALSE, env_remove |-> FALSE, env_path |-> NoPath,
             stdio |-> [s \in Slots |-> IF s = 0 THEN "Pipe" ELSE "Inherit"] ]

(* Spawns that start a child: attached and detached, with and without pipes. *)
Starts ==
  { [Default EXCEPT !.env_clear = TRUE, !.stdio = [s \in Slots |-> "Pipe"]],
    [Default EXCEPT !.detached = FALSE, !.slash = Abs(<<"bin">>)],
    [Default EXCEPT !.cwd = <<"work">>, !.env_remove = TRUE,
                    !.stdio = [s \in Slots |-> IF s = 0 THEN "Null" ELSE "File"]] }

(* Every way to name the program, the place and the PATH.                    *)
Lookups ==
  { [Default EXCEPT !.detached = d, !.cwd = c, !.slash = s, !.env_clear = e, !.env_path = p,
                    !.stdio = [k \in Slots |-> "Null"]] :
      d \in BOOLEAN, c \in DOMAIN McDirectories \cup {NoPath},
      s \in {NoPath, Rel(<<"sub">>), Abs(<<"nowhere">>), Abs(<<"opt">>), Abs(<<"locked">>),
             Abs(<<"passwd">>)},
      e \in BOOLEAN,
      p \in {NoPath, << Abs(<<"etc">>), Rel(<<"sub">>), Rel(<<>>) >>,
             << Abs(<<"locked">>), Abs(<<"nowhere">>) >>, << Abs(<<"nowhere">>), Abs(<<"passwd">>) >>,
             << Abs(<<"passwd">>), Abs(<<"opt">>) >>, << Abs(<<"locked">>), Abs(<<"bin">>) >>} }
  \cup {[Default EXCEPT !.valid = FALSE]}

(* All handles start a child, or one is spawned in every way there is.       *)
McWorkloads ==
  [Handles -> Starts]
  \cup { [h \in Handles |-> IF h = CHOOSE k \in Handles : TRUE THEN p
                            ELSE [Default EXCEPT !.valid = FALSE]] : p \in Lookups }
=============================================================================
