------------------------------ MODULE Session -------------------------------
(***************************************************************************)
(* What a process knows about itself (utils/init/miscinit.c): its users    *)
(* and its data directory.  A path is a sequence of names, absolute when   *)
(* it starts with Slash.                                                   *)
(*                                                                         *)
(* record_shared_memory_in_lock_file changes nothing: DirectoryLockFile is *)
(* never set, and the routine returns at once.                             *)
(***************************************************************************)
EXTENDS Sequences

CONSTANTS
  Users,      \* user ids
  Dirs,       \* what set_data_dir is called with: paths
  Cwds,       \* working directories: absolute paths
  Slash,
  INVALID_USER

VARIABLES
  CurrentUserId, SessionUserId,
  DataDir,    \* a path, <<>> before it is set
  meant,      \* the directory that DataDir was meant to be
  cwd         \* the working directory

sessionVars == <<CurrentUserId, SessionUserId, DataDir, meant, cwd>>

SessionInit ==
  /\ CurrentUserId = INVALID_USER /\ SessionUserId = INVALID_USER
  /\ DataDir = <<>> /\ meant = <<>>
  /\ cwd = CHOOSE at \in Cwds : TRUE

\* set_user_id, in a function that runs with another user's rights, and when it
\* returns.
set_user_id(u) ==
  /\ CurrentUserId' = u
  /\ UNCHANGED <<SessionUserId, DataDir, meant, cwd>>

\* Mutant: the current user is left to be set by itself.
set_session_user_id_only(u) ==
  /\ SessionUserId' = u
  /\ UNCHANGED <<CurrentUserId, DataDir, meant, cwd>>

\* set_session_user_id: the current user defaults to the session's.
set_session_user_id(u) ==
  /\ SessionUserId' = u
  /\ CurrentUserId' = IF CurrentUserId = INVALID_USER THEN u ELSE CurrentUserId
  /\ UNCHANGED <<DataDir, meant, cwd>>

\* What the kernel takes a path for.
Resolve(path, at) == IF Head(path) = Slash THEN path ELSE at \o path

\* Mutant: the path is kept as it was given.
Absolute_given(dir) == dir

\* An absolute path of a directory, with getcwd's buffer enlarged until it
\* holds the working directory.
Absolute(dir) == IF Head(dir) # Slash THEN cwd \o dir ELSE dir

\* set_data_dir.
set_data_dir(dir) ==
  /\ DataDir' = Absolute(dir)
  /\ meant' = Resolve(dir, cwd)
  /\ UNCHANGED <<CurrentUserId, SessionUserId, cwd>>

\* A backend goes to the directory of its database.
Chdir(at) ==
  /\ cwd' = at
  /\ UNCHANGED <<CurrentUserId, SessionUserId, DataDir, meant>>

SessionNext ==
  \/ \E u \in Users : set_user_id(u) \/ set_session_user_id(u)
  \/ \E dir \in Dirs : set_data_dir(dir)
  \/ \E at \in Cwds : Chdir(at)

-----------------------------------------------------------------------------
\* Whoever has a session user has a current user, so that the assertion of
\* get_user_id holds from set_session_user_id on.
UserKnown == SessionUserId # INVALID_USER => CurrentUserId # INVALID_USER

\* DataDir names the directory it was set to, wherever the process goes later.
DataDirStays == DataDir # <<>> => Resolve(DataDir, cwd) = meant
=============================================================================
