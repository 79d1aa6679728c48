--------------------------- MODULE MCMountSession ---------------------------
(* A small instance of MountSession: the plainest mount, and one with every *)
(* option that registers a clean-up of its own.                             *)
EXTENDS MountSession

MCOptions == {{}, {"auto_dir", "key_file", "rpcbind", "session"}}

=============================================================================
