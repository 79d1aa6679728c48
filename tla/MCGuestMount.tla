---------------------------- MODULE MCGuestMount ----------------------------
(***************************************************************************)
(* A small instance of GuestMount: plain and encrypted disks with every    *)
(* source of passphrases, a ZFS pool, and a share without a disk.          *)
(***************************************************************************)
EXTENDS GuestMount

Plain == [kind |-> "disk", enc |-> 0, reuse |-> FALSE, env |-> {},
          key |-> FALSE, ro |-> FALSE, hooks |-> FALSE]

MCSetups ==
  { Plain,
    [Plain EXCEPT !.ro = TRUE, !.hooks = TRUE],
    [Plain EXCEPT !.enc = 1],
    [Plain EXCEPT !.enc = 2],
    [Plain EXCEPT !.enc = 2, !.reuse = TRUE, !.hooks = TRUE],
    [Plain EXCEPT !.enc = 2, !.env = {1, 2}],
    [Plain EXCEPT !.enc = 2, !.env = {2}],
    [Plain EXCEPT !.enc = 2, !.env = {2}, !.reuse = TRUE],
    [Plain EXCEPT !.enc = 2, !.env = {1}, !.reuse = TRUE],
    [Plain EXCEPT !.enc = 2, !.key = TRUE],
    [Plain EXCEPT !.enc = 2, !.key = TRUE, !.env = {1}],
    [Plain EXCEPT !.kind = "zfs"],
    [Plain EXCEPT !.kind = "zfs", !.enc = 2, !.ro = TRUE],
    [Plain EXCEPT !.kind = "zfs", !.enc = 1, !.env = {1}, !.hooks = TRUE],
    [Plain EXCEPT !.kind = "none", !.hooks = TRUE] }
=============================================================================
