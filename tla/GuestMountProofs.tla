-------------------------- MODULE GuestMountProofs ---------------------------
(***************************************************************************)
(* What GuestMount.cfg checks of the guest, for any number of devices and  *)
(* every request: the order of run()'s clean-ups, what the host knows from *)
(* the lines on the console by the time the server is ready, that run()    *)
(* implements GuestReport, and that host and guest agree on the prompts.   *)
(*                                                                         *)
(* The first rests on the Deferred stack, whose actions are added in the   *)
(* order of Rank.  The second is about the lines that are printed and not  *)
(* yet read: no line about the share comes after READY, and the lines      *)
(* before READY leave forced output off.  The third follows from the place *)
(* of the report at the bottom of the stack.  For the fourth the messages  *)
(* and lines under way are read as a Path of prompts started and ended.    *)
(***************************************************************************)
EXTENDS GuestMount, DeferredProofs

Rank == [a \in Actions |->
           CASE a = "report" -> 1 [] a = "prompt_end" -> 2 [] a = "force_off" -> 3
             [] a = "unmount" -> 4 [] OTHER -> 5]

\* a stack of clean-up actions in the order of run()
Stack(d) == d \in Seq(Actions) /\ Ordered(d, Rank)

Left == Range(deferred)
Lines == Range(console)

\* run() has neither returned nor been killed
Running == gpc \notin {"unwind", "off"}

Mounting == {"mounting", "zfs", "zfs_read"}
Hooked   == {"options", "exports", "entry", "serving"}
Mounted  == {"after", "after_run", "register"} \cup Hooked
Unnamed  == {"start", "common", "common_read", "dev", "dev_read", "volumes"}
Unshared == Points \ {"entry", "serving", "unwind", "off"}

(* Which clean-ups are registered at each point of run(). *)
StackInv ==
  /\ Running =>
       /\ "report" \in Left
       /\ "prompt_end" \in Left <=> gpc \in {"common_read", "dev_read"}
       /\ "force_off" \in Left <=> gpc \in Mounting
       /\ "unmount" \in Left <=> setup.kind # "none" /\ gpc \in Mounted
       /\ "before_unmount" \in Left <=> gpc \in Hooked
  /\ gpc \in {"zfs", "zfs_read"} => setup.kind = "zfs"
  /\ gpc = "mounting" => setup.kind = "disk"
  /\ gpc \in {"dev_read", "zfs_read"} => dev <= MaxDevices

(* What has to be unmounted, and what the hook relies on. *)
FsInv ==
  /\ "unmount" \in Left => fs = "mounted"
  /\ setup.kind = "disk" /\ fs # "none" => "unmount" \in Left
  /\ "before_unmount" \in Left /\ setup.kind # "none" => "unmount" \in Left
  /\ report => Left = {} /\ ~Running

(* What the guest knows of the share is read by the host or on its way. *)
InfoInv ==
  /\ rd.label => info.label
  /\ "label" \in Lines => info.label
  /\ info.label => rd.label \/ "label" \in Lines
  /\ gpc \in Unnamed => ~info.label
  /\ rd.exports \subseteq info.exports
  /\ Exports \cap Lines \subseteq info.exports
  /\ info.exports \subseteq rd.exports \cup Lines
  /\ gpc \in Unshared => info.exports = {}
  /\ info.ro => setup.ro \/ rd.ro \/ "ro" \in Lines

\* the lines that READY has to come after
Told == {"label", "ro", "exp1", "exp2", "on"}

ReadyLast(s) == \A i, j \in 1..Len(s) : s[i] = "READY" /\ s[j] \in Told => j < i

\* after the first n lines of s, output is not shown if it was shown before them only as `on` says
Settled(s, on, n) ==
  /\ on => \E k \in 1..n : s[k] = "off"
  /\ \A j \in 1..n : s[j] = "on" => \E k \in 1..n : j < k /\ s[k] = "off"

ReadyQuiet(s, on) == \A i \in 1..Len(s) : s[i] = "READY" => Settled(s, on, i - 1)

(* READY is printed once run() has nothing more to say; a server that is   *)
(* ready was announced with everything read and forced output off.          *)
ReadyInv ==
  /\ nfsUp => gpc \in {"serving", "unwind", "off"}
  /\ "READY" \in Lines => nfsUp
  /\ status = "ready" => nfsUp /\ Lines \cap Told = {} /\ ~log
  /\ ReadyLast(console)

Quiet == Settled(console, log, Len(console))
Forced == gpc \in {"before_run", "after_run"} \/ "force_off" \in Left

(* Forced output is switched off, unless the VM is killed; PtyReader ends  *)
(* at the end of the output or at an error.                                 *)
LogInv ==
  /\ ReadyQuiet(console, log)
  /\ ~killed /\ ~Forced => Quiet
  /\ eof => cut \/ (gpc = "off" /\ console = << >>)
  /\ status = "failed" => eof
  /\ nfsUp /\ ~killed => ~Forced
  /\ gpc = "off" /\ ~killed => Left = {}
  /\ killed => gpc = "off"

GuestInv ==
  /\ TypeOK /\ Ordered(deferred, Rank)
  /\ StackInv /\ FsInv /\ InfoInv /\ ReadyInv /\ LogInv

-----------------------------------------------------------------------------
(* The console                                                              *)

(* Lines in front of the n-th decide what n lines leave. *)
LEMMA SettledPrefix ==
  ASSUME NEW s, NEW e, NEW on, NEW n \in Nat, \A i \in 1..n : e[i] = s[i]
  PROVE  Settled(e, on, n) <=> Settled(s, on, n)
BY DEF Settled

(* One more line is printed. *)
LEMMA LinePrinted ==
  ASSUME NEW s \in Seq(Tags), NEW t \in Tags, NEW on
  PROVE  /\ Append(s, t) \in Seq(Tags) /\ Range(Append(s, t)) = Range(s) \cup {t}
         /\ ReadyLast(s) /\ (t \in Told => "READY" \notin Range(s)) => ReadyLast(Append(s, t))
         /\ ReadyQuiet(s, on) /\ (t = "READY" => Settled(s, on, Len(s)))
              => ReadyQuiet(Append(s, t), on)
         /\ t = "off" \/ (t # "on" /\ Settled(s, on, Len(s)))
              => Settled(Append(s, t), on, Len(Append(s, t)))
<1> DEFINE e == Append(s, t)
           n == Len(s)
<1>1. n \in Nat /\ Range(s) = {s[i] : i \in 1..n} BY SeqByPosition
<1>2. /\ e \in Seq(Tags) /\ Len(e) = n + 1 /\ (\A i \in 1..n : e[i] = s[i]) /\ e[n + 1] = t
  OBVIOUS
<1> HIDE DEF e
<1>3. Range(e) = {e[i] : i \in 1..(n + 1)} BY <1>2, SeqByPosition
<1>4. ReadyLast(s) <=> \A i, j \in 1..n : s[i] = "READY" /\ s[j] \in Told => j < i
  BY DEF ReadyLast
<1>5. ReadyQuiet(s, on) <=> \A i \in 1..n : s[i] = "READY" => Settled(s, on, i - 1)
  BY DEF ReadyQuiet
<1>6. SUFFICES /\ e \in Seq(Tags) /\ Range(e) = Range(s) \cup {t}
               /\ ReadyLast(s) /\ (t \in Told => "READY" \notin Range(s)) => ReadyLast(e)
               /\ ReadyQuiet(s, on) /\ (t = "READY" => Settled(s, on, n)) => ReadyQuiet(e, on)
               /\ t = "off" \/ (t # "on" /\ Settled(s, on, n)) => Settled(e, on, n + 1)
  BY <1>2, Zenon DEF e
<1> HIDE DEF n
<1>7. \A i \in 1..(n + 1) : i \in 1..n \/ i = n + 1 BY <1>1
<1>8. \A i \in 1..n : i \in 1..(n + 1) /\ i < n + 1 BY <1>1
<1>9. n + 1 \in 1..(n + 1) BY <1>1
<1>10. Range(e) = Range(s) \cup {t} BY <1>1, <1>2, <1>3, <1>7, <1>8, <1>9
<1>11. ASSUME ReadyLast(s), t \in Told => "READY" \notin Range(s) PROVE ReadyLast(e)
  <2>1. SUFFICES ASSUME NEW i \in 1..(n + 1), NEW j \in 1..(n + 1), e[i] = "READY", e[j] \in Told
                 PROVE  j < i
    BY <1>2 DEF ReadyLast
  <2>2. CASE i \in 1..n /\ j \in 1..n
    <3>1. s[i] = "READY" /\ s[j] \in Told BY <1>2, <2>1, <2>2
    <3>2. QED BY <1>4, <1>11, <2>2, <3>1
  <2>3. CASE i = n + 1 /\ j \in 1..n BY <1>8, <2>3
  <2>4. CASE j = n + 1
    <3>1. t \in Told /\ t # "READY" BY <1>2, <2>1, <2>4 DEF Told
    <3>2. i \in 1..n BY <1>2, <1>7, <2>1, <3>1
    <3>3. "READY" \in Range(s) BY <1>1, <1>2, <2>1, <3>2
    <3>4. QED BY <1>11, <3>1, <3>3
  <2>5. QED BY <1>7, <2>2, <2>3, <2>4
<1>12. ASSUME ReadyQuiet(s, on), t = "READY" => Settled(s, on, n) PROVE ReadyQuiet(e, on)
  <2>1. SUFFICES ASSUME NEW i \in 1..(n + 1), e[i] = "READY" PROVE Settled(e, on, i - 1)
    BY <1>2 DEF ReadyQuiet
  <2>2. i - 1 \in Nat /\ \A k \in 1..(i - 1) : k \in 1..n BY <1>1
  <2>3. Settled(e, on, i - 1) <=> Settled(s, on, i - 1) BY <1>2, <2>2, SettledPrefix
  <2>4. CASE i \in 1..n BY <1>2, <1>5, <1>12, <2>1, <2>3, <2>4
  <2>5. CASE i = n + 1
    <3>1. t = "READY" /\ i - 1 = n BY <1>1, <1>2, <2>1, <2>5
    <3>2. QED BY <1>12, <2>3, <3>1
  <2>6. QED BY <1>7, <2>4, <2>5
<1>13. ASSUME t = "off" PROVE Settled(e, on, n + 1)
  <2>1. ASSUME NEW j \in 1..(n + 1), e[j] = "on" PROVE j < n + 1
    BY <1>2, <1>7, <1>8, <1>13, <2>1
  <2>2. QED BY <1>2, <1>9, <1>13, <2>1 DEF Settled
<1>14. ASSUME t # "on", Settled(s, on, n) PROVE Settled(e, on, n + 1)
  <2>1. on => \E k \in 1..(n + 1) : e[k] = "off" BY <1>2, <1>8, <1>14 DEF Settled
  <2>2. ASSUME NEW j \in 1..(n + 1), e[j] = "on" PROVE \E k \in 1..(n + 1) : j < k /\ e[k] = "off"
    <3>1. j \in 1..n /\ s[j] = "on" BY <1>2, <1>7, <1>14, <2>2
    <3>2. PICK k \in 1..n : j < k /\ s[k] = "off" BY <1>14, <3>1 DEF Settled
    <3>3. QED BY <1>2, <1>8, <3>2
  <2>3. QED BY <2>1, <2>2 DEF Settled
<1>15. QED BY <1>2, <1>10, <1>11, <1>12, <1>13, <1>14, Zenon

(* One line is read; `now` is what it makes of the output. *)
LEMMA LineRead ==
  ASSUME NEW s \in Seq(Tags), s # << >>, NEW on, NEW now,
         now => Head(s) = "on" \/ (on /\ Head(s) # "off")
  PROVE  /\ Head(s) \in Tags /\ Tail(s) \in Seq(Tags) /\ Range(s) = Range(Tail(s)) \cup {Head(s)}
         /\ ReadyLast(s) => ReadyLast(Tail(s)) /\ (Head(s) = "READY" => Range(Tail(s)) \cap Told = {})
         /\ ReadyQuiet(s, on) => ReadyQuiet(Tail(s), now) /\ (Head(s) = "READY" => ~on)
         /\ Settled(s, on, Len(s)) => Settled(Tail(s), now, Len(Tail(s)))
<1> DEFINE e == Tail(s)
           n == Len(s) - 1
           h == Head(s)
<1>1. n \in Nat /\ Len(s) = n + 1 /\ Range(s) = {s[i] : i \in 1..(n + 1)} BY SeqByPosition
<1>2. /\ h \in Tags /\ h = s[1]
      /\ e \in Seq(Tags) /\ Len(e) = n /\ \A i \in 1..n : e[i] = s[i + 1]
  OBVIOUS
<1>3. now => h = "on" \/ (on /\ h # "off") OBVIOUS
<1> HIDE DEF e, h
<1>4. Range(e) = {e[i] : i \in 1..n} BY <1>2, SeqByPosition
<1>5. ReadyLast(s) <=> \A i, j \in 1..(n + 1) : s[i] = "READY" /\ s[j] \in Told => j < i
  BY <1>1 DEF ReadyLast
<1>6. ReadyQuiet(s, on) <=> \A i \in 1..(n + 1) : s[i] = "READY" => Settled(s, on, i - 1)
  BY <1>1 DEF ReadyQuiet
<1>7. SUFFICES /\ Range(s) = Range(e) \cup {h}
               /\ ReadyLast(s) => ReadyLast(e) /\ (h = "READY" => Range(e) \cap Told = {})
               /\ ReadyQuiet(s, on) => ReadyQuiet(e, now) /\ (h = "READY" => ~on)
               /\ Settled(s, on, n + 1) => Settled(e, now, n)
  BY <1>1, <1>2, Zenon DEF e, h
<1> HIDE DEF n
<1>8. \A i \in 1..n : i + 1 \in 1..(n + 1) BY <1>1
<1>9. 1 \in 1..(n + 1) /\ \A i \in 1..(n + 1) : i = 1 \/ (i - 1 \in 1..n /\ (i - 1) + 1 = i) BY <1>1
<1>10. Range(s) = Range(e) \cup {h}
  <2>1. ASSUME NEW x \in Range(s) PROVE x \in Range(e) \cup {h}
    <3>1. PICK i \in 1..(n + 1) : x = s[i] BY <1>1, <2>1
    <3>2. CASE i = 1 BY <1>2, <3>1, <3>2
    <3>3. CASE i - 1 \in 1..n /\ (i - 1) + 1 = i
      <4>1. e[i - 1] = x BY <1>2, <3>1, <3>3
      <4>2. QED BY <1>4, <3>3, <4>1
    <3>4. QED BY <1>9, <3>2, <3>3
  <2>2. h \in Range(s) BY <1>1, <1>2, <1>9
  <2>3. ASSUME NEW x \in Range(e) PROVE x \in Range(s)
    <3>1. PICK i \in 1..n : x = e[i] BY <1>4, <2>3
    <3>2. s[i + 1] = x /\ i + 1 \in 1..(n + 1) BY <1>2, <1>8, <3>1
    <3>3. QED BY <1>1, <3>2
  <2>4. QED BY <2>1, <2>2, <2>3
<1>11. ASSUME ReadyLast(s) PROVE ReadyLast(e) /\ (h = "READY" => Range(e) \cap Told = {})
  <2>1. ASSUME NEW i \in 1..n, NEW j \in 1..n, e[i] = "READY", e[j] \in Told PROVE j < i
    <3>1. s[i + 1] = "READY" /\ s[j + 1] \in Told BY <1>2, <2>1
    <3>2. j + 1 < i + 1 BY <1>5, <1>8, <1>11, <3>1
    <3>3. QED BY <1>1, <3>2
  <2>2. ASSUME h = "READY", NEW j \in 1..n, e[j] \in Told PROVE FALSE
    <3>1. s[1] = "READY" /\ s[j + 1] \in Told BY <1>2, <2>2
    <3>2. j + 1 < 1 BY <1>5, <1>8, <1>9, <1>11, <3>1
    <3>3. QED BY <1>1, <3>2
  <2>3. ReadyLast(e) BY <1>2, <2>1 DEF ReadyLast
  <2>4. h = "READY" => Range(e) \cap Told = {} BY <1>4, <2>2
  <2>5. QED BY <2>3, <2>4
<1>12. ASSUME NEW m \in 0..n, Settled(s, on, m + 1) PROVE Settled(e, now, m)
  <2>1. \A i \in 1..m : i \in 1..n /\ e[i] = s[i + 1] /\ i + 1 \in 1..(m + 1) BY <1>1, <1>2
  <2>2. 1 \in 1..(m + 1) /\ \A i \in 1..(m + 1) : i # 1 => i - 1 \in 1..m /\ (i - 1) + 1 = i
    BY <1>1
  <2>3. ASSUME now PROVE \E k \in 1..m : e[k] = "off"
    <3>1. \E k \in 1..(m + 1) : k # 1 /\ s[k] = "off"
      <4>1. CASE h = "on"
        <5>1. PICK k \in 1..(m + 1) : 1 < k /\ s[k] = "off"
          BY <1>2, <1>12, <2>2, <4>1 DEF Settled
        <5>2. QED BY <5>1
      <4>2. CASE on /\ h # "off"
        <5>1. PICK k \in 1..(m + 1) : s[k] = "off" BY <1>12, <4>2 DEF Settled
        <5>2. k # 1 BY <1>2, <4>2, <5>1
        <5>3. QED BY <5>1, <5>2
      <4>3. QED BY <1>3, <2>3, <4>1, <4>2
    <3>2. PICK k \in 1..(m + 1) : k # 1 /\ s[k] = "off" BY <3>1
    <3>3. k - 1 \in 1..m /\ e[k - 1] = "off" BY <2>1, <2>2, <3>2
    <3>4. QED BY <3>3
  <2>4. ASSUME NEW j \in 1..m, e[j] = "on" PROVE \E k \in 1..m : j < k /\ e[k] = "off"
    <3>1. s[j + 1] = "on" /\ j + 1 \in 1..(m + 1) BY <2>1, <2>4
    <3>2. PICK k \in 1..(m + 1) : j + 1 < k /\ s[k] = "off" BY <1>12, <3>1 DEF Settled
    <3>3. k # 1 /\ j < k - 1 BY <1>1, <3>2
    <3>4. k - 1 \in 1..m /\ e[k - 1] = "off" BY <2>1, <2>2, <3>2, <3>3
    <3>5. QED BY <3>3, <3>4
  <2>5. QED BY <2>3, <2>4 DEF Settled
<1>13. ASSUME ReadyQuiet(s, on) PROVE ReadyQuiet(e, now) /\ (h = "READY" => ~on)
  <2>1. ASSUME NEW i \in 1..n, e[i] = "READY" PROVE Settled(e, now, i - 1)
    <3>1. s[i + 1] = "READY" /\ i + 1 \in 1..(n + 1) /\ (i + 1) - 1 = (i - 1) + 1 BY <1>2, <1>8, <2>1
    <3>2. Settled(s, on, (i - 1) + 1) BY <1>6, <1>13, <3>1
    <3>3. i - 1 \in 0..n BY <1>1
    <3>4. QED BY <1>12, <3>2, <3>3
  <2>2. ASSUME h = "READY" PROVE ~on
    <3>1. Settled(s, on, 1 - 1) BY <1>2, <1>6, <1>9, <1>13, <2>2
    <3>2. QED BY <3>1 DEF Settled
  <2>3. ReadyQuiet(e, now) BY <1>2, <2>1 DEF ReadyQuiet
  <2>4. QED BY <2>2, <2>3
<1>14. n \in 0..n BY <1>1
<1>15. QED BY <1>10, <1>11, <1>12, <1>13, <1>14

-----------------------------------------------------------------------------
(* The stack                                                                *)

(* The ranks of the actions. *)
LEMMA RankValues ==
  /\ Rank \in [Actions -> Nat]
  /\ Rank["report"] = 1 /\ Rank["prompt_end"] = 2 /\ Rank["force_off"] = 3
  /\ Rank["unmount"] = 4 /\ Rank["before_unmount"] = 5
BY DEF Rank, Actions

(* Deferred::add at the end of the order. *)
LEMMA StackAdd ==
  ASSUME NEW d, Stack(d), NEW a \in Actions, \A x \in Range(d) : Rank[x] < Rank[a]
  PROVE  Stack(Add(d, a)) /\ Range(Add(d, a)) = Range(d) \cup {a}
<1>1. d \in Seq(Actions) /\ Ordered(d, Rank) BY DEF Stack
<1>2. Rank \in [Actions -> Nat] BY RankValues
<1>3. /\ Add(d, a) \in Seq(Actions) /\ Ordered(Add(d, a), Rank)
      /\ Range(Add(d, a)) = Range(d) \cup {a}
  BY <1>1, <1>2, AddOrdered
<1>4. QED BY <1>3 DEF Stack

(* Deferred::remove takes out one action. *)
LEMMA StackPop ==
  ASSUME NEW d, Stack(d), NEW a
  PROVE  Stack(PopAction(d, a)) /\ Range(PopAction(d, a)) = Range(d) \ {a}
<1>1. d \in Seq(Actions) /\ Ordered(d, Rank) BY DEF Stack
<1>2. Rank \in [Actions -> Nat] BY RankValues
<1>3. /\ PopAction(d, a) \in Seq(Actions) /\ Ordered(PopAction(d, a), Rank)
      /\ Range(PopAction(d, a)) = Range(d) \ {a}
  BY <1>1, <1>2, PopOrdered
<1>4. QED BY <1>3 DEF Stack

(* Drop runs the action of the highest rank. *)
LEMMA StackDrop ==
  ASSUME NEW d, Stack(d), d # << >>
  PROVE  /\ Stack(Front(d)) /\ Range(Front(d)) = Range(d) \ {Last(d)}
         /\ Last(d) \in Range(d) /\ Last(d) \in Actions
         /\ \A x \in Range(d) : x = Last(d) \/ Rank[x] < Rank[Last(d)]
BY DropOrdered, RankValues, Zenon DEF Stack

(* The empty stack. *)
LEMMA StackEmpty == Stack(<< >>) /\ Range(<< >>) = {}
BY DEF Stack, Ordered, Range

(* The actions that are left are actions. *)
LEMMA LeftActions == ASSUME GuestInv PROVE Stack(deferred) /\ Left \subseteq Actions
<1>1. deferred \in Seq(Actions) /\ Stack(deferred) BY DEF GuestInv, TypeOK, Stack
<1>2. QED BY <1>1, SeqByPosition DEF Left

-----------------------------------------------------------------------------
(* What a step prints                                                       *)

\* the console after a step that printed the lines T
Printed(T) ==
  /\ console' \in Seq(Tags) /\ Lines' = Lines \cup T
  /\ ReadyLast(console') /\ ReadyQuiet(console', log')

(* Nothing is printed. *)
LEMMA SaidNothing ==
  ASSUME GuestInv, log' = log, console' = console \/ console' = console \o << >>
  PROVE  Printed({}) /\ (Quiet => Quiet') /\ console' = console
<1>1. console \in Seq(Tags) BY DEF GuestInv, TypeOK
<1>2. console' = console BY <1>1
<1>3. QED BY <1>1, <1>2 DEF Printed, Lines, Quiet, GuestInv, ReadyInv, LogInv

(* One line is printed; those about the share before READY only, READY     *)
(* only with the output quiet.                                              *)
LEMMA SaidOne ==
  ASSUME GuestInv, log' = log, NEW t \in Tags, console' = console \o <<t>>,
         t \in Told => ~nfsUp, t = "READY" => Quiet
  PROVE  Printed({t}) /\ (t = "off" \/ (t # "on" /\ Quiet) => Quiet')
<1>1. console \in Seq(Tags) BY DEF GuestInv, TypeOK
<1>2. console' = Append(console, t) BY <1>1
<1>3. t \in Told => "READY" \notin Range(console) BY DEF GuestInv, ReadyInv, Lines
<1>4. ReadyLast(console) /\ ReadyQuiet(console, log) BY DEF GuestInv, ReadyInv, LogInv
<1> DEFINE c == Append(console, t)
<1>5. /\ c \in Seq(Tags) /\ Range(c) = Range(console) \cup {t}
      /\ ReadyLast(c) /\ ReadyQuiet(c, log)
      /\ (t = "off" \/ (t # "on" /\ Quiet) => Settled(c, log, Len(c)))
  BY <1>1, <1>3, <1>4, LinePrinted DEF Quiet
<1> HIDE DEF c
<1>6. console' = c BY <1>2 DEF c
<1>7. QED BY <1>5, <1>6 DEF Printed, Lines, Quiet

(* Two lines are printed. *)
LEMMA SaidTwo ==
  ASSUME GuestInv, log' = log, NEW t \in Tags, NEW u \in Tags, console' = console \o <<t, u>>,
         ~nfsUp, t # "READY", u # "READY"
  PROVE  Printed({t, u}) /\ (u = "off" \/ (t # "on" /\ u # "on" /\ Quiet) => Quiet')
<1> DEFINE c == Append(console, t)
<1>1. console \in Seq(Tags) BY DEF GuestInv, TypeOK
<1>2. console' = Append(c, u) BY <1>1
<1>3. "READY" \notin Range(console) BY DEF GuestInv, ReadyInv, Lines
<1>4. ReadyLast(console) /\ ReadyQuiet(console, log) BY DEF GuestInv, ReadyInv, LogInv
<1>5. /\ c \in Seq(Tags) /\ Range(c) = Range(console) \cup {t}
      /\ ReadyLast(c) /\ ReadyQuiet(c, log) /\ (t # "on" /\ Quiet => Settled(c, log, Len(c)))
  BY <1>1, <1>3, <1>4, LinePrinted DEF Quiet
<1> HIDE DEF c
<1> DEFINE e == Append(c, u)
<1>6. /\ e \in Seq(Tags) /\ Range(e) = Range(c) \cup {u}
      /\ ReadyLast(e) /\ ReadyQuiet(e, log)
      /\ (u = "off" \/ (u # "on" /\ Settled(c, log, Len(c))) => Settled(e, log, Len(e)))
  BY <1>3, <1>5, LinePrinted
<1> HIDE DEF e
<1>7. console' = e BY <1>2 DEF e
<1>8. Range(e) = Range(console) \cup {t, u} BY <1>5, <1>6
<1>9. QED BY <1>5, <1>6, <1>7, <1>8 DEF Printed, Lines, Quiet

USE DEF Running, Mounting, Hooked, Mounted, Unnamed, Unshared, readVars, pwdVars

-----------------------------------------------------------------------------
(* The guest                                                                *)

\* what a step of run() leaves to everybody else
Others == UNCHANGED <<setup, killed, readVars, prompts, hpc, shown, pwdVars, quit>>

(* run() returns early, or ends: a `?`, a panic or the Quit. *)
LEMMA FailKept ==
  ASSUME GuestInv, Others, gpc \in Points \ {"before_run", "after_run", "unwind", "off"},
         gpc' = "unwind", result' \in {"ok", "err", "panic"},
         fs' \in {"none", "imported", "partial", "mounted"},
         fs' = fs \/ (setup.kind = "zfs" /\ "unmount" \notin Left),
         taken' \in Nat, UNCHANGED <<dev, pwd, deferred, info, nfsUp, report, console>>
  PROVE  GuestInv'
<1>1. Stack(deferred') /\ Left' = Left
  BY LeftActions DEF Left
<1>2. Printed({}) /\ (Quiet => Quiet') /\ console' = console
  BY SaidNothing DEF Others
<1>3. TypeOK' BY <1>1, <1>2 DEF GuestInv, TypeOK, Points, Stack, Printed, Others
<1>4. StackInv' BY <1>1, <1>2 DEF GuestInv, StackInv, Others, Points
<1>5. FsInv' BY <1>1, <1>2 DEF GuestInv, FsInv, Others
<1>6. InfoInv' BY <1>1, <1>2 DEF GuestInv, InfoInv, Others, Points, Printed, Exports
<1>7. ReadyInv' BY <1>1, <1>2 DEF GuestInv, ReadyInv, Others, Printed
<1>8. LogInv' BY <1>1, <1>2 DEF GuestInv, LogInv, Others, Printed, Forced
<1>9. QED BY <1>1, <1>3, <1>4, <1>5, <1>6, <1>7, <1>8 DEF GuestInv, Stack

(* run() goes on without a word and with the clean-ups it has. *)
LEMMA MoveKept ==
  ASSUME GuestInv, Others, result' = result,
         <<gpc, gpc'>> \in {<<"start", "common">>, <<"common", "volumes">>, <<"common", "dev">>,
           <<"dev", "dev">>, <<"dev", "volumes">>, <<"import", "before">>, <<"before", "mount">>,
           <<"mount", "after">>, <<"zfs", "zfs">>, <<"zfs_read", "zfs">>, <<"after", "register">>,
           <<"entry", "serving">>},
         gpc = "mount" => setup.kind = "none",
         dev' \in 1..MaxDevices + 1, pwd' \in BOOLEAN, taken' \in Nat,
         fs' \in {"none", "imported", "partial", "mounted"},
         fs' = fs \/ (setup.kind = "zfs" /\ "unmount" \notin Left),
         UNCHANGED <<deferred, info, nfsUp, report, console>>
  PROVE  GuestInv'
<1>1. Stack(deferred') /\ Left' = Left
  BY LeftActions DEF Left
<1>2. Printed({}) /\ (Quiet => Quiet') /\ console' = console
  BY SaidNothing DEF Others
<1>3. TypeOK' BY <1>1, <1>2 DEF GuestInv, TypeOK, Points, Stack, Printed, Others
<1>4. StackInv' BY <1>1, <1>2 DEF GuestInv, StackInv, Others, Points
<1>5. FsInv' BY <1>1, <1>2 DEF GuestInv, FsInv, Others
<1>6. InfoInv' BY <1>1, <1>2 DEF GuestInv, InfoInv, Others, Points, Printed, Exports
<1>7. ReadyInv' BY <1>1, <1>2 DEF GuestInv, ReadyInv, Others, Printed
<1>8. LogInv' BY <1>1, <1>2 DEF GuestInv, LogInv, Others, Printed, Forced
<1>9. QED BY <1>1, <1>3, <1>4, <1>5, <1>6, <1>7, <1>8 DEF GuestInv, Stack

(* The user is asked for a passphrase. *)
LEMMA PromptKept ==
  ASSUME GuestInv, Others, result' = result, <<gpc, gpc'>> \in {<<"common", "common_read">>, <<"dev", "dev_read">>},
         gpc = "dev" => dev <= MaxDevices,
         console' = console \o <<"start">>, deferred' = Add(deferred, "prompt_end"),
         UNCHANGED <<dev, pwd, fs, info, nfsUp, report, taken>>
  PROVE  GuestInv'
<1>1. Left \subseteq {"report"}
  BY LeftActions DEF GuestInv, StackInv, Actions
<1>2. Stack(deferred') /\ Left' = Left \cup {"prompt_end"}
  BY <1>1, LeftActions, StackAdd, RankValues DEF Left, Actions
<1>3. Printed({"start"}) /\ (Quiet => Quiet')
  BY SaidOne DEF Others, Tags, Told
<1>4. TypeOK' BY <1>1, <1>2, <1>3 DEF GuestInv, TypeOK, Points, Stack, Printed, Others
<1>5. StackInv' BY <1>1, <1>2, <1>3 DEF GuestInv, StackInv, Others, Points
<1>6. FsInv' BY <1>1, <1>2, <1>3 DEF GuestInv, FsInv, Others
<1>7. InfoInv' BY <1>1, <1>2, <1>3 DEF GuestInv, InfoInv, Others, Points, Printed, Exports
<1>8. ReadyInv' BY <1>1, <1>2, <1>3 DEF GuestInv, ReadyInv, Others, Printed
<1>9. LogInv' BY <1>1, <1>2, <1>3 DEF GuestInv, LogInv, Others, Printed, Forced
<1>10. QED BY <1>2, <1>4, <1>5, <1>6, <1>7, <1>8, <1>9 DEF GuestInv, Stack

(* The prompt has ended, with or without a passphrase. *)
LEMMA PromptEndKept ==
  ASSUME GuestInv, Others, gpc \in {"common_read", "dev_read"}, gpc' \in {"dev", "unwind"},
         result' \in {"none", "ok", "err", "panic"},
         dev' \in 1..MaxDevices + 1, pwd' \in BOOLEAN, taken' \in Nat,
         console' = console \o <<"end">>, deferred' = PopAction(deferred, "prompt_end"),
         UNCHANGED <<fs, info, nfsUp, report>>
  PROVE  GuestInv'
<1>1. Stack(deferred') /\ Left' = Left \ {"prompt_end"}
  BY LeftActions, StackPop DEF Left
<1>2. Printed({"end"}) /\ (Quiet => Quiet')
  BY SaidOne DEF Others, Tags, Told
<1>3. TypeOK' BY <1>1, <1>2 DEF GuestInv, TypeOK, Points, Stack, Printed, Others
<1>4. StackInv' BY <1>1, <1>2 DEF GuestInv, StackInv, Others, Points
<1>5. FsInv' BY <1>1, <1>2 DEF GuestInv, FsInv, Others
<1>6. InfoInv' BY <1>1, <1>2 DEF GuestInv, InfoInv, Others, Points, Printed, Exports
<1>7. ReadyInv' BY <1>1, <1>2 DEF GuestInv, ReadyInv, Others, Printed
<1>8. LogInv' BY <1>1, <1>2 DEF GuestInv, LogInv, Others, Printed, Forced
<1>9. QED BY <1>1, <1>3, <1>4, <1>5, <1>6, <1>7, <1>8 DEF GuestInv, Stack

(* The file system has a label, and it is announced. *)
LEMMA LabelKept ==
  ASSUME GuestInv, Others, result' = result, gpc = "volumes", gpc' = "import", console' = console \o <<"label">>,
         info' \in [label : BOOLEAN, ro : BOOLEAN, exports : SUBSET Exports],
         info'.label /\ info'.ro = info.ro /\ info'.exports = info.exports,
         UNCHANGED <<dev, pwd, deferred, fs, nfsUp, report, taken>>
  PROVE  GuestInv'
<1>1. Stack(deferred') /\ Left' = Left
  BY LeftActions DEF Left
<1>2. ~nfsUp
  BY DEF GuestInv, ReadyInv
<1>3. Printed({"label"}) /\ (Quiet => Quiet')
  BY <1>2, SaidOne DEF Others, Tags, Told
<1>4. TypeOK' BY <1>1, <1>2, <1>3 DEF GuestInv, TypeOK, Points, Stack, Printed, Others
<1>5. StackInv' BY <1>1, <1>2, <1>3 DEF GuestInv, StackInv, Others, Points
<1>6. FsInv' BY <1>1, <1>2, <1>3 DEF GuestInv, FsInv, Others
<1>7. InfoInv' BY <1>1, <1>2, <1>3 DEF GuestInv, InfoInv, Others, Points, Printed, Exports, TypeOK
<1>8. ReadyInv' BY <1>1, <1>2, <1>3 DEF GuestInv, ReadyInv, Others, Printed
<1>9. LogInv' BY <1>1, <1>2, <1>3 DEF GuestInv, LogInv, Others, Printed, Forced
<1>10. QED BY <1>1, <1>4, <1>5, <1>6, <1>7, <1>8, <1>9 DEF GuestInv, Stack

(* The file system has no label. *)
LEMMA NoLabelKept ==
  ASSUME GuestInv, Others, result' = result, gpc = "volumes", gpc' = "import", console' = console \o << >>,
         info' \in [label : BOOLEAN, ro : BOOLEAN, exports : SUBSET Exports],
         ~info'.label /\ info'.ro = info.ro /\ info'.exports = info.exports,
         UNCHANGED <<dev, pwd, deferred, fs, nfsUp, report, taken>>
  PROVE  GuestInv'
<1>1. Stack(deferred') /\ Left' = Left
  BY LeftActions DEF Left
<1>2. Printed({}) /\ (Quiet => Quiet') /\ console' = console
  BY SaidNothing DEF Others
<1>3. TypeOK' BY <1>1, <1>2 DEF GuestInv, TypeOK, Points, Stack, Printed, Others
<1>4. StackInv' BY <1>1, <1>2 DEF GuestInv, StackInv, Others, Points
<1>5. FsInv' BY <1>1, <1>2 DEF GuestInv, FsInv, Others
<1>6. InfoInv' BY <1>1, <1>2 DEF GuestInv, InfoInv, Others, Points, Printed, Exports, TypeOK
<1>7. ReadyInv' BY <1>1, <1>2 DEF GuestInv, ReadyInv, Others, Printed
<1>8. LogInv' BY <1>1, <1>2 DEF GuestInv, LogInv, Others, Printed, Forced
<1>9. QED BY <1>1, <1>3, <1>4, <1>5, <1>6, <1>7, <1>8 DEF GuestInv, Stack

(* The pools are imported; the warning about encryption is shown. *)
LEMMA WarnKept ==
  ASSUME GuestInv, Others, result' = result, gpc = "import", gpc' = "before", setup.kind = "zfs",
         fs' = "imported", console' = console \o <<"on", "off">>,
         UNCHANGED <<dev, pwd, deferred, info, nfsUp, report, taken>>
  PROVE  GuestInv'
<1>1. Stack(deferred') /\ Left' = Left
  BY LeftActions DEF Left
<1>2. ~nfsUp
  BY DEF GuestInv, ReadyInv
<1>3. Printed({"on", "off"}) /\ Quiet'
  BY <1>2, SaidTwo DEF Others, Tags, Told
<1>4. TypeOK' BY <1>1, <1>2, <1>3 DEF GuestInv, TypeOK, Points, Stack, Printed, Others
<1>5. StackInv' BY <1>1, <1>2, <1>3 DEF GuestInv, StackInv, Others, Points
<1>6. FsInv' BY <1>1, <1>2, <1>3 DEF GuestInv, FsInv, Others, StackInv
<1>7. InfoInv' BY <1>1, <1>2, <1>3 DEF GuestInv, InfoInv, Others, Points, Printed, Exports
<1>8. ReadyInv' BY <1>1, <1>2, <1>3 DEF GuestInv, ReadyInv, Others, Printed
<1>9. LogInv' BY <1>1, <1>2, <1>3 DEF GuestInv, LogInv, Others, Printed, Forced
<1>10. QED BY <1>1, <1>4, <1>5, <1>6, <1>7, <1>8, <1>9 DEF GuestInv, Stack

(* The output of a hook is shown. *)
LEMMA HookStartKept ==
  ASSUME GuestInv, Others, result' = result, <<gpc, gpc'>> \in {<<"before", "before_run">>, <<"after", "after_run">>},
         console' = console \o <<"on">>,
         UNCHANGED <<dev, pwd, deferred, fs, info, nfsUp, report, taken>>
  PROVE  GuestInv'
<1>1. Stack(deferred') /\ Left' = Left
  BY LeftActions DEF Left
<1>2. ~nfsUp
  BY DEF GuestInv, ReadyInv
<1>3. Printed({"on"})
  BY <1>2, SaidOne DEF Others, Tags, Told
<1>4. TypeOK' BY <1>1, <1>2, <1>3 DEF GuestInv, TypeOK, Points, Stack, Printed, Others
<1>5. StackInv' BY <1>1, <1>2, <1>3 DEF GuestInv, StackInv, Others, Points
<1>6. FsInv' BY <1>1, <1>2, <1>3 DEF GuestInv, FsInv, Others
<1>7. InfoInv' BY <1>1, <1>2, <1>3 DEF GuestInv, InfoInv, Others, Points, Printed, Exports
<1>8. ReadyInv' BY <1>1, <1>2, <1>3 DEF GuestInv, ReadyInv, Others, Printed
<1>9. LogInv' BY <1>1, <1>2, <1>3 DEF GuestInv, LogInv, Others, Printed, Forced
<1>10. QED BY <1>1, <1>4, <1>5, <1>6, <1>7, <1>8, <1>9 DEF GuestInv, Stack

(* A hook has ended, well or not, and its output with it. *)
LEMMA HookEndKept ==
  ASSUME GuestInv, Others, gpc \in {"before_run", "after_run"}, result' \in {"none", "ok", "err", "panic"},
         <<gpc, gpc'>> \in {<<"before_run", "mount">>, <<"after_run", "register">>} \/ gpc' = "unwind",
         console' = console \o <<"off">>,
         UNCHANGED <<dev, pwd, deferred, fs, info, nfsUp, report, taken>>
  PROVE  GuestInv'
<1>1. Stack(deferred') /\ Left' = Left
  BY LeftActions DEF Left
<1>2. Printed({"off"}) /\ Quiet'
  BY SaidOne DEF Others, Tags, Told
<1>3. TypeOK' BY <1>1, <1>2 DEF GuestInv, TypeOK, Points, Stack, Printed, Others
<1>4. StackInv' BY <1>1, <1>2 DEF GuestInv, StackInv, Others, Points
<1>5. FsInv' BY <1>1, <1>2 DEF GuestInv, FsInv, Others
<1>6. InfoInv' BY <1>1, <1>2 DEF GuestInv, InfoInv, Others, Points, Printed, Exports
<1>7. ReadyInv' BY <1>1, <1>2 DEF GuestInv, ReadyInv, Others, Printed
<1>8. LogInv' BY <1>1, <1>2 DEF GuestInv, LogInv, Others, Printed, Forced
<1>9. QED BY <1>1, <1>3, <1>4, <1>5, <1>6, <1>7, <1>8 DEF GuestInv, Stack

(* The output of mount(8) or zfs is shown. *)
LEMMA StartMountKept ==
  ASSUME GuestInv, Others, result' = result, gpc = "mount", setup.kind # "none",
         (gpc' = "zfs" /\ setup.kind = "zfs") \/ (gpc' = "mounting" /\ setup.kind = "disk"),
         console' = console \o <<"on">>, deferred' = Add(deferred, "force_off"),
         dev' \in 1..MaxDevices + 1, UNCHANGED <<pwd, fs, info, nfsUp, report, taken>>
  PROVE  GuestInv'
<1>1. Left \subseteq {"report"}
  BY LeftActions DEF GuestInv, StackInv, Actions
<1>2. Stack(deferred') /\ Left' = Left \cup {"force_off"}
  BY <1>1, LeftActions, StackAdd, RankValues DEF Left, Actions
<1>3. ~nfsUp
  BY DEF GuestInv, ReadyInv
<1>4. Printed({"on"})
  BY <1>3, SaidOne DEF Others, Tags, Told
<1>5. TypeOK' BY <1>1, <1>2, <1>3, <1>4 DEF GuestInv, TypeOK, Points, Stack, Printed, Others
<1>6. StackInv' BY <1>1, <1>2, <1>3, <1>4 DEF GuestInv, StackInv, Others, Points
<1>7. FsInv' BY <1>1, <1>2, <1>3, <1>4 DEF GuestInv, FsInv, Others
<1>8. InfoInv' BY <1>1, <1>2, <1>3, <1>4 DEF GuestInv, InfoInv, Others, Points, Printed, Exports
<1>9. ReadyInv' BY <1>1, <1>2, <1>3, <1>4 DEF GuestInv, ReadyInv, Others, Printed
<1>10. LogInv' BY <1>1, <1>2, <1>3, <1>4 DEF GuestInv, LogInv, Others, Printed, Forced
<1>11. QED BY <1>2, <1>5, <1>6, <1>7, <1>8, <1>9, <1>10 DEF GuestInv, Stack

(* zfs asks for the passphrase of a dataset. *)
LEMMA DatasetPromptKept ==
  ASSUME GuestInv, Others, result' = result, gpc = "zfs", gpc' = "zfs_read", dev <= MaxDevices,
         console' = console \o <<"text">>,
         UNCHANGED <<dev, pwd, deferred, fs, info, nfsUp, report, taken>>
  PROVE  GuestInv'
<1>1. Stack(deferred') /\ Left' = Left
  BY LeftActions DEF Left
<1>2. Printed({"text"}) /\ (Quiet => Quiet')
  BY SaidOne DEF Others, Tags, Told
<1>3. TypeOK' BY <1>1, <1>2 DEF GuestInv, TypeOK, Points, Stack, Printed, Others
<1>4. StackInv' BY <1>1, <1>2 DEF GuestInv, StackInv, Others, Points
<1>5. FsInv' BY <1>1, <1>2 DEF GuestInv, FsInv, Others
<1>6. InfoInv' BY <1>1, <1>2 DEF GuestInv, InfoInv, Others, Points, Printed, Exports
<1>7. ReadyInv' BY <1>1, <1>2 DEF GuestInv, ReadyInv, Others, Printed
<1>8. LogInv' BY <1>1, <1>2 DEF GuestInv, LogInv, Others, Printed, Forced
<1>9. QED BY <1>1, <1>3, <1>4, <1>5, <1>6, <1>7, <1>8 DEF GuestInv, Stack

(* The file system is mounted. *)
LEMMA MountedKept ==
  ASSUME GuestInv, Others, result' = result, gpc \in {"mounting", "zfs"}, gpc' = "after", fs' = "mounted",
         console' = console \o <<"off">>, deferred' = Add(PopAction(deferred, "force_off"), "unmount"),
         UNCHANGED <<dev, pwd, info, nfsUp, report, taken>>
  PROVE  GuestInv'
<1>1. Left \subseteq {"report", "force_off"}
  BY LeftActions DEF GuestInv, StackInv, Actions
<1>2. Stack(PopAction(deferred, "force_off")) /\ Range(PopAction(deferred, "force_off")) = Left \ {"force_off"}
  BY LeftActions, StackPop DEF Left
<1>3. Stack(deferred') /\ Left' = (Left \ {"force_off"}) \cup {"unmount"}
  BY <1>1, <1>2, StackAdd, RankValues DEF Left, Actions
<1>4. Printed({"off"}) /\ Quiet'
  BY SaidOne DEF Others, Tags, Told
<1>5. TypeOK' BY <1>1, <1>2, <1>3, <1>4 DEF GuestInv, TypeOK, Points, Stack, Printed, Others
<1>6. StackInv' BY <1>1, <1>2, <1>3, <1>4 DEF GuestInv, StackInv, Others, Points, TypeOK
<1>7. FsInv' BY <1>1, <1>2, <1>3, <1>4 DEF GuestInv, FsInv, Others, StackInv
<1>8. InfoInv' BY <1>1, <1>2, <1>3, <1>4 DEF GuestInv, InfoInv, Others, Points, Printed, Exports
<1>9. ReadyInv' BY <1>1, <1>2, <1>3, <1>4 DEF GuestInv, ReadyInv, Others, Printed
<1>10. LogInv' BY <1>1, <1>2, <1>3, <1>4 DEF GuestInv, LogInv, Others, Printed, Forced
<1>11. QED BY <1>3, <1>5, <1>6, <1>7, <1>8, <1>9, <1>10 DEF GuestInv, Stack

(* The hook that runs before the unmount. *)
LEMMA RegisterBeforeUnmountKept ==
  ASSUME GuestInv, Others, RegisterBeforeUnmount
  PROVE  GuestInv'
<1>1. Left \subseteq {"report", "unmount"}
  BY LeftActions DEF GuestInv, StackInv, Actions, RegisterBeforeUnmount
<1>2. Stack(deferred') /\ Left' = Left \cup {"before_unmount"}
  BY <1>1, LeftActions, StackAdd, RankValues DEF Left, Actions, RegisterBeforeUnmount
<1>3. Printed({}) /\ (Quiet => Quiet') /\ console' = console
  BY SaidNothing DEF Others, RegisterBeforeUnmount
<1>4. TypeOK' BY <1>1, <1>2, <1>3 DEF GuestInv, TypeOK, Points, Stack, Printed, Others, RegisterBeforeUnmount
<1>5. StackInv' BY <1>1, <1>2, <1>3 DEF GuestInv, StackInv, Others, Points, RegisterBeforeUnmount
<1>6. FsInv' BY <1>1, <1>2, <1>3 DEF GuestInv, FsInv, Others, RegisterBeforeUnmount, StackInv
<1>7. InfoInv' BY <1>1, <1>2, <1>3 DEF GuestInv, InfoInv, Others, Points, Printed, Exports, RegisterBeforeUnmount
<1>8. ReadyInv' BY <1>1, <1>2, <1>3 DEF GuestInv, ReadyInv, Others, Printed, RegisterBeforeUnmount
<1>9. LogInv' BY <1>1, <1>2, <1>3 DEF GuestInv, LogInv, Others, Printed, Forced, RegisterBeforeUnmount
<1>10. QED BY <1>2, <1>4, <1>5, <1>6, <1>7, <1>8, <1>9 DEF GuestInv, Stack

(* The export mode is not the one asked for, and it is announced. *)
LEMMA ModeChangedKept ==
  ASSUME GuestInv, Others, result' = result, gpc = "options", gpc' = "exports", 
         info' \in [label : BOOLEAN, ro : BOOLEAN, exports : SUBSET Exports],
         info'.label = info.label /\ info'.exports = info.exports, console' = console \o <<"ro">>,
         UNCHANGED <<dev, pwd, deferred, fs, nfsUp, report, taken>>
  PROVE  GuestInv'
<1>1. Stack(deferred') /\ Left' = Left
  BY LeftActions DEF Left
<1>2. ~nfsUp
  BY DEF GuestInv, ReadyInv
<1>3. Printed({"ro"}) /\ (Quiet => Quiet')
  BY <1>2, SaidOne DEF Others, Tags, Told
<1>4. TypeOK' BY <1>1, <1>2, <1>3 DEF GuestInv, TypeOK, Points, Stack, Printed, Others
<1>5. StackInv' BY <1>1, <1>2, <1>3 DEF GuestInv, StackInv, Others, Points
<1>6. FsInv' BY <1>1, <1>2, <1>3 DEF GuestInv, FsInv, Others
<1>7. InfoInv' BY <1>1, <1>2, <1>3 DEF GuestInv, InfoInv, Others, Points, Printed, Exports, TypeOK
<1>8. ReadyInv' BY <1>1, <1>2, <1>3 DEF GuestInv, ReadyInv, Others, Printed
<1>9. LogInv' BY <1>1, <1>2, <1>3 DEF GuestInv, LogInv, Others, Printed, Forced
<1>10. QED BY <1>1, <1>4, <1>5, <1>6, <1>7, <1>8, <1>9 DEF GuestInv, Stack

(* The export mode is the one asked for. *)
LEMMA ModeKept ==
  ASSUME GuestInv, Others, result' = result, gpc = "options", gpc' = "exports", 
         info' \in [label : BOOLEAN, ro : BOOLEAN, exports : SUBSET Exports],
         info'.label = info.label /\ info'.exports = info.exports, info'.ro = setup.ro, console' = console \o << >>,
         UNCHANGED <<dev, pwd, deferred, fs, nfsUp, report, taken>>
  PROVE  GuestInv'
<1>1. Stack(deferred') /\ Left' = Left
  BY LeftActions DEF Left
<1>2. Printed({}) /\ (Quiet => Quiet') /\ console' = console
  BY SaidNothing DEF Others
<1>3. TypeOK' BY <1>1, <1>2 DEF GuestInv, TypeOK, Points, Stack, Printed, Others
<1>4. StackInv' BY <1>1, <1>2 DEF GuestInv, StackInv, Others, Points
<1>5. FsInv' BY <1>1, <1>2 DEF GuestInv, FsInv, Others
<1>6. InfoInv' BY <1>1, <1>2 DEF GuestInv, InfoInv, Others, Points, Printed, Exports, TypeOK
<1>7. ReadyInv' BY <1>1, <1>2 DEF GuestInv, ReadyInv, Others, Printed
<1>8. LogInv' BY <1>1, <1>2 DEF GuestInv, LogInv, Others, Printed, Forced
<1>9. QED BY <1>1, <1>3, <1>4, <1>5, <1>6, <1>7, <1>8 DEF GuestInv, Stack

(* The export is announced. *)
LEMMA OneExportKept ==
  ASSUME GuestInv, Others, gpc = "exports", gpc' \in {"entry", "unwind"}, result' \in {"none", "ok", "err", "panic"},
         info' = [info EXCEPT !.exports = {"exp1"}], console' = console \o <<"exp1">>,
         UNCHANGED <<dev, pwd, deferred, fs, nfsUp, report, taken>>
  PROVE  GuestInv'
<1>1. Stack(deferred') /\ Left' = Left
  BY LeftActions DEF Left
<1>2. ~nfsUp
  BY DEF GuestInv, ReadyInv
<1>3. Printed({"exp1"}) /\ (Quiet => Quiet')
  BY <1>2, SaidOne DEF Others, Tags, Told
<1>4. info' \in [label : BOOLEAN, ro : BOOLEAN, exports : SUBSET Exports]
  BY DEF GuestInv, TypeOK, Exports
<1>5. TypeOK' BY <1>1, <1>2, <1>3, <1>4 DEF GuestInv, TypeOK, Points, Stack, Printed, Others
<1>6. StackInv' BY <1>1, <1>2, <1>3, <1>4 DEF GuestInv, StackInv, Others, Points
<1>7. FsInv' BY <1>1, <1>2, <1>3, <1>4 DEF GuestInv, FsInv, Others
<1>8. InfoInv' BY <1>1, <1>2, <1>3, <1>4 DEF GuestInv, InfoInv, Others, Points, Printed, Exports, TypeOK
<1>9. ReadyInv' BY <1>1, <1>2, <1>3, <1>4 DEF GuestInv, ReadyInv, Others, Printed
<1>10. LogInv' BY <1>1, <1>2, <1>3, <1>4 DEF GuestInv, LogInv, Others, Printed, Forced
<1>11. QED BY <1>1, <1>5, <1>6, <1>7, <1>8, <1>9, <1>10 DEF GuestInv, Stack

(* The exports of a custom action are announced. *)
LEMMA TwoExportsKept ==
  ASSUME GuestInv, Others, gpc = "exports", gpc' \in {"entry", "unwind"}, result' \in {"none", "ok", "err", "panic"},
         info' = [info EXCEPT !.exports = {"exp1", "exp2"}], console' = console \o <<"exp1", "exp2">>,
         UNCHANGED <<dev, pwd, deferred, fs, nfsUp, report, taken>>
  PROVE  GuestInv'
<1>1. Stack(deferred') /\ Left' = Left
  BY LeftActions DEF Left
<1>2. ~nfsUp
  BY DEF GuestInv, ReadyInv
<1>3. Printed({"exp1", "exp2"}) /\ (Quiet => Quiet')
  BY <1>2, SaidTwo DEF Others, Tags, Told
<1>4. info' \in [label : BOOLEAN, ro : BOOLEAN, exports : SUBSET Exports]
  BY DEF GuestInv, TypeOK, Exports
<1>5. TypeOK' BY <1>1, <1>2, <1>3, <1>4 DEF GuestInv, TypeOK, Points, Stack, Printed, Others
<1>6. StackInv' BY <1>1, <1>2, <1>3, <1>4 DEF GuestInv, StackInv, Others, Points
<1>7. FsInv' BY <1>1, <1>2, <1>3, <1>4 DEF GuestInv, FsInv, Others
<1>8. InfoInv' BY <1>1, <1>2, <1>3, <1>4 DEF GuestInv, InfoInv, Others, Points, Printed, Exports, TypeOK
<1>9. ReadyInv' BY <1>1, <1>2, <1>3, <1>4 DEF GuestInv, ReadyInv, Others, Printed
<1>10. LogInv' BY <1>1, <1>2, <1>3, <1>4 DEF GuestInv, LogInv, Others, Printed, Forced
<1>11. QED BY <1>1, <1>5, <1>6, <1>7, <1>8, <1>9, <1>10 DEF GuestInv, Stack

(* The READY line. *)
LEMMA NfsReadyKept ==
  ASSUME GuestInv, Others, NfsReady
  PROVE  GuestInv'
<1>1. Stack(deferred') /\ Left' = Left
  BY LeftActions DEF Left, NfsReady
<1>2. Quiet
  BY DEF NfsReady, GuestInv, StackInv, LogInv, Forced
<1>3. Printed({"READY"}) /\ Quiet'
  BY <1>2, SaidOne DEF Others, Tags, Told, NfsReady, Say
<1>4. TypeOK' BY <1>1, <1>2, <1>3 DEF GuestInv, TypeOK, Points, Stack, Printed, Others, NfsReady
<1>5. StackInv' BY <1>1, <1>2, <1>3 DEF GuestInv, StackInv, Others, Points, NfsReady
<1>6. FsInv' BY <1>1, <1>2, <1>3 DEF GuestInv, FsInv, Others, NfsReady
<1>7. InfoInv' BY <1>1, <1>2, <1>3 DEF GuestInv, InfoInv, Others, Points, Printed, Exports, NfsReady
<1>8. ReadyInv' BY <1>1, <1>2, <1>3 DEF GuestInv, ReadyInv, Others, Printed, NfsReady
<1>9. LogInv' BY <1>1, <1>2, <1>3 DEF GuestInv, LogInv, Others, Printed, Forced, NfsReady, StackInv
<1>10. QED BY <1>1, <1>4, <1>5, <1>6, <1>7, <1>8, <1>9 DEF GuestInv, Stack

(* The end tag of a prompt whose passphrase was not read. *)
LEMMA DropPromptKept ==
  ASSUME GuestInv, Others, gpc = "unwind", deferred # << >>, deferred' = Front(deferred), Last(deferred) = "prompt_end",
         UNCHANGED <<gpc, dev, pwd, info, result, nfsUp, taken>>, UNCHANGED <<fs, report>>,
         console' = console \o <<"end">>
  PROVE  GuestInv'
<1>1. /\ Stack(deferred') /\ Left' = Left \ {Last(deferred)} /\ Last(deferred) \in Left
      /\ \A x \in Left : x = Last(deferred) \/ Rank[x] < Rank[Last(deferred)]
  BY LeftActions, StackDrop DEF Left
<1>2. Printed({"end"}) /\ (Quiet => Quiet')
  BY SaidOne DEF Others, Tags, Told
<1>3. TypeOK' BY <1>1, <1>2 DEF GuestInv, TypeOK, Points, Stack, Printed, Others
<1>4. StackInv' BY <1>1, <1>2 DEF GuestInv, StackInv, Others, Points
<1>5. FsInv' BY <1>1, <1>2 DEF GuestInv, FsInv, Others
<1>6. InfoInv' BY <1>1, <1>2 DEF GuestInv, InfoInv, Others, Points, Printed, Exports
<1>7. ReadyInv' BY <1>1, <1>2 DEF GuestInv, ReadyInv, Others, Printed, Told
<1>8. LogInv' BY <1>1, <1>2 DEF GuestInv, LogInv, Others, Printed, Forced
<1>9. QED BY <1>1, <1>3, <1>4, <1>5, <1>6, <1>7, <1>8 DEF GuestInv, Stack

(* Forced output ends with a failed mount. *)
LEMMA DropForcedKept ==
  ASSUME GuestInv, Others, gpc = "unwind", deferred # << >>, deferred' = Front(deferred), Last(deferred) = "force_off",
         UNCHANGED <<gpc, dev, pwd, info, result, nfsUp, taken>>, UNCHANGED <<fs, report>>,
         console' = console \o <<"off">>
  PROVE  GuestInv'
<1>1. /\ Stack(deferred') /\ Left' = Left \ {Last(deferred)} /\ Last(deferred) \in Left
      /\ \A x \in Left : x = Last(deferred) \/ Rank[x] < Rank[Last(deferred)]
  BY LeftActions, StackDrop DEF Left
<1>2. Printed({"off"}) /\ Quiet'
  BY SaidOne DEF Others, Tags, Told
<1>3. TypeOK' BY <1>1, <1>2 DEF GuestInv, TypeOK, Points, Stack, Printed, Others
<1>4. StackInv' BY <1>1, <1>2 DEF GuestInv, StackInv, Others, Points
<1>5. FsInv' BY <1>1, <1>2 DEF GuestInv, FsInv, Others
<1>6. InfoInv' BY <1>1, <1>2 DEF GuestInv, InfoInv, Others, Points, Printed, Exports
<1>7. ReadyInv' BY <1>1, <1>2 DEF GuestInv, ReadyInv, Others, Printed, Told
<1>8. LogInv' BY <1>1, <1>2 DEF GuestInv, LogInv, Others, Printed, Forced
<1>9. QED BY <1>1, <1>3, <1>4, <1>5, <1>6, <1>7, <1>8 DEF GuestInv, Stack

(* The hook before the unmount. *)
LEMMA DropHookKept ==
  ASSUME GuestInv, Others, gpc = "unwind", deferred # << >>, deferred' = Front(deferred), Last(deferred) = "before_unmount",
         UNCHANGED <<gpc, dev, pwd, info, result, nfsUp, taken>>, UNCHANGED <<fs, report, console>>
  PROVE  GuestInv'
<1>1. /\ Stack(deferred') /\ Left' = Left \ {Last(deferred)} /\ Last(deferred) \in Left
      /\ \A x \in Left : x = Last(deferred) \/ Rank[x] < Rank[Last(deferred)]
  BY LeftActions, StackDrop DEF Left
<1>2. Printed({}) /\ (Quiet => Quiet') /\ console' = console
  BY SaidNothing DEF Others
<1>3. TypeOK' BY <1>1, <1>2 DEF GuestInv, TypeOK, Points, Stack, Printed, Others
<1>4. StackInv' BY <1>1, <1>2 DEF GuestInv, StackInv, Others, Points
<1>5. FsInv' BY <1>1, <1>2 DEF GuestInv, FsInv, Others
<1>6. InfoInv' BY <1>1, <1>2 DEF GuestInv, InfoInv, Others, Points, Printed, Exports
<1>7. ReadyInv' BY <1>1, <1>2 DEF GuestInv, ReadyInv, Others, Printed
<1>8. LogInv' BY <1>1, <1>2 DEF GuestInv, LogInv, Others, Printed, Forced
<1>9. QED BY <1>1, <1>3, <1>4, <1>5, <1>6, <1>7, <1>8 DEF GuestInv, Stack

(* The unmount; the hook that comes before it has run. *)
LEMMA DropUnmountKept ==
  ASSUME GuestInv, Others, gpc = "unwind", deferred # << >>, deferred' = Front(deferred), Last(deferred) = "unmount",
         UNCHANGED <<gpc, dev, pwd, info, result, nfsUp, taken>>, UNCHANGED <<report, console>>,
         fs' = "none" \/ (fs' = "mounted" /\ setup.kind = "zfs")
  PROVE  GuestInv'
<1>1. /\ Stack(deferred') /\ Left' = Left \ {Last(deferred)} /\ Last(deferred) \in Left
      /\ \A x \in Left : x = Last(deferred) \/ Rank[x] < Rank[Last(deferred)]
  BY LeftActions, StackDrop DEF Left
<1>2. Printed({}) /\ (Quiet => Quiet') /\ console' = console
  BY SaidNothing DEF Others
<1>3. "before_unmount" \notin Left
  BY <1>1, RankValues
<1>4. TypeOK' BY <1>1, <1>2, <1>3 DEF GuestInv, TypeOK, Points, Stack, Printed, Others
<1>5. StackInv' BY <1>1, <1>2, <1>3 DEF GuestInv, StackInv, Others, Points
<1>6. FsInv' BY <1>1, <1>2, <1>3 DEF GuestInv, FsInv, Others
<1>7. InfoInv' BY <1>1, <1>2, <1>3 DEF GuestInv, InfoInv, Others, Points, Printed, Exports
<1>8. ReadyInv' BY <1>1, <1>2, <1>3 DEF GuestInv, ReadyInv, Others, Printed
<1>9. LogInv' BY <1>1, <1>2, <1>3 DEF GuestInv, LogInv, Others, Printed, Forced
<1>10. QED BY <1>1, <1>4, <1>5, <1>6, <1>7, <1>8, <1>9 DEF GuestInv, Stack

(* The report, after everything else. *)
LEMMA DropReportKept ==
  ASSUME GuestInv, Others, gpc = "unwind", deferred # << >>, deferred' = Front(deferred), Last(deferred) = "report",
         UNCHANGED <<gpc, dev, pwd, info, result, nfsUp, taken>>, UNCHANGED <<fs, console>>,
         report' = TRUE
  PROVE  GuestInv'
<1>1. /\ Stack(deferred') /\ Left' = Left \ {Last(deferred)} /\ Last(deferred) \in Left
      /\ \A x \in Left : x = Last(deferred) \/ Rank[x] < Rank[Last(deferred)]
  BY LeftActions, StackDrop DEF Left
<1>2. Printed({}) /\ (Quiet => Quiet') /\ console' = console
  BY SaidNothing DEF Others
<1>3. Left' = {}
  BY <1>1, LeftActions, RankValues DEF Actions
<1>4. TypeOK' BY <1>1, <1>2, <1>3 DEF GuestInv, TypeOK, Points, Stack, Printed, Others
<1>5. StackInv' BY <1>1, <1>2, <1>3 DEF GuestInv, StackInv, Others, Points
<1>6. FsInv' BY <1>1, <1>2, <1>3 DEF GuestInv, FsInv, Others
<1>7. InfoInv' BY <1>1, <1>2, <1>3 DEF GuestInv, InfoInv, Others, Points, Printed, Exports
<1>8. ReadyInv' BY <1>1, <1>2, <1>3 DEF GuestInv, ReadyInv, Others, Printed
<1>9. LogInv' BY <1>1, <1>2, <1>3 DEF GuestInv, LogInv, Others, Printed, Forced
<1>10. QED BY <1>1, <1>4, <1>5, <1>6, <1>7, <1>8, <1>9 DEF GuestInv, Stack

(* main returns. *)
LEMMA ReturnKept ==
  ASSUME GuestInv, Others, gpc = "unwind", deferred = << >>, gpc' = "off",
         UNCHANGED <<dev, pwd, deferred, fs, info, result, nfsUp, report, taken>>, console' = console \o << >>
  PROVE  GuestInv'
<1>1. Stack(deferred') /\ Left' = Left /\ Left = {}
  BY LeftActions, StackEmpty DEF Left
<1>2. Printed({}) /\ (Quiet => Quiet') /\ console' = console
  BY SaidNothing DEF Others
<1>3. TypeOK' BY <1>1, <1>2 DEF GuestInv, TypeOK, Points, Stack, Printed, Others
<1>4. StackInv' BY <1>1, <1>2 DEF GuestInv, StackInv, Others, Points
<1>5. FsInv' BY <1>1, <1>2 DEF GuestInv, FsInv, Others
<1>6. InfoInv' BY <1>1, <1>2 DEF GuestInv, InfoInv, Others, Points, Printed, Exports
<1>7. ReadyInv' BY <1>1, <1>2 DEF GuestInv, ReadyInv, Others, Printed
<1>8. LogInv' BY <1>1, <1>2 DEF GuestInv, LogInv, Others, Printed, Forced
<1>9. QED BY <1>1, <1>3, <1>4, <1>5, <1>6, <1>7, <1>8 DEF GuestInv, Stack

(* main returns with an error. *)
LEMMA ExitCodeKept ==
  ASSUME GuestInv, Others, gpc = "unwind", deferred = << >>, gpc' = "off",
         UNCHANGED <<dev, pwd, deferred, fs, info, result, nfsUp, report, taken>>, console' = console \o <<"exit">>
  PROVE  GuestInv'
<1>1. Stack(deferred') /\ Left' = Left /\ Left = {}
  BY LeftActions, StackEmpty DEF Left
<1>2. Printed({"exit"}) /\ (Quiet => Quiet')
  BY SaidOne DEF Others, Tags, Told
<1>3. TypeOK' BY <1>1, <1>2 DEF GuestInv, TypeOK, Points, Stack, Printed, Others
<1>4. StackInv' BY <1>1, <1>2 DEF GuestInv, StackInv, Others, Points
<1>5. FsInv' BY <1>1, <1>2 DEF GuestInv, FsInv, Others
<1>6. InfoInv' BY <1>1, <1>2 DEF GuestInv, InfoInv, Others, Points, Printed, Exports
<1>7. ReadyInv' BY <1>1, <1>2 DEF GuestInv, ReadyInv, Others, Printed, Told
<1>8. LogInv' BY <1>1, <1>2 DEF GuestInv, LogInv, Others, Printed, Forced
<1>9. QED BY <1>1, <1>3, <1>4, <1>5, <1>6, <1>7, <1>8 DEF GuestInv, Stack

USE DEF Fail, Say

(* The types the steps of run() rely on. *)
LEMMA Typed ==
  ASSUME GuestInv
  PROVE  /\ gpc \in Points /\ dev \in 1..MaxDevices + 1 /\ pwd \in BOOLEAN /\ taken \in Nat
         /\ fs \in {"none", "imported", "partial", "mounted"}
         /\ result \in {"none", "ok", "err", "panic"}
         /\ setup.kind \in {"disk", "zfs", "none"} /\ setup.enc \in 0..MaxDevices
         /\ setup.ro \in BOOLEAN
         /\ gpc \in {"import", "zfs", "zfs_read"} => "unmount" \notin Left
<1>1. setup \in SetupType BY SetupsAssumption DEF GuestInv, TypeOK
<1>2. QED BY <1>1 DEF GuestInv, TypeOK, SetupType, StackInv

(* Decryption. *)
LEMMA DecryptionKept ==
  ASSUME GuestInv, Others, SetUp \/ AskCommon \/ ReadCommon \/ Decrypt \/ ReadDevice
  PROVE  GuestInv'
<1>1. CASE SetUp
  <2>1. CASE gpc' = "common" /\ UNCHANGED result BY <1>1, <2>1, Typed, MoveKept DEF SetUp
  <2>2. CASE Fail BY <1>1, <2>2, Typed, FailKept DEF SetUp, Points
  <2>3. QED BY <1>1, <2>1, <2>2 DEF SetUp
<1>2. CASE AskCommon
  <2>1. gpc = "common" /\ UNCHANGED <<dev, fs, info, nfsUp, report, taken>> BY <1>2 DEF AskCommon
  <2>2. CASE gpc' = "volumes" /\ UNCHANGED <<result, pwd, deferred, console>>
    BY <2>1, <2>2, Typed, MoveKept
  <2>3. CASE gpc' = "dev" /\ UNCHANGED <<result, deferred, console>> /\ pwd' \in BOOLEAN
    BY <2>1, <2>3, Typed, MoveKept
  <2>4. CASE Fail /\ UNCHANGED <<pwd, deferred, console>>
    BY <2>1, <2>4, Typed, FailKept DEF Points
  <2>5. CASE /\ gpc' = "common_read" /\ UNCHANGED <<result, pwd>>
             /\ Say(<<"start">>) /\ deferred' = Add(deferred, "prompt_end")
    BY <2>1, <2>5, PromptKept
  <2> HIDE DEF Fail, Say
  <2>6. QED BY <1>2, <2>2, <2>3, <2>4, <2>5, Typed DEF AskCommon
<1>3. CASE ReadCommon BY <1>3, Typed, PromptEndKept DEF ReadCommon
<1>4. CASE Decrypt
  <2>1. gpc = "dev" /\ UNCHANGED <<pwd, fs, info, nfsUp, report, taken>> BY <1>4 DEF Decrypt
  <2>2. CASE gpc' = "volumes" /\ UNCHANGED <<dev, result, deferred, console>>
    BY <2>1, <2>2, Typed, MoveKept
  <2>3. CASE dev <= setup.enc /\ dev' = dev + 1 /\ UNCHANGED <<gpc, result, deferred, console>>
    <3>1. dev' \in 1..MaxDevices + 1 BY <2>3, Typed, MaxDevicesAssumption
    <3>2. QED BY <2>1, <2>3, <3>1, Typed, MoveKept
  <2>4. CASE gpc' = "unwind" /\ result' \in {"panic", "err"} /\ UNCHANGED <<dev, deferred, console>>
    BY <2>1, <2>4, Typed, FailKept DEF Points
  <2>5. CASE /\ dev <= setup.enc /\ gpc' = "dev_read" /\ UNCHANGED <<dev, result>>
             /\ Say(<<"start">>) /\ deferred' = Add(deferred, "prompt_end")
    <3>1. dev <= MaxDevices BY <2>5, Typed, MaxDevicesAssumption
    <3>2. QED BY <2>1, <2>5, <3>1, PromptKept
  <2> HIDE DEF Say
  <2>6. QED BY <1>4, <2>2, <2>3, <2>4, <2>5 DEF Decrypt
<1>5. CASE ReadDevice
  <2>1. /\ gpc = "dev_read" /\ Say(<<"end">>) /\ deferred' = PopAction(deferred, "prompt_end")
        /\ taken' = taken + 1 /\ UNCHANGED <<pwd, fs, info, nfsUp, report>>
    BY <1>5 DEF ReadDevice
  <2>2. dev <= MaxDevices BY <2>1 DEF GuestInv, StackInv
  <2>3. CASE gpc' = "dev" /\ dev' = dev + 1 /\ UNCHANGED result
    <3>1. dev' \in 1..MaxDevices + 1 BY <2>2, <2>3, Typed, MaxDevicesAssumption
    <3>2. QED BY <2>1, <2>3, <3>1, Typed, PromptEndKept
  <2>4. CASE Fail /\ UNCHANGED dev BY <2>1, <2>4, Typed, PromptEndKept
  <2>5. QED BY <1>5, <2>3, <2>4 DEF ReadDevice
<1>6. QED BY <1>1, <1>2, <1>3, <1>4, <1>5

(* Mounting. *)
LEMMA MountingKept ==
  ASSUME GuestInv, Others,
         \/ ActivateVolumes \/ ImportPools \/ BeforeMount \/ StartMount \/ MountDataset
         \/ ReadDataset \/ FinishMount \/ AfterMount
  PROVE  GuestInv'
<1>1. CASE ActivateVolumes
  <2>1. gpc = "volumes" /\ UNCHANGED <<dev, pwd, deferred, fs, nfsUp, report, taken>>
    BY <1>1 DEF ActivateVolumes
  <2>2. info \in [label : BOOLEAN, ro : BOOLEAN, exports : SUBSET Exports]
    BY DEF GuestInv, TypeOK
  <2>3. CASE Fail /\ UNCHANGED <<info, console>> BY <2>1, <2>3, Typed, FailKept DEF Points
  <2>4. CASE /\ info' = [info EXCEPT !.label = TRUE] /\ Say(<<"label">>)
             /\ gpc' = "import" /\ UNCHANGED result
    <3>1. /\ info' \in [label : BOOLEAN, ro : BOOLEAN, exports : SUBSET Exports]
          /\ info'.label /\ info'.ro = info.ro /\ info'.exports = info.exports
      BY <2>2, <2>4
    <3>2. QED BY <2>1, <2>4, <3>1, LabelKept
  <2>5. CASE /\ info' = [info EXCEPT !.label = FALSE] /\ Say(<< >>)
             /\ gpc' = "import" /\ UNCHANGED result
    <3>1. /\ info' \in [label : BOOLEAN, ro : BOOLEAN, exports : SUBSET Exports]
          /\ ~info'.label /\ info'.ro = info.ro /\ info'.exports = info.exports
      BY <2>2, <2>5
    <3>2. QED BY <2>1, <2>5, <3>1, NoLabelKept
  <2> HIDE DEF Fail, Say
  <2>6. QED BY <1>1, <2>3, <2>4, <2>5 DEF ActivateVolumes
<1>2. CASE ImportPools
  <2>1. gpc = "import" /\ UNCHANGED <<dev, pwd, deferred, info, nfsUp, report, taken>>
    BY <1>2 DEF ImportPools
  <2>2. CASE /\ setup.kind = "zfs" /\ fs' = "imported" /\ gpc' = "before" /\ UNCHANGED result
             /\ Say(<<"on", "off">>)
    BY <2>1, <2>2, WarnKept
  <2>3. CASE /\ setup.kind = "zfs" /\ fs' = "imported" /\ gpc' = "before" /\ UNCHANGED result
             /\ Say(<< >>)
    <3>1. console' = console BY <2>3, SaidNothing DEF Others
    <3>2. QED BY <2>1, <2>3, <3>1, Typed, MoveKept
  <2>4. CASE setup.kind = "zfs" /\ fs' \in {"none", "imported"} /\ Fail /\ UNCHANGED console
    BY <2>1, <2>4, Typed, FailKept DEF Points
  <2>5. CASE gpc' = "before" /\ UNCHANGED <<fs, result, console>>
    BY <2>1, <2>5, Typed, MoveKept
  <2> HIDE DEF Fail, Say
  <2>6. QED BY <1>2, <2>2, <2>3, <2>4, <2>5 DEF ImportPools
<1>3. CASE BeforeMount \/ AfterMount
  <2>1. UNCHANGED <<dev, pwd, deferred, fs, info, nfsUp, report, taken>>
    BY <1>3 DEF BeforeMount, AfterMount, RunHook
  <2>2. CASE /\ <<gpc, gpc'>> \in {<<"before", "before_run">>, <<"after", "after_run">>}
             /\ Say(<<"on">>) /\ UNCHANGED result
    BY <2>1, <2>2, HookStartKept
  <2>3. CASE /\ <<gpc, gpc'>> \in {<<"before", "mount">>, <<"after", "register">>}
             /\ UNCHANGED <<console, result>>
    BY <2>1, <2>3, Typed, MoveKept
  <2>4. CASE /\ <<gpc, gpc'>> \in {<<"before_run", "mount">>, <<"after_run", "register">>}
             /\ Say(<<"off">>) /\ UNCHANGED result
    BY <2>1, <2>4, Typed, HookEndKept
  <2>5. CASE gpc \in {"before_run", "after_run"} /\ Say(<<"off">>) /\ Fail
    BY <2>1, <2>5, HookEndKept
  <2> HIDE DEF Fail, Say
  <2>6. QED BY <1>3, <2>2, <2>3, <2>4, <2>5 DEF BeforeMount, AfterMount, RunHook
<1>4. CASE StartMount
  <2>1. gpc = "mount" /\ UNCHANGED <<pwd, fs, info, result, nfsUp, report, taken>>
    BY <1>4 DEF StartMount
  <2>2. CASE setup.kind = "none" /\ gpc' = "after" /\ UNCHANGED <<dev, deferred, console>>
    BY <2>1, <2>2, Typed, MoveKept
  <2>3. CASE setup.kind # "none"
    <3>1. (gpc' = "zfs" /\ setup.kind = "zfs") \/ (gpc' = "mounting" /\ setup.kind = "disk")
      <4>1. CASE setup.kind = "zfs"
        <5>1. gpc' = "zfs" BY <1>4, <4>1 DEF StartMount
        <5>2. QED BY <4>1, <5>1
      <4>2. CASE setup.kind = "disk"
        <5>1. gpc' = "mounting" BY <1>4, <4>2 DEF StartMount
        <5>2. QED BY <4>2, <5>1
      <4>3. QED BY <2>3, <4>1, <4>2, Typed
    <3>2. 1 \in 1..MaxDevices + 1 BY MaxDevicesAssumption
    <3>3. dev' = 1 /\ Say(<<"on">>) /\ deferred' = Add(deferred, "force_off")
      BY <1>4, <2>3 DEF StartMount
    <3>4. QED BY <2>1, <2>3, <3>1, <3>2, <3>3, StartMountKept
  <2>4. QED BY <1>4, <2>2, <2>3 DEF StartMount
<1>5. CASE MountDataset
  <2>1. /\ gpc = "zfs" /\ dev <= MaxDevices
        /\ UNCHANGED <<pwd, deferred, info, nfsUp, report, taken>>
    BY <1>5 DEF MountDataset
  <2>2. setup.kind = "zfs" BY <2>1 DEF GuestInv, StackInv
  <2>3. CASE fs' = "partial" /\ dev' = dev + 1 /\ UNCHANGED <<gpc, result, console>>
    <3>1. dev' \in 1..MaxDevices + 1 BY <2>1, <2>3, Typed, MaxDevicesAssumption
    <3>2. QED BY <2>1, <2>2, <2>3, <3>1, Typed, MoveKept
  <2>4. CASE Say(<<"text">>) /\ gpc' = "zfs_read" /\ UNCHANGED <<fs, dev, result>>
    BY <2>1, <2>4, DatasetPromptKept
  <2>5. CASE Fail /\ UNCHANGED <<fs, dev, console>> BY <2>1, <2>5, Typed, FailKept DEF Points
  <2> HIDE DEF Fail, Say
  <2>6. QED BY <1>5, <2>3, <2>4, <2>5 DEF MountDataset
<1>6. CASE ReadDataset
  <2>1. /\ gpc = "zfs_read" /\ taken' = taken + 1
        /\ UNCHANGED <<pwd, deferred, info, nfsUp, report, console>>
    BY <1>6 DEF ReadDataset
  <2>2. setup.kind = "zfs" /\ dev <= MaxDevices BY <2>1 DEF GuestInv, StackInv
  <2>3. CASE fs' = "partial" /\ dev' = dev + 1 /\ gpc' = "zfs" /\ UNCHANGED result
    <3>1. dev' \in 1..MaxDevices + 1 BY <2>2, <2>3, Typed, MaxDevicesAssumption
    <3>2. QED BY <2>1, <2>2, <2>3, <3>1, Typed, MoveKept
  <2>4. CASE Fail /\ UNCHANGED <<fs, dev>> BY <2>1, <2>4, Typed, FailKept DEF Points
  <2>5. QED BY <1>6, <2>3, <2>4 DEF ReadDataset
<1>7. CASE FinishMount
  <2>1. gpc \in {"mounting", "zfs"} /\ UNCHANGED <<dev, pwd, info, nfsUp, report, taken>>
    BY <1>7 DEF FinishMount
  <2>2. CASE /\ fs' = "mounted" /\ Say(<<"off">>) /\ gpc' = "after" /\ UNCHANGED result
             /\ deferred' = Add(PopAction(deferred, "force_off"), "unmount")
    BY <2>1, <2>2, MountedKept
  <2>3. CASE Fail /\ UNCHANGED <<fs, deferred, console>> BY <2>1, <2>3, Typed, FailKept DEF Points
  <2>4. QED BY <1>7, <2>2, <2>3 DEF FinishMount
<1>8. QED BY <1>1, <1>2, <1>3, <1>4, <1>5, <1>6, <1>7

(* Exporting, serving and the way to the end. *)
LEMMA ServingKept ==
  ASSUME GuestInv, Others,
         RegisterBeforeUnmount \/ ReadOptions \/ BuildExports \/ StartEntrypoint \/ NfsReady
           \/ WaitForQuitCmd
  PROVE  GuestInv'
<1>1. CASE RegisterBeforeUnmount BY <1>1, RegisterBeforeUnmountKept
<1>2. info \in [label : BOOLEAN, ro : BOOLEAN, exports : SUBSET Exports] BY DEF GuestInv, TypeOK
<1>3. CASE ReadOptions
  <2>1. gpc = "options" /\ UNCHANGED <<dev, pwd, deferred, fs, nfsUp, report, taken>>
    BY <1>3 DEF ReadOptions
  <2>2. CASE Fail /\ UNCHANGED <<info, console>> BY <2>1, <2>2, Typed, FailKept DEF Points
  <2>3. ASSUME NEW ro \in EffectiveReadOnly,
               /\ info' = [info EXCEPT !.ro = ro] /\ gpc' = "exports" /\ UNCHANGED result
               /\ Say(IF ro # setup.ro THEN <<"ro">> ELSE << >>)
        PROVE  GuestInv'
    <3>1. ro \in BOOLEAN
      <4>1. CASE setup.kind = "disk" BY <4>1, Typed DEF EffectiveReadOnly
      <4>2. CASE setup.kind = "zfs" BY <4>2, Typed DEF EffectiveReadOnly
      <4>3. CASE setup.kind = "none" BY <4>3, Typed DEF EffectiveReadOnly
      <4>4. QED BY <4>1, <4>2, <4>3, Typed
    <3>2. /\ info' \in [label : BOOLEAN, ro : BOOLEAN, exports : SUBSET Exports]
          /\ info'.ro = ro /\ info'.label = info.label /\ info'.exports = info.exports
      BY <1>2, <2>3, <3>1
    <3>3. CASE ro # setup.ro
      <4>1. console' = console \o <<"ro">> BY <2>3, <3>3
      <4>2. QED BY <2>1, <2>3, <3>2, <4>1, ModeChangedKept
    <3>4. CASE ro = setup.ro
      <4>1. console' = console \o << >> BY <2>3, <3>4
      <4>2. QED BY <2>1, <2>3, <3>2, <3>4, <4>1, ModeKept
    <3>5. QED BY <3>3, <3>4
  <2> HIDE DEF Fail, Say
  <2>4. QED BY <1>3, <2>2, <2>3 DEF ReadOptions
<1>4. CASE BuildExports
  <2>1. gpc = "exports" /\ UNCHANGED <<dev, pwd, deferred, fs, nfsUp, report, taken>>
    BY <1>4 DEF BuildExports
  <2>2. CASE Fail /\ UNCHANGED <<info, console>> BY <2>1, <2>2, Typed, FailKept DEF Points
  <2>3. CASE /\ info' = [info EXCEPT !.exports = {"exp1"}] /\ Say(<<"exp1">>)
             /\ (gpc' = "entry" /\ UNCHANGED result) \/ Fail
    <3>1. gpc' \in {"entry", "unwind"} /\ result' \in {"none", "ok", "err", "panic"}
      BY <2>3, Typed
    <3>2. QED BY <2>1, <2>3, <3>1, OneExportKept
  <2>4. CASE /\ info' = [info EXCEPT !.exports = {"exp1", "exp2"}] /\ Say(<<"exp1", "exp2">>)
             /\ (gpc' = "entry" /\ UNCHANGED result) \/ Fail
    <3>1. gpc' \in {"entry", "unwind"} /\ result' \in {"none", "ok", "err", "panic"}
      BY <2>4, Typed
    <3>2. QED BY <2>1, <2>4, <3>1, TwoExportsKept
  <2>5. {<<"exp1">>[i] : i \in DOMAIN <<"exp1">>} = {"exp1"} OBVIOUS
  <2>6. {<<"exp1", "exp2">>[i] : i \in DOMAIN <<"exp1", "exp2">>} = {"exp1", "exp2"} OBVIOUS
  <2> HIDE DEF Fail, Say
  <2>7. CASE setup.hooks BY <1>4, <2>2, <2>4, <2>6, <2>7 DEF BuildExports
  <2>8. CASE ~setup.hooks BY <1>4, <2>2, <2>3, <2>5, <2>8 DEF BuildExports
  <2>9. QED BY <2>7, <2>8
<1>5. CASE StartEntrypoint
  <2>1. /\ gpc = "entry"
        /\ UNCHANGED <<dev, pwd, deferred, fs, info, nfsUp, report, taken, console>>
    BY <1>5 DEF StartEntrypoint
  <2>2. CASE gpc' = "serving" /\ UNCHANGED result BY <2>1, <2>2, Typed, MoveKept
  <2>3. CASE gpc' = "unwind" /\ result' = "ok" BY <2>1, <2>3, Typed, FailKept DEF Points
  <2>4. QED BY <1>5, <2>2, <2>3 DEF StartEntrypoint
<1>6. CASE NfsReady BY <1>6, NfsReadyKept
<1>7. CASE WaitForQuitCmd BY <1>7, Typed, FailKept DEF WaitForQuitCmd, Points
<1>8. QED BY <1>1, <1>3, <1>4, <1>5, <1>6, <1>7

(* The Deferred stack is dropped and main returns. *)
LEMMA EndKept ==
  ASSUME GuestInv, Others, Unwind \/ MainReturns
  PROVE  GuestInv'
<1>1. CASE Unwind
  <2>1. /\ gpc = "unwind" /\ deferred # << >> /\ deferred' = Front(deferred)
        /\ UNCHANGED <<gpc, dev, pwd, info, result, nfsUp, taken>>
    BY <1>1 DEF Unwind
  <2>2. CASE Last(deferred) = "prompt_end" /\ Say(<<"end">>) /\ UNCHANGED <<fs, report>>
    BY <2>1, <2>2, DropPromptKept
  <2>3. CASE Last(deferred) = "force_off" /\ Say(<<"off">>) /\ UNCHANGED <<fs, report>>
    BY <2>1, <2>3, DropForcedKept
  <2>4. CASE Last(deferred) = "before_unmount" /\ UNCHANGED <<fs, report, console>>
    BY <2>1, <2>4, DropHookKept
  <2>5. CASE /\ Last(deferred) = "unmount" /\ UNCHANGED <<report, console>>
             /\ fs' \in IF setup.kind = "zfs" THEN {"none", "mounted"} ELSE {"none"}
    <3>1. fs' = "none" \/ (fs' = "mounted" /\ setup.kind = "zfs")
      <4>1. CASE setup.kind = "zfs"
        <5>1. fs' \in {"none", "mounted"} BY <2>5, <4>1
        <5>2. QED BY <4>1, <5>1
      <4>2. CASE setup.kind # "zfs"
        <5>1. fs' \in {"none"} BY <2>5, <4>2
        <5>2. QED BY <5>1
      <4>3. QED BY <4>1, <4>2
    <3>2. QED BY <2>1, <2>5, <3>1, DropUnmountKept
  <2>6. CASE Last(deferred) = "report" /\ report' = TRUE /\ UNCHANGED <<fs, console>>
    BY <2>1, <2>6, DropReportKept
  <2> HIDE DEF Say
  <2>7. QED BY <1>1, <2>2, <2>3, <2>4, <2>5, <2>6 DEF Unwind
<1>2. CASE MainReturns
  <2>1. /\ gpc = "unwind" /\ deferred = << >> /\ gpc' = "off"
        /\ UNCHANGED <<dev, pwd, deferred, fs, info, result, nfsUp, report, taken>>
    BY <1>2 DEF MainReturns
  <2>2. CASE result = "err"
    <3>1. console' = console \o <<"exit">> BY <1>2, <2>2 DEF MainReturns
    <3>2. QED BY <2>1, <3>1, ExitCodeKept
  <2>3. CASE result # "err"
    <3>1. console' = console \o << >> BY <1>2, <2>3 DEF MainReturns
    <3>2. QED BY <2>1, <3>1, ReturnKept
  <2>4. QED BY <2>2, <2>3
<1>3. QED BY <1>1, <1>2

(* Every step of run(). *)
LEMMA GuestKept == ASSUME GuestInv, Guest PROVE GuestInv'
<1>1. Others BY DEF Guest, Others
<1>2. QED BY <1>1, DecryptionKept, MountingKept, ServingKept, EndKept DEF Guest

(* A passphrase is not read. *)
LEMMA ReadFailsKept == ASSUME GuestInv, ReadFails PROVE GuestInv'
<1>1. Others /\ Fail /\ UNCHANGED <<dev, pwd, fs, info, nfsUp, report, taken>>
  BY DEF ReadFails, Others
<1>2. CASE gpc \in {"common_read", "zfs_read"} /\ UNCHANGED <<deferred, console>>
  BY <1>1, <1>2, Typed, FailKept DEF Points
<1>3. CASE /\ gpc = "dev_read" /\ Say(<<"end">>)
           /\ deferred' = PopAction(deferred, "prompt_end")
  BY <1>1, <1>3, Typed, PromptEndKept
<1>4. QED BY <1>2, <1>3 DEF ReadFails

(* The VM is killed: nothing more is printed. *)
LEMMA VmKilledKept == ASSUME GuestInv, VmKilled PROVE GuestInv'
<1>1. /\ gpc # "off" /\ gpc' = "off" /\ killed' = TRUE
      /\ UNCHANGED <<setup, dev, pwd, deferred, fs, info, result, nfsUp, report, taken>>
      /\ UNCHANGED <<rd, eof, cut, status, sub, log, console, prompts, hpc, shown, asked, typed, quit>>
  BY DEF VmKilled
<1>2. Stack(deferred') /\ Left' = Left BY <1>1, LeftActions DEF Left
<1>3. Printed({}) /\ console' = console BY <1>1, SaidNothing
<1>4. TypeOK' BY <1>1 DEF GuestInv, TypeOK, Points
<1>5. StackInv' BY <1>1 DEF StackInv
<1>6. FsInv' BY <1>1, <1>2 DEF GuestInv, FsInv
<1>7. InfoInv' BY <1>1, <1>3 DEF GuestInv, InfoInv, Lines
<1>8. ReadyInv' BY <1>1, <1>3 DEF GuestInv, ReadyInv, Lines
<1>9. LogInv' BY <1>1, <1>3 DEF GuestInv, LogInv, Printed
<1>10. QED BY <1>2, <1>4, <1>5, <1>6, <1>7, <1>8, <1>9 DEF GuestInv, Stack

-----------------------------------------------------------------------------
(* The host                                                                 *)

(* What the main thread, the subscribing thread and the user do leaves the  *)
(* console alone.                                                           *)
LEMMA HostKept ==
  ASSUME GuestInv, UNCHANGED <<setup, guestVars, rd, eof, cut, status, log, console>>, sub' \in BOOLEAN,
         prompts' \in Seq(BOOLEAN), hpc' \in {"start", "end", "nfs", "ready", "failed"},
         shown' \in Nat, asked' \in Nat, typed' \in Nat, quit' \in BOOLEAN
  PROVE  GuestInv'
<1>1. /\ UNCHANGED <<setup, gpc, dev, pwd, deferred, fs, info, result, nfsUp, report, killed, taken>>
      /\ UNCHANGED <<rd, eof, cut, status, log, console>>
  BY DEF guestVars
<1>2. Stack(deferred') /\ Left' = Left BY <1>1, LeftActions DEF Left
<1>3. Printed({}) /\ (Quiet => Quiet') /\ console' = console BY <1>1, SaidNothing
<1>4. TypeOK' BY <1>1 DEF GuestInv, TypeOK
<1>5. StackInv' BY <1>1, <1>2 DEF GuestInv, StackInv
<1>6. FsInv' BY <1>1, <1>2 DEF GuestInv, FsInv
<1>7. InfoInv' BY <1>1, <1>3 DEF GuestInv, InfoInv, Lines
<1>8. ReadyInv' BY <1>1, <1>3 DEF GuestInv, ReadyInv, Lines
<1>9. LogInv' BY <1>1, <1>2, <1>3 DEF GuestInv, LogInv, Printed, Forced
<1>10. QED BY <1>2, <1>4, <1>5, <1>6, <1>7, <1>8, <1>9 DEF GuestInv, Stack

(* The subscription, the prompts, the wait for the server, the user, a Quit. *)
LEMMA WaitingKept ==
  ASSUME GuestInv, SubscribeToVmEvents \/ Host \/ SendQuit \/ Type PROVE GuestInv'
<1>1. /\ prompts \in Seq(BOOLEAN) /\ hpc \in {"start", "end", "nfs", "ready", "failed"}
      /\ shown \in Nat /\ asked \in Nat /\ typed \in Nat /\ quit \in BOOLEAN
      /\ status \in {"none", "ready", "failed"} /\ sub \in BOOLEAN
  BY DEF GuestInv, TypeOK
<1>2. prompts # << >> => Tail(prompts) \in Seq(BOOLEAN) BY <1>1
<1>3. CASE AwaitPrompt
  <2>1. UNCHANGED <<setup, guestVars, readVars, console, typed, quit>> BY <1>3 DEF AwaitPrompt
  <2>2. CASE hpc' = "nfs" /\ UNCHANGED <<prompts, shown, asked>>
    BY <1>1, <2>1, <2>2, HostKept
  <2>3. CASE /\ prompts' = IF prompts = << >> THEN prompts ELSE Tail(prompts)
             /\ shown' = shown + 1 /\ asked' = asked + 1 /\ hpc' = "end"
    <3>1. prompts' \in Seq(BOOLEAN) BY <1>1, <1>2, <2>3
    <3>2. shown' \in Nat /\ asked' \in Nat BY <1>1, <2>3
    <3>3. QED BY <1>1, <2>1, <2>3, <3>1, <3>2, HostKept
  <2>4. QED BY <1>3, <2>2, <2>3 DEF AwaitPrompt
<1>4. CASE AwaitPromptEnd
  <2>1. /\ prompts' = IF prompts = << >> THEN prompts ELSE Tail(prompts)
        /\ hpc' = "start"
        /\ UNCHANGED <<setup, guestVars, readVars, console, shown, asked, typed, quit>>
    BY <1>4 DEF AwaitPromptEnd
  <2>2. prompts' \in Seq(BOOLEAN) BY <1>1, <1>2, <2>1
  <2>3. QED BY <1>1, <2>1, <2>2, HostKept
<1>5. CASE AwaitNfs
  <2>1. /\ status # "none" /\ hpc' \in {status, "failed"}
        /\ UNCHANGED <<setup, guestVars, readVars, console, prompts, shown, asked, typed, quit>>
    BY <1>5 DEF AwaitNfs
  <2>2. hpc' \in {"ready", "failed"} BY <1>1, <2>1
  <2>3. QED BY <1>1, <2>1, <2>2, HostKept
<1>6. CASE SendQuit
  <2>1. /\ quit' = TRUE
        /\ UNCHANGED <<setup, guestVars, readVars, console, prompts, hpc, shown, asked, typed>>
    BY <1>6 DEF SendQuit
  <2>2. QED BY <1>1, <2>1, HostKept
<1>7. CASE Type
  <2>1. /\ typed' = typed + 1
        /\ UNCHANGED <<setup, guestVars, readVars, console, prompts, hpc, shown, asked, quit>>
    BY <1>7 DEF Type
  <2>2. typed' \in Nat BY <1>1, <2>1
  <2>3. QED BY <1>1, <2>1, <2>2, HostKept
<1>8. CASE SubscribeToVmEvents
  <2>1. /\ sub' = TRUE
        /\ UNCHANGED <<setup, guestVars, rd, eof, cut, status, log, console>>
        /\ UNCHANGED <<prompts, hpc, shown, asked, typed, quit>>
    BY <1>8 DEF SubscribeToVmEvents
  <2>2. QED BY <1>1, <2>1, HostKept
<1>9. QED BY <1>3, <1>4, <1>5, <1>6, <1>7, <1>8 DEF Host

(* What a line does to the output. *)
LEMMA OutputSwitched ==
  ASSUME GuestInv, ReadLine
  PROVE  /\ log' \in BOOLEAN
         /\ log' => Head(console) = "on" \/ (log /\ Head(console) # "off")
<1>1. log \in BOOLEAN BY DEF GuestInv, TypeOK
<1>2. CASE Head(console) = "on"
  <2>1. log' = TRUE BY <1>2 DEF ReadLine
  <2>2. QED BY <1>2, <2>1
<1>3. CASE Head(console) = "off"
  <2>1. log' = FALSE BY <1>3 DEF ReadLine
  <2>2. QED BY <2>1
<1>4. CASE Head(console) \notin {"on", "off"}
  <2>1. log' = log BY <1>4 DEF ReadLine
  <2>2. QED BY <1>1, <1>4, <2>1
<1>5. QED BY <1>2, <1>3, <1>4

(* What PtyReader gathers from a line. *)
LEMMA LineGathered ==
  ASSUME GuestInv, ReadLine
  PROVE  /\ rd' \in [label : BOOLEAN, ro : BOOLEAN, exports : SUBSET Exports, exit : BOOLEAN]
         /\ rd'.label <=> rd.label \/ Head(console) = "label"
         /\ rd'.ro <=> rd.ro \/ Head(console) = "ro"
         /\ rd'.exports = rd.exports \cup ({Head(console)} \cap Exports)
<1> DEFINE tag == Head(console)
<1>1. rd \in [label : BOOLEAN, ro : BOOLEAN, exports : SUBSET Exports, exit : BOOLEAN]
  BY DEF GuestInv, TypeOK
<1>2. rd' = CASE tag = "label" -> [rd EXCEPT !.label = TRUE]
              [] tag = "ro" -> [rd EXCEPT !.ro = TRUE]
              [] tag \in Exports -> [rd EXCEPT !.exports = @ \cup {tag}]
              [] tag = "exit" -> [rd EXCEPT !.exit = TRUE]
              [] OTHER -> rd
  BY DEF ReadLine
<1> HIDE DEF tag
<1>3. CASE tag = "label"
  <2>1. rd' = [rd EXCEPT !.label = TRUE] BY <1>2, <1>3 DEF Exports
  <2>2. QED BY <1>1, <1>3, <2>1 DEF tag, Exports
<1>4. CASE tag = "ro"
  <2>1. rd' = [rd EXCEPT !.ro = TRUE] BY <1>2, <1>4 DEF Exports
  <2>2. QED BY <1>1, <1>4, <2>1 DEF tag, Exports
<1>5. CASE tag \in Exports
  <2>1. rd' = [rd EXCEPT !.exports = @ \cup {tag}] BY <1>2, <1>5 DEF Exports
  <2>2. QED BY <1>1, <1>5, <2>1 DEF tag, Exports
<1>6. CASE tag = "exit"
  <2>1. rd' = [rd EXCEPT !.exit = TRUE] BY <1>2, <1>6 DEF Exports
  <2>2. QED BY <1>1, <1>6, <2>1 DEF tag, Exports
<1>7. CASE tag \notin {"label", "ro", "exit"} \cup Exports
  <2>1. rd' = rd BY <1>2, <1>7
  <2>2. QED BY <1>1, <1>7, <2>1 DEF tag
<1>8. QED BY <1>3, <1>4, <1>5, <1>6, <1>7

(* The types of what else a line changes. *)
LEMMA LineTyped ==
  ASSUME GuestInv, ReadLine
  PROVE  prompts' \in Seq(BOOLEAN) /\ asked' \in Nat
<1>1. prompts \in Seq(BOOLEAN) /\ asked \in Nat BY DEF GuestInv, TypeOK
<1>2. prompts' \in Seq(BOOLEAN)
  <2>1. prompts' \in {Append(prompts, TRUE), Append(prompts, FALSE), prompts} BY DEF ReadLine
  <2>2. Append(prompts, TRUE) \in Seq(BOOLEAN) /\ Append(prompts, FALSE) \in Seq(BOOLEAN) BY <1>1
  <2>3. QED BY <1>1, <2>1, <2>2
<1>3. asked' \in Nat
  <2>1. asked' \in {asked, asked + 1} BY DEF ReadLine
  <2>2. QED BY <1>1, <2>1
<1>4. QED BY <1>2, <1>3

(* PtyReader reads a line. *)
LEMMA ReadLineKept == ASSUME GuestInv, ReadLine PROVE GuestInv'
<1> DEFINE tag == Head(console)
<1>1. /\ console # << >> /\ ~eof /\ console' = Tail(console)
      /\ UNCHANGED <<setup, gpc, dev, pwd, deferred, fs, info, result, nfsUp, report, killed, taken>>
      /\ UNCHANGED <<eof, cut, sub, hpc, shown, typed, quit>>
  BY DEF ReadLine, guestVars
<1>2. console \in Seq(Tags) BY DEF GuestInv, TypeOK
<1>3. log' \in BOOLEAN /\ (log' => tag = "on" \/ (log /\ tag # "off")) BY OutputSwitched
<1>4. /\ rd' \in [label : BOOLEAN, ro : BOOLEAN, exports : SUBSET Exports, exit : BOOLEAN]
      /\ rd'.label <=> rd.label \/ tag = "label"
      /\ rd'.ro <=> rd.ro \/ tag = "ro"
      /\ rd'.exports = rd.exports \cup ({tag} \cap Exports)
  BY LineGathered
<1>5. prompts' \in Seq(BOOLEAN) /\ asked' \in Nat BY LineTyped
<1>6. /\ status' \in {status, "ready"} /\ (tag = "READY" => status' = "ready")
      /\ (tag # "READY" => status' = status)
  BY DEF ReadLine
<1>7. /\ tag \in Tags /\ Tail(console) \in Seq(Tags) /\ Range(console) = Range(Tail(console)) \cup {tag}
      /\ ReadyLast(console) => ReadyLast(Tail(console)) /\ (tag = "READY" => Range(Tail(console)) \cap Told = {})
      /\ ReadyQuiet(console, log) => ReadyQuiet(Tail(console), log') /\ (tag = "READY" => ~log)
      /\ Settled(console, log, Len(console)) => Settled(Tail(console), log', Len(Tail(console)))
  BY <1>1, <1>2, <1>3, LineRead
<1> HIDE DEF tag
<1>8. /\ tag \in Tags /\ console' \in Seq(Tags) /\ Lines = Lines' \cup {tag}
      /\ ReadyLast(console') /\ (tag = "READY" => Lines' \cap Told = {})
      /\ ReadyQuiet(console', log') /\ (tag = "READY" => ~log)
      /\ Quiet => Quiet'
  BY <1>1, <1>7 DEF Lines, Quiet, GuestInv, ReadyInv, LogInv
<1>9. Stack(deferred') /\ Left' = Left BY <1>1, LeftActions DEF Left
<1>10. TypeOK'
  <2>1. status' \in {"none", "ready", "failed"} BY <1>6 DEF GuestInv, TypeOK
  <2>2. QED BY <1>1, <1>3, <1>4, <1>5, <1>8, <2>1 DEF GuestInv, TypeOK
<1>11. StackInv' BY <1>1, <1>9 DEF GuestInv, StackInv
<1>12. FsInv' BY <1>1, <1>9 DEF GuestInv, FsInv
<1>13. InfoInv'
  <2>1. info.exports \subseteq Exports BY DEF GuestInv, TypeOK
  <2>2. /\ rd'.label => info'.label
        /\ "label" \in Lines' => info'.label
        /\ info'.label => rd'.label \/ "label" \in Lines'
        /\ gpc' \in Unnamed => ~info'.label
    BY <1>1, <1>4, <1>8 DEF GuestInv, InfoInv
  <2>3. /\ rd'.exports \subseteq info'.exports
        /\ Exports \cap Lines' \subseteq info'.exports
        /\ info'.exports \subseteq rd'.exports \cup Lines'
        /\ gpc' \in Unshared => info'.exports = {}
    BY <1>1, <1>4, <1>8, <2>1 DEF GuestInv, InfoInv
  <2>4. info'.ro => setup'.ro \/ rd'.ro \/ "ro" \in Lines' BY <1>1, <1>4, <1>8 DEF GuestInv, InfoInv
  <2>5. QED BY <2>2, <2>3, <2>4 DEF InfoInv
<1>14. ReadyInv'
  <2>1. CASE tag = "READY"
    <3>1. nfsUp' BY <1>1, <1>8, <2>1 DEF GuestInv, ReadyInv
    <3>2. ~log' BY <1>3, <1>8, <2>1
    <3>3. QED BY <1>1, <1>6, <1>8, <2>1, <3>1, <3>2 DEF GuestInv, ReadyInv
  <2>2. CASE tag # "READY"
    <3>1. status = "ready" => ~log'
      <4>1. SUFFICES ASSUME status = "ready" PROVE ~log' OBVIOUS
      <4>2. ~log /\ Lines \cap Told = {} BY <4>1 DEF GuestInv, ReadyInv
      <4>3. tag # "on" BY <1>8, <4>2 DEF Told
      <4>4. QED BY <1>3, <4>2, <4>3
    <3>2. QED BY <1>1, <1>6, <1>8, <2>2, <3>1 DEF GuestInv, ReadyInv
  <2>3. QED BY <2>1, <2>2
<1>15. LogInv'
  <2>1. status' = "failed" => status = "failed" BY <1>6
  <2>2. QED BY <1>1, <1>8, <1>9, <2>1 DEF GuestInv, LogInv, Forced
<1>16. QED BY <1>9, <1>10, <1>11, <1>12, <1>13, <1>14, <1>15 DEF GuestInv, Stack

(* PtyReader comes to the end of the output, or to an error. *)
LEMMA ReaderEndKept == ASSUME GuestInv, ReadEof \/ ReadError PROVE GuestInv'
<1>1. /\ eof' = TRUE /\ cut' \in BOOLEAN /\ (cut' \/ (gpc = "off" /\ console = << >>))
      /\ UNCHANGED <<setup, gpc, dev, pwd, deferred, fs, info, result, nfsUp, report, killed, taken>>
      /\ UNCHANGED <<rd, sub, log, console, prompts, hpc, shown, asked, typed, quit>>
  BY DEF ReadEof, ReadError, EndOfReader, guestVars, GuestInv, TypeOK
<1>2. status' \in {"none", "ready", "failed"} /\ (status' = "ready" => status = "ready")
  <2>1. status \in {"none", "ready", "failed"} BY DEF GuestInv, TypeOK
  <2>2. status' = IF status = "none" THEN "failed" ELSE status BY DEF ReadEof, ReadError, EndOfReader
  <2>3. QED BY <2>1, <2>2
<1>3. Stack(deferred') /\ Left' = Left BY <1>1, LeftActions DEF Left
<1>4. Printed({}) /\ (Quiet => Quiet') /\ console' = console BY <1>1, SaidNothing
<1>5. TypeOK' BY <1>1, <1>2 DEF GuestInv, TypeOK
<1>6. StackInv' BY <1>1, <1>3 DEF GuestInv, StackInv
<1>7. FsInv' BY <1>1, <1>3 DEF GuestInv, FsInv
<1>8. InfoInv' BY <1>1, <1>4 DEF GuestInv, InfoInv, Lines
<1>9. ReadyInv' BY <1>1, <1>2, <1>4 DEF GuestInv, ReadyInv, Lines
<1>10. LogInv' BY <1>1, <1>3, <1>4 DEF GuestInv, LogInv, Printed, Forced
<1>11. QED BY <1>3, <1>5, <1>6, <1>7, <1>8, <1>9, <1>10 DEF GuestInv, Stack

-----------------------------------------------------------------------------
(* The invariant                                                            *)

(* run() starts with its report registered and one line printed. *)
LEMMA InitialInv == ASSUME Init PROVE GuestInv
<1>1. /\ setup \in Setups /\ gpc = "start" /\ dev = 1 /\ pwd = FALSE /\ deferred = <<"report">>
      /\ fs = "none" /\ result = "none" /\ nfsUp = FALSE /\ report = FALSE /\ killed = FALSE
      /\ console = <<"vmproxy">> /\ eof = FALSE /\ cut = FALSE
      /\ status = "none" /\ sub = FALSE /\ log = FALSE
      /\ prompts = << >> /\ hpc = "start" /\ shown = 0 /\ asked = 0 /\ typed = 0 /\ taken = 0
      /\ quit = FALSE
  BY DEF Init
<1>2. /\ info \in [label : BOOLEAN, ro : BOOLEAN, exports : SUBSET Exports]
      /\ ~info.label /\ ~info.ro /\ info.exports = {}
  BY DEF Init, NoInfo
<1>3. /\ rd \in [label : BOOLEAN, ro : BOOLEAN, exports : SUBSET Exports, exit : BOOLEAN]
      /\ ~rd.label /\ ~rd.ro /\ rd.exports = {}
  BY DEF Init
<1>4. Left = {"report"} /\ Lines = {"vmproxy"} BY <1>1 DEF Left, Lines, Range
<1>5. dev \in 1..MaxDevices + 1 BY <1>1, MaxDevicesAssumption
<1>6. deferred \in Seq(Actions) /\ console \in Seq(Tags) /\ prompts \in Seq(BOOLEAN)
  BY <1>1 DEF Actions, Tags
<1>7. TypeOK BY <1>1, <1>2, <1>3, <1>5, <1>6 DEF TypeOK, Points
<1>8. Ordered(deferred, Rank) BY <1>1 DEF Ordered
<1>9. StackInv BY <1>1, <1>4 DEF StackInv
<1>10. FsInv BY <1>1, <1>4 DEF FsInv
<1>11. InfoInv BY <1>1, <1>2, <1>3, <1>4 DEF InfoInv, Exports
<1>12. Len(console) = 1 /\ console[1] = "vmproxy" BY <1>1
<1>13. ReadyInv BY <1>1, <1>4, <1>12 DEF ReadyInv, ReadyLast
<1>14. ReadyQuiet(console, log) /\ Quiet BY <1>1, <1>12 DEF ReadyQuiet, Quiet, Settled
<1>15. LogInv BY <1>1, <1>14 DEF LogInv
<1>16. QED BY <1>7, <1>8, <1>9, <1>10, <1>11, <1>13, <1>15 DEF GuestInv

(* Every step keeps the invariant. *)
LEMMA InvKept == ASSUME GuestInv, [Next]_vars PROVE GuestInv'
<1>1. CASE UNCHANGED vars
  <2>1. /\ UNCHANGED <<setup, guestVars, readVars, console>>
        /\ UNCHANGED <<prompts, hpc, shown, asked, typed, quit>>
    BY <1>1 DEF vars
  <2>2. QED BY <2>1, HostKept DEF GuestInv, TypeOK
<1>2. QED
  BY <1>1, GuestKept, ReadFailsKept, VmKilledKept, ReadLineKept, ReaderEndKept, WaitingKept DEF Next

(* The inductive invariant, for any number of devices and every request. *)
THEOREM GuestInvariant == Spec => []GuestInv
<1>1. Init => GuestInv BY InitialInv
<1>2. GuestInv /\ [Next]_vars => GuestInv' BY InvKept
<1>3. QED BY <1>1, <1>2, PTL DEF Spec

(* Every variable keeps its type; in particular the console carries only   *)
(* the tags that run(), its hooks and entrypoint.sh print.                  *)
THEOREM GuestTypeCorrect == Spec => []TypeOK
<1>1. GuestInv => TypeOK BY DEF GuestInv
<1>2. QED BY <1>1, GuestInvariant, PTL

(* However run() ends, a disk is unmounted before the report is handed     *)
(* over: the report's action lies at the bottom of the Deferred stack, and *)
(* a mounted disk has its unmount on it.                                    *)
THEOREM DiskUnmountedBeforeReport == Spec => []UnmountedBeforeReport
<1>1. GuestInv => UnmountedBeforeReport BY DEF GuestInv, FsInv, UnmountedBeforeReport
<1>2. QED BY <1>1, GuestInvariant, PTL

(* The before_unmount hook finds the file system mounted: it is above the  *)
(* unmount on the Deferred stack.                                           *)
THEOREM HookAlwaysFindsMount == Spec => []HookFindsMount
<1>1. ASSUME GuestInv PROVE HookFindsMount
  <2>1. SUFFICES ASSUME deferred # << >>, Last(deferred) = "before_unmount", setup.kind # "none"
                 PROVE  fs = "mounted"
    BY DEF HookFindsMount
  <2>2. "before_unmount" \in Left BY <1>1, <2>1, LeftActions, StackDrop DEF Left
  <2>3. QED BY <1>1, <2>1, <2>2 DEF GuestInv, FsInv
<1>2. QED BY <1>1, GuestInvariant, PTL

(* A host that is told of a ready server has read all that the guest says  *)
(* about the share: READY is the last line of interest on the console.      *)
THEOREM HostAlwaysKnowsShare == Spec => []HostKnowsShare
<1>1. ASSUME GuestInv PROVE HostKnowsShare
  <2>1. SUFFICES ASSUME status = "ready"
                 PROVE  /\ rd.label = info.label /\ rd.exports = info.exports
                        /\ info.ro => setup.ro \/ rd.ro
    BY DEF HostKnowsShare
  <2>2. "label" \notin Lines /\ "ro" \notin Lines /\ "exp1" \notin Lines /\ "exp2" \notin Lines
    BY <1>1, <2>1 DEF GuestInv, ReadyInv, Told
  <2>3. rd.label \in BOOLEAN /\ info.label \in BOOLEAN /\ info.exports \subseteq Exports
    BY <1>1 DEF GuestInv, TypeOK
  <2>4. rd.label <=> info.label BY <1>1, <2>2 DEF GuestInv, InfoInv
  <2>5. rd.exports \subseteq info.exports /\ info.exports \subseteq rd.exports
    BY <1>1, <2>2, <2>3 DEF GuestInv, InfoInv, Exports
  <2>6. info.ro => setup.ro \/ rd.ro BY <1>1, <2>2 DEF GuestInv, InfoInv
  <2>7. QED BY <2>3, <2>4, <2>5, <2>6
<1>2. QED BY <1>1, GuestInvariant, PTL

(* Output that was forced on the user's console is off once the server is  *)
(* ready, and after a mount that failed at any step, unless the VM was      *)
(* killed or PtyReader ended at an error.                                   *)
THEOREM ForcedOutputAlwaysEnds == Spec => []ForcedOutputEnds
<1>1. ASSUME GuestInv PROVE ForcedOutputEnds
  <2>1. /\ status \in {"none", "ready", "failed"}
        /\ log \in BOOLEAN /\ killed \in BOOLEAN /\ cut \in BOOLEAN
    BY <1>1 DEF GuestInv, TypeOK
  <2>2. SUFFICES ASSUME status # "none", status = "failed" => ~killed /\ ~cut PROVE ~log
    BY <2>1 DEF ForcedOutputEnds
  <2>3. CASE status = "ready" BY <1>1, <2>3 DEF GuestInv, ReadyInv
  <2>4. CASE status = "failed"
    <3>1. gpc = "off" /\ console = << >> /\ Left = {} BY <1>1, <2>2, <2>4 DEF GuestInv, LogInv
    <3>2. Quiet BY <1>1, <2>2, <2>4, <3>1 DEF GuestInv, LogInv, Forced
    <3>3. Settled(<< >>, log, 0) BY <3>1, <3>2 DEF Quiet
    <3>4. QED BY <3>3 DEF Settled
  <2>5. QED BY <2>1, <2>2, <2>3, <2>4
<1>2. QED BY <1>1, GuestInvariant, PTL

-----------------------------------------------------------------------------
(* The report                                                               *)

(* run() has a result when it has returned; the report is handed over when  *)
(* it leaves the Deferred stack, to nobody only after a Quit.               *)
ReportInv ==
  /\ Running => result = "none"
  /\ gpc = "unwind" => result # "none"
  /\ "report" \in Left \/ report
  /\ report /\ ~sub => quit

(* The report is the last clean-up to run. *)
LEMMA ReportDropsLast ==
  ASSUME NEW d, Stack(d), d # << >>, Last(d) = "report"
  PROVE  d = <<"report">>
<1> DEFINE n == Len(d)
<1>1. d \in Seq(Actions) /\ n \in Nat /\ n > 0 /\ d[n] = "report" BY DEF Stack, Last
<1>2. \A i \in 1..n : d[i] \in Range(d) BY <1>1, SeqByPosition
<1>3. \A x \in Range(d) : x = "report"
  <2>1. \A x \in Range(d) : x \in Actions /\ (x = "report" \/ Rank[x] < 1)
    BY <1>1, StackDrop, RankValues, SeqByPosition
  <2>2. \A x \in Actions : Rank[x] >= 1 BY DEF Rank
  <2>3. QED BY <2>1, <2>2, RankValues
<1>4. n = 1
  <2> HIDE DEF n
  <2>1. SUFFICES ASSUME n > 1 PROVE FALSE BY <1>1
  <2>2. 1 \in 1..n /\ n \in 1..n /\ 1 < n BY <1>1, <2>1
  <2>3. Rank[d[1]] < Rank[d[n]] BY <1>1, <2>2 DEF Stack, Ordered, n
  <2>4. d[1] = "report" BY <1>2, <1>3, <2>2
  <2>5. QED BY <1>1, <2>3, <2>4, RankValues
<1>5. QED BY <1>1, <1>4

(* The steps of run(), seen from the report: it goes on, returns, drops an  *)
(* action or ends main.                                                     *)
LEMMA StepOfRun ==
  ASSUME GuestInv, Guest \/ ReadFails
  PROVE  \/ Running /\ Running' /\ UNCHANGED <<result, report>>
         \/ /\ Running /\ gpc' = "unwind" /\ result' \in {"ok", "err", "panic"}
            /\ UNCHANGED report
            /\ deferred' \in {deferred, PopAction(deferred, "prompt_end")}
         \/ Unwind
         \/ MainReturns
<1>1. CASE SetUp BY <1>1 DEF SetUp, Fail
<1>2. CASE AskCommon BY <1>2 DEF AskCommon, Fail
<1>3. CASE ReadCommon BY <1>3 DEF ReadCommon
<1>4. CASE Decrypt BY <1>4 DEF Decrypt, Fail
<1>5. CASE ReadDevice BY <1>5 DEF ReadDevice, Fail
<1>6. CASE ReadFails BY <1>6 DEF ReadFails, Fail
<1>7. CASE ActivateVolumes BY <1>7 DEF ActivateVolumes, Fail
<1>8. CASE ImportPools BY <1>8 DEF ImportPools, Fail
<1>9. CASE BeforeMount BY <1>9 DEF BeforeMount, RunHook, Fail
<1>10. CASE StartMount BY <1>10 DEF StartMount
<1>11. CASE MountDataset BY <1>11 DEF MountDataset, Fail
<1>12. CASE ReadDataset BY <1>12 DEF ReadDataset, Fail
<1>13. CASE FinishMount BY <1>13 DEF FinishMount, Fail
<1>14. CASE AfterMount BY <1>14 DEF AfterMount, RunHook, Fail
<1>15. CASE RegisterBeforeUnmount BY <1>15 DEF RegisterBeforeUnmount
<1>16. CASE ReadOptions BY <1>16 DEF ReadOptions, Fail
<1>17. CASE BuildExports BY <1>17 DEF BuildExports, Fail
<1>18. CASE StartEntrypoint BY <1>18 DEF StartEntrypoint
<1>19. CASE NfsReady BY <1>19 DEF NfsReady
<1>20. CASE WaitForQuitCmd BY <1>20 DEF WaitForQuitCmd
<1>21. QED
  BY <1>1, <1>2, <1>3, <1>4, <1>5, <1>6, <1>7, <1>8, <1>9, <1>10, <1>11, <1>12, <1>13, <1>14,
     <1>15, <1>16, <1>17, <1>18, <1>19, <1>20
  DEF Guest

(* What is not a step of run() leaves its result and its clean-ups alone. *)
LEMMA StepOfOthers ==
  ASSUME [Next]_vars, ~Guest, ~ReadFails
  PROVE  /\ UNCHANGED <<deferred, result, report>>
         /\ \/ gpc # "off" /\ gpc' = "off" /\ killed' /\ UNCHANGED <<sub, quit>>
            \/ UNCHANGED <<gpc, killed, sub, quit>>
            \/ /\ UNCHANGED <<gpc, killed, sub>> /\ gpc # "off" /\ quit' = TRUE
            \/ /\ UNCHANGED <<gpc, killed, quit>> /\ gpc # "off"
               /\ ~sub /\ ~quit /\ sub' = TRUE
<1>1. CASE VmKilled BY <1>1 DEF VmKilled
<1>2. CASE ReadLine BY <1>2 DEF ReadLine, guestVars
<1>3. CASE SubscribeToVmEvents BY <1>3 DEF SubscribeToVmEvents, guestVars
<1>4. CASE ReadEof \/ ReadError BY <1>4 DEF ReadEof, ReadError, EndOfReader, guestVars
<1>5. CASE Host BY <1>5 DEF Host, AwaitPrompt, AwaitPromptEnd, AwaitNfs, guestVars
<1>6. CASE SendQuit BY <1>6 DEF SendQuit, guestVars
<1>7. CASE Type BY <1>7 DEF Type, guestVars
<1>8. CASE UNCHANGED vars BY <1>8 DEF vars, guestVars
<1>9. QED BY <1>1, <1>2, <1>3, <1>4, <1>5, <1>6, <1>7, <1>8 DEF Next

(* A step of run() leaves everybody else alone. *)
LEMMA OthersAlone == ASSUME Guest \/ ReadFails PROVE UNCHANGED <<sub, quit, killed>>
BY DEF Guest, ReadFails

(* The stack after one action of it was run. *)
LEMMA ActionDropped ==
  ASSUME GuestInv, Unwind
  PROVE  /\ gpc = "unwind" /\ gpc' = "unwind" /\ result' = result /\ ~report
         /\ \/ /\ deferred = <<"report">> /\ deferred' = << >>
               /\ sub \/ quit
               /\ report'
            \/ /\ deferred \notin {<<"report">>, << >>}
               /\ "report" \in Left => "report" \in Left'
               /\ UNCHANGED report
<1>1. /\ gpc = "unwind" /\ gpc' = "unwind" /\ result' = result
      /\ deferred # << >> /\ deferred' = Front(deferred)
      /\ \/ Last(deferred) = "report" /\ (sub \/ quit) /\ report' = TRUE
         \/ Last(deferred) # "report" /\ UNCHANGED report
  BY DEF Unwind
<1>2. Stack(deferred) BY LeftActions
<1>3. Left' = Left \ {Last(deferred)} /\ Last(deferred) \in Left
  BY <1>1, <1>2, StackDrop DEF Left
<1>4. ~report BY <1>3 DEF GuestInv, FsInv
<1>5. CASE Last(deferred) = "report"
  <2>1. deferred = <<"report">> BY <1>1, <1>2, <1>5, ReportDropsLast
  <2>2. Front(deferred) = << >> BY <2>1 DEF Front
  <2>3. QED BY <1>1, <1>4, <1>5, <2>1, <2>2
<1>6. CASE Last(deferred) # "report"
  <2>1. Last(<<"report">>) = "report" BY DEF Last
  <2>2. deferred # <<"report">> BY <1>6, <2>1
  <2>3. QED BY <1>1, <1>3, <1>4, <1>6, <2>2
<1>7. QED BY <1>5, <1>6

(* The report stays on the stack until it is handed over. *)
LEMMA ReportKept == ASSUME GuestInv, ReportInv, [Next]_vars PROVE ReportInv'
<1>1. CASE Guest \/ ReadFails
  <2>1. UNCHANGED <<sub, quit>> BY <1>1, OthersAlone
  <2>2. GuestInv' BY InvKept
  <2>3. CASE Running /\ Running' /\ UNCHANGED <<result, report>>
    BY <2>1, <2>2, <2>3 DEF ReportInv, GuestInv, StackInv
  <2>4. CASE /\ Running /\ gpc' = "unwind" /\ result' \in {"ok", "err", "panic"}
             /\ UNCHANGED report
             /\ deferred' \in {deferred, PopAction(deferred, "prompt_end")}
    <3>1. Left' = Left \/ Left' = Left \ {"prompt_end"} BY <2>4, LeftActions, StackPop DEF Left
    <3>2. QED BY <2>1, <2>4, <3>1 DEF ReportInv
  <2>5. CASE Unwind BY <2>1, <2>5, ActionDropped DEF ReportInv
  <2>6. CASE MainReturns BY <2>1, <2>6 DEF MainReturns, ReportInv, Left
  <2>7. QED BY <1>1, <2>3, <2>4, <2>5, <2>6, StepOfRun
<1>2. CASE ~Guest /\ ~ReadFails
  <2>1. UNCHANGED <<result, report>> /\ Left' = Left BY <1>2, StepOfOthers DEF Left
  <2>2. /\ Running' => Running
        /\ gpc' = "unwind" => gpc = "unwind"
    BY <1>2, StepOfOthers
  <2>3. (sub => sub') /\ (quit => quit')
    <3>1. \/ sub' = sub /\ quit' = quit
          \/ sub' = sub /\ quit' = TRUE
          \/ sub' = TRUE /\ quit' = quit
      BY <1>2, StepOfOthers
    <3>2. sub \in BOOLEAN /\ quit \in BOOLEAN BY DEF GuestInv, TypeOK
    <3>3. QED BY <3>1, <3>2
  <2>4. QED BY <2>1, <2>2, <2>3 DEF ReportInv
<1>3. QED BY <1>1, <1>2

(* The inductive invariant of the report. *)
THEOREM ReportInvariant == Spec => []ReportInv
<1>1. Init => ReportInv BY DEF Init, ReportInv, Left, Range
<1>2. GuestInv /\ ReportInv /\ [Next]_vars => ReportInv' BY ReportKept
<1>3. QED BY <1>1, <1>2, GuestInvariant, PTL DEF Spec

(* Every step of the guest and its host is one of GuestReport, or none. *)
LEMMA StepKeepsPromise ==
  ASSUME GuestInv, ReportInv, [Next]_vars
  PROVE  [Promise!Next]_(Promise!avars)
<1>1. killed => gpc = "off" BY DEF GuestInv, LogInv
<1>2. /\ report \in BOOLEAN /\ sub \in BOOLEAN /\ quit \in BOOLEAN
      /\ report' \in BOOLEAN /\ sub' \in BOOLEAN
  BY InvKept DEF GuestInv, TypeOK
<1>3. CASE Guest \/ ReadFails
  <2>1. UNCHANGED <<sub, quit, killed>> BY <1>3, OthersAlone
  <2>2. CASE Running /\ Running' /\ UNCHANGED <<result, report>>
    <3>1. ReportPhase = "up" /\ ReportPhase' = "up" BY <2>2 DEF ReportInv, ReportPhase
    <3>2. QED BY <2>1, <2>2, <3>1 DEF Promise!avars
  <2>3. CASE Running /\ gpc' = "unwind" /\ UNCHANGED report
    <3>1. ReportPhase = "up" /\ ReportPhase' \in {"up", "closing"}
      BY <2>3 DEF ReportInv, ReportPhase
    <3>2. QED BY <2>1, <2>3, <3>1 DEF Promise!avars, Promise!Next, Promise!Close
  <2>4. CASE Unwind
    <3>1. result # "none" BY <2>4, ActionDropped DEF ReportInv
    <3>2. CASE deferred = <<"report">> /\ deferred' = << >> /\ report'
      <4>1. ReportPhase = "closing" /\ ReportPhase' = "closing"
        BY <2>4, <3>1, <3>2, ActionDropped DEF ReportPhase
      <4>2. CASE sub BY <1>2, <2>1, <3>2, <4>1, <4>2 DEF Promise!Next, Promise!Report
      <4>3. CASE ~sub BY <2>1, <4>1, <4>3 DEF Promise!avars
      <4>4. QED BY <4>2, <4>3
    <3>3. CASE deferred \notin {<<"report">>, << >>} /\ UNCHANGED report
      <4>1. ReportPhase = "up" /\ ReportPhase' \in {"up", "closing"}
        BY <2>4, <3>3, ActionDropped DEF ReportPhase
      <4>2. QED BY <2>1, <3>3, <4>1 DEF Promise!avars, Promise!Next, Promise!Close
    <3>4. QED BY <2>4, <3>2, <3>3, ActionDropped
  <2>5. CASE MainReturns
    <3>1. gpc = "unwind" /\ gpc' = "off" /\ deferred = << >> /\ UNCHANGED report
      BY <2>5 DEF MainReturns
    <3>2. report BY <3>1, StackEmpty DEF ReportInv, Left
    <3>3. ReportPhase = "closing" /\ ReportPhase' = "off"
      BY <1>1, <2>1, <3>1 DEF ReportInv, ReportPhase
    <3>4. QED BY <1>2, <2>1, <3>1, <3>2, <3>3 DEF Promise!Next, Promise!PowerOff
  <2>6. QED BY <1>3, <2>2, <2>3, <2>4, <2>5, StepOfRun
<1>4. CASE ~Guest /\ ~ReadFails
  <2>1. UNCHANGED <<deferred, result, report>> BY <1>4, StepOfOthers
  <2>2. CASE gpc # "off" /\ gpc' = "off" /\ killed' /\ UNCHANGED <<sub, quit>>
    BY <2>1, <2>2 DEF ReportPhase, Promise!avars
  <2>3. CASE UNCHANGED <<gpc, killed, sub, quit>>
    BY <2>1, <2>3 DEF ReportPhase, Promise!avars
  <2>4. CASE UNCHANGED <<gpc, killed, sub>> /\ gpc # "off" /\ quit' = TRUE
    BY <2>1, <2>4 DEF ReportPhase, Promise!Next, Promise!ReadQuit
  <2>5. CASE /\ UNCHANGED <<gpc, killed, quit>> /\ gpc # "off"
             /\ ~sub /\ ~quit /\ sub' = TRUE
    <3>1. ~report BY <2>5 DEF ReportInv
    <3>2. ReportPhase # "off" /\ ReportPhase' = ReportPhase BY <2>1, <2>5 DEF ReportPhase
    <3>3. QED BY <2>1, <2>5, <3>1, <3>2 DEF Promise!Next, Promise!Register
  <2>6. QED BY <1>4, <2>2, <2>3, <2>4, <2>5, StepOfOthers
<1>5. QED BY <1>3, <1>4

(* On every path through run() and its clean-ups the guest keeps what      *)
(* GuestReport promises: it hands the report over before main returns.     *)
THEOREM GuestKeepsReportPromise == Spec => KeepsReportPromise
<1>1. Init => Promise!Init
  BY DEF Init, ReportPhase, Promise!Init
<1>2. GuestInv /\ ReportInv /\ [Next]_vars => [Promise!Next]_(Promise!avars)
  BY StepKeepsPromise
<1>3. QED
  BY <1>1, <1>2, GuestInvariant, ReportInvariant, PTL DEF Spec, KeepsReportPromise

-----------------------------------------------------------------------------
(* The prompts                                                              *)
(*                                                                          *)
(* A message, on its way through the console and the prompt channel, moves  *)
(* the prompts on: from k of them done and one open (a = 1) or none (a = 0) *)
(* to m done and one open or none (b).                                      *)

\* what stands for the start of a prompt, for its end, and for one of zfs
Tag == [start |-> {"start"}, end |-> {"end"}, text |-> {"text"}]
Msg == [start |-> {TRUE}, end |-> {FALSE}, text |-> {}]

Moves(x, w, k, a, m, b) ==
  /\ x \in w.start => a = 0 /\ m = k /\ b = 1
  /\ x \in w.end   => a = 1 /\ m = k + 1 /\ b = 0
  /\ x \in w.text  => a = 0 /\ m = k + 1 /\ b = 0
  /\ x \notin w.start \cup w.end \cup w.text => m = k /\ b = a

\* the messages of s, one after the other: r and e are what each leaves
Path(s, w, k, a, m, b) ==
  \E r \in [0..Len(s) -> Nat], e \in [0..Len(s) -> 0..1] :
    /\ r[0] = k /\ e[0] = a /\ r[Len(s)] = m /\ e[Len(s)] = b
    /\ \A i \in 0..Len(s) : r[i] + e[i] <= m + b
    /\ \A i \in 1..Len(s) : Moves(s[i], w, r[i - 1], e[i - 1], r[i], e[i])

(* No message. *)
LEMMA PathEmpty ==
  ASSUME NEW w, NEW k \in Nat, NEW a \in 0..1
  PROVE  Path(<< >>, w, k, a, k, a)
<1> DEFINE r == [i \in 0..0 |-> k]
           e == [i \in 0..0 |-> a]
<1>1. r \in [0..0 -> Nat] /\ e \in [0..0 -> 0..1] /\ r[0] = k /\ e[0] = a OBVIOUS
<1>2. \A i \in 0..0 : r[i] + e[i] <= k + a OBVIOUS
<1> HIDE DEF r, e
<1>3. Len(<< >>) = 0 OBVIOUS
<1>4. QED BY <1>1, <1>2, <1>3 DEF Path

(* The prompts do not go back. *)
LEMMA PathGrows ==
  ASSUME NEW X, NEW s \in Seq(X), NEW w, NEW k, NEW a, NEW m, NEW b, Path(s, w, k, a, m, b)
  PROVE  /\ k \in Nat /\ a \in 0..1 /\ m \in Nat /\ b \in 0..1 /\ k + a <= m + b
         /\ s = << >> => k = m /\ a = b
<1> DEFINE n == Len(s)
<1>1. n \in Nat /\ (s = << >> => n = 0) OBVIOUS
<1>2. PICK r \in [0..n -> Nat], e \in [0..n -> 0..1] :
        /\ r[0] = k /\ e[0] = a /\ r[n] = m /\ e[n] = b
        /\ \A i \in 0..n : r[i] + e[i] <= m + b
  BY DEF Path
<1> HIDE DEF n
<1>3. 0 \in 0..n /\ n \in 0..n BY <1>1
<1>4. QED BY <1>1, <1>2, <1>3

(* One more message is sent. *)
LEMMA PathAppend ==
  ASSUME NEW X, NEW s \in Seq(X), NEW x \in X, NEW w, NEW k, NEW a, NEW m, NEW b,
         Path(s, w, k, a, m, b), NEW n \in Nat, NEW c \in 0..1,
         Moves(x, w, m, b, n, c), m + b <= n + c
  PROVE  Path(Append(s, x), w, k, a, n, c)
<1> DEFINE l == Len(s)
           t == Append(s, x)
<1>1. /\ l \in Nat /\ t \in Seq(X) /\ Len(t) = l + 1
      /\ (\A i \in 1..l : t[i] = s[i]) /\ t[l + 1] = x
  OBVIOUS
<1>2. PICK r \in [0..l -> Nat], e \in [0..l -> 0..1] :
        /\ r[0] = k /\ e[0] = a /\ r[l] = m /\ e[l] = b
        /\ \A i \in 0..l : r[i] + e[i] <= m + b
        /\ \A i \in 1..l : Moves(s[i], w, r[i - 1], e[i - 1], r[i], e[i])
  BY DEF Path
<1> HIDE DEF l, t
<1> DEFINE q == [i \in 0..(l + 1) |-> IF i = l + 1 THEN n ELSE r[i]]
           f == [i \in 0..(l + 1) |-> IF i = l + 1 THEN c ELSE e[i]]
<1>3. /\ \A i \in 0..(l + 1) : i # l + 1 => i \in 0..l
      /\ \A i \in 0..l : i \in 0..(l + 1) /\ i # l + 1
      /\ 0 \in 0..l /\ l \in 0..l /\ l + 1 \in 0..(l + 1)
  BY <1>1
<1>4. /\ q \in [0..(l + 1) -> Nat] /\ f \in [0..(l + 1) -> 0..1]
      /\ q[l + 1] = n /\ f[l + 1] = c
      /\ \A i \in 0..l : q[i] = r[i] /\ f[i] = e[i]
  BY <1>2, <1>3
<1> HIDE DEF q, f
<1>5. \A i \in 0..(l + 1) : q[i] + f[i] <= n + c
  <2>1. SUFFICES ASSUME NEW i \in 0..l PROVE q[i] + f[i] <= n + c BY <1>3, <1>4
  <2>2. m \in Nat /\ b \in 0..1 /\ r[i] \in Nat /\ e[i] \in 0..1 BY <1>2, <1>3
  <2>3. QED BY <1>2, <1>4, <2>2
<1>6. \A i \in 1..(l + 1) : Moves(t[i], w, q[i - 1], f[i - 1], q[i], f[i])
  <2>1. SUFFICES ASSUME NEW i \in 1..(l + 1)
                 PROVE  Moves(t[i], w, q[i - 1], f[i - 1], q[i], f[i])
    OBVIOUS
  <2>2. CASE i = l + 1
    <3>1. i - 1 = l BY <1>1, <2>2
    <3>2. QED BY <1>1, <1>2, <1>3, <1>4, <2>2, <3>1
  <2>3. CASE i # l + 1
    <3>1. i \in 1..l /\ i \in 0..l /\ i - 1 \in 0..l BY <1>1, <2>3
    <3>2. QED BY <1>1, <1>2, <1>4, <3>1
  <2>4. QED BY <2>2, <2>3
<1>7. q[0] = k /\ f[0] = a BY <1>2, <1>3, <1>4
<1>8. QED BY <1>1, <1>4, <1>5, <1>6, <1>7 DEF Path, t

(* The first message is received. *)
LEMMA PathTail ==
  ASSUME NEW X, NEW s \in Seq(X), s # << >>, NEW w, NEW k, NEW a, NEW m, NEW b,
         Path(s, w, k, a, m, b)
  PROVE  \E n \in Nat, c \in 0..1 :
           Moves(Head(s), w, k, a, n, c) /\ Path(Tail(s), w, n, c, m, b)
<1> DEFINE l == Len(s) - 1
           t == Tail(s)
<1>1. /\ l \in Nat /\ Len(s) = l + 1 /\ Head(s) = s[1]
      /\ Len(t) = l /\ \A i \in 1..l : t[i] = s[i + 1]
  OBVIOUS
<1>2. PICK r \in [0..(l + 1) -> Nat], e \in [0..(l + 1) -> 0..1] :
        /\ r[0] = k /\ e[0] = a /\ r[l + 1] = m /\ e[l + 1] = b
        /\ \A i \in 0..(l + 1) : r[i] + e[i] <= m + b
        /\ \A i \in 1..(l + 1) : Moves(s[i], w, r[i - 1], e[i - 1], r[i], e[i])
  BY <1>1 DEF Path
<1> HIDE DEF l, t
<1> DEFINE q == [i \in 0..l |-> r[i + 1]]
           f == [i \in 0..l |-> e[i + 1]]
<1>3. \A i \in 0..l : i + 1 \in 0..(l + 1) /\ i + 1 \in 1..(l + 1) BY <1>1
<1>4. /\ q \in [0..l -> Nat] /\ f \in [0..l -> 0..1]
      /\ \A i \in 0..l : q[i] = r[i + 1] /\ f[i] = e[i + 1]
  BY <1>2, <1>3
<1> HIDE DEF q, f
<1>5. \A i \in 0..l : q[i] + f[i] <= m + b BY <1>2, <1>3, <1>4
<1>6. \A i \in 1..l : Moves(t[i], w, q[i - 1], f[i - 1], q[i], f[i])
  <2>1. SUFFICES ASSUME NEW i \in 1..l
                 PROVE  Moves(t[i], w, q[i - 1], f[i - 1], q[i], f[i])
    OBVIOUS
  <2>2. /\ i \in 0..l /\ i - 1 \in 0..l /\ (i - 1) + 1 = i /\ (i + 1) - 1 = i
        /\ i + 1 \in 1..(l + 1)
    BY <1>1
  <2>3. /\ q[i - 1] = r[(i + 1) - 1] /\ f[i - 1] = e[(i + 1) - 1]
        /\ q[i] = r[i + 1] /\ f[i] = e[i + 1] /\ t[i] = s[i + 1]
    BY <1>1, <1>4, <2>2
  <2>4. QED BY <1>2, <2>2, <2>3
<1>7. /\ q[0] = r[1] /\ f[0] = e[1] /\ q[l] = m /\ f[l] = b
      /\ q[0] \in Nat /\ f[0] \in 0..1
  <2>1. 0 \in 0..l /\ l \in 0..l /\ 0 + 1 = 1 BY <1>1
  <2>2. QED BY <1>2, <1>4, <2>1
<1>8. Moves(s[1], w, k, a, q[0], f[0])
  <2>1. 1 \in 1..(l + 1) /\ 1 - 1 = 0 BY <1>1
  <2>2. QED BY <1>2, <1>7, <2>1
<1>9. Path(t, w, q[0], f[0], m, b) BY <1>1, <1>4, <1>5, <1>6, <1>7 DEF Path
<1>10. QED BY <1>1, <1>7, <1>8, <1>9 DEF t

(* It does not matter how many prompts there were before. *)
LEMMA PathShift ==
  ASSUME NEW X, NEW s \in Seq(X), NEW w, NEW k, NEW a, NEW m, NEW b, Path(s, w, k, a, m, b)
  PROVE  Path(s, w, k + 1, a, m + 1, b)
<1> DEFINE l == Len(s)
<1>1. l \in Nat OBVIOUS
<1>2. PICK r \in [0..l -> Nat], e \in [0..l -> 0..1] :
        /\ r[0] = k /\ e[0] = a /\ r[l] = m /\ e[l] = b
        /\ \A i \in 0..l : r[i] + e[i] <= m + b
        /\ \A i \in 1..l : Moves(s[i], w, r[i - 1], e[i - 1], r[i], e[i])
  BY DEF Path
<1> HIDE DEF l
<1> DEFINE q == [i \in 0..l |-> r[i] + 1]
<1>3. q \in [0..l -> Nat] /\ \A i \in 0..l : q[i] = r[i] + 1 BY <1>2
<1> HIDE DEF q
<1>4. 0 \in 0..l /\ l \in 0..l BY <1>1
<1>5. \A i \in 0..l : q[i] + e[i] <= (m + 1) + b
  <2>1. SUFFICES ASSUME NEW i \in 0..l PROVE q[i] + e[i] <= (m + 1) + b OBVIOUS
  <2>2. m \in Nat /\ b \in 0..1 /\ r[i] \in Nat /\ e[i] \in 0..1 BY <1>2, <1>4
  <2>3. QED BY <1>2, <1>3, <2>2
<1>6. \A i \in 1..l : Moves(s[i], w, q[i - 1], e[i - 1], q[i], e[i])
  <2>1. SUFFICES ASSUME NEW i \in 1..l PROVE Moves(s[i], w, q[i - 1], e[i - 1], q[i], e[i])
    OBVIOUS
  <2>2. i \in 0..l /\ i - 1 \in 0..l BY <1>1
  <2>3. /\ q[i] = r[i] + 1 /\ q[i - 1] = r[i - 1] + 1
        /\ r[i] \in Nat /\ r[i - 1] \in Nat
        /\ Moves(s[i], w, r[i - 1], e[i - 1], r[i], e[i])
    BY <1>2, <1>3, <2>2
  <2>4. QED BY <2>3 DEF Moves
<1>7. q[0] = k + 1 /\ q[l] = m + 1 BY <1>2, <1>3, <1>4
<1>8. QED BY <1>2, <1>3, <1>5, <1>6, <1>7 DEF Path, l

Open == IF "prompt_end" \in Left THEN 1 ELSE 0
Rounds == taken + (IF gpc = "zfs_read" THEN 1 ELSE 0)
Awaiting == IF hpc = "end" THEN 1 ELSE 0

(* The messages in the channel lead from what the host knows of the prompts *)
(* to what PtyReader has read, and the lines on the console from there to   *)
(* what the guest is at: until run() returns it has read a passphrase for   *)
(* every prompt it has ended.                                               *)
PromptInv ==
  ~(eof /\ prompts = << >>) =>
    \E k, m, n \in Nat, b \in 0..1 :
      /\ asked <= k + Awaiting
      /\ Path(prompts, Msg, k, Awaiting, m, b)
      /\ Path(console, Tag, m, b, n, Open)
      /\ Running => n = Rounds

Other == Tags \ {"start", "end", "text"}

\* a step of run() that says nothing about prompts
Silent ==
  /\ \/ console' = console
     \/ \E t \in Other : console' = Append(console, t)
     \/ \E t, u \in Other : console' = Append(Append(console, t), u)
  /\ Open' = Open /\ (Running' => Running /\ Rounds' = Rounds)
\* one that starts, that ends a prompt, one at which zfs asks
Starts ==
  /\ console' = Append(console, "start") /\ Open = 0 /\ Open' = 1
  /\ Running' => Running /\ Rounds' = Rounds
Ends ==
  /\ console' = Append(console, "end") /\ Open = 1 /\ Open' = 0
  /\ Running' => Running /\ Rounds' = Rounds + 1
Asks ==
  /\ console' = Append(console, "text") /\ Open = 0 /\ Open' = 0
  /\ Running' => Running /\ Rounds' = Rounds + 1

(* What a line makes of the prompts. *)
LEMMA TagMoves ==
  ASSUME NEW k \in Nat
  PROVE  /\ Moves("start", Tag, k, 0, k, 1)
         /\ Moves("end", Tag, k, 1, k + 1, 0)
         /\ Moves("text", Tag, k, 0, k + 1, 0)
         /\ \A t \in Other : \A a \in 0..1 : Moves(t, Tag, k, a, k, a)
BY DEF Moves, Tag, Other

(* What a message makes of them. *)
LEMMA MsgMoves ==
  ASSUME NEW s \in Seq(BOOLEAN), s # << >>, NEW k, NEW a, NEW m, NEW b,
         Moves(Head(s), Msg, k, a, m, b)
  PROVE  \/ Head(s) \in {TRUE} /\ a = 0 /\ m = k /\ b = 1
         \/ Head(s) \in {FALSE} /\ a = 1 /\ m = k + 1 /\ b = 0
<1>1. Msg.start = {TRUE} /\ Msg.end = {FALSE} BY DEF Msg
<1>2. Head(s) \in BOOLEAN OBVIOUS
<1>3. Head(s) \in {TRUE} \/ Head(s) \in {FALSE} BY <1>2, Zenon
<1>4. CASE Head(s) \in {TRUE}
  <2>1. Head(s) \in Msg.start BY <1>1, <1>4
  <2>2. QED BY <1>4, <2>1 DEF Moves
<1>5. CASE Head(s) \in {FALSE}
  <2>1. Head(s) \in Msg.end BY <1>1, <1>5
  <2>2. QED BY <1>5, <2>1 DEF Moves
<1>6. QED BY <1>3, <1>4, <1>5

(* The guest announces its prompts as it comes to them. *)
LEMMA SaidOfPrompts ==
  ASSUME GuestInv, Silent \/ Starts \/ Ends \/ Asks,
         NEW m \in Nat, NEW n \in Nat, NEW b \in 0..1,
         Path(console, Tag, m, b, n, Open), Running => n = Rounds
  PROVE  \E l \in Nat : Path(console', Tag, m, b, l, Open') /\ (Running' => l = Rounds')
<1>1. console \in Seq(Tags) /\ taken \in Nat BY DEF GuestInv, TypeOK
<1>2. Open \in 0..1 /\ Rounds \in Nat BY <1>1 DEF Open, Rounds
<1>3. \A t \in Other : t \in Tags BY DEF Other
<1>4. CASE Silent
  <2>1. ASSUME NEW s \in Seq(Tags), NEW t \in Other, Path(s, Tag, m, b, n, Open)
        PROVE  Append(s, t) \in Seq(Tags) /\ Path(Append(s, t), Tag, m, b, n, Open)
    <3>1. Moves(t, Tag, n, Open, n, Open) BY <1>2, TagMoves
    <3>2. t \in Tags /\ n + Open <= n + Open BY <1>2, <1>3
    <3>3. QED BY <1>2, <2>1, <3>1, <3>2, PathAppend
  <2>2. Path(console', Tag, m, b, n, Open)
    <3>1. CASE console' = console BY <3>1
    <3>2. CASE \E t \in Other : console' = Append(console, t) BY <1>1, <2>1, <3>2
    <3>3. CASE \E t, u \in Other : console' = Append(Append(console, t), u)
      <4>1. PICK t, u \in Other : console' = Append(Append(console, t), u) BY <3>3
      <4> DEFINE c == Append(console, t)
      <4>2. c \in Seq(Tags) /\ Path(c, Tag, m, b, n, Open) BY <1>1, <2>1
      <4> HIDE DEF c
      <4>3. Path(Append(c, u), Tag, m, b, n, Open) BY <2>1, <4>2
      <4>4. QED BY <4>1, <4>3 DEF c
    <3>4. QED BY <1>4, <3>1, <3>2, <3>3 DEF Silent
  <2>3. QED BY <1>4, <2>2 DEF Silent
<1>5. CASE Starts
  <2>1. "start" \in Tags /\ n + 0 <= n + 1 BY DEF Tags
  <2>2. Moves("start", Tag, n, 0, n, 1) /\ Path(console, Tag, m, b, n, 0)
    BY <1>5, TagMoves DEF Starts
  <2>3. Path(Append(console, "start"), Tag, m, b, n, 1)
    BY <1>1, <2>1, <2>2, PathAppend
  <2>4. QED BY <1>5, <2>3 DEF Starts
<1>6. CASE Ends
  <2>1. "end" \in Tags /\ n + 1 <= (n + 1) + 0 /\ n + 1 \in Nat BY DEF Tags
  <2>2. Moves("end", Tag, n, 1, n + 1, 0) /\ Path(console, Tag, m, b, n, 1)
    BY <1>6, TagMoves DEF Ends
  <2> DEFINE l == n + 1
  <2> HIDE DEF l
  <2>3. Path(Append(console, "end"), Tag, m, b, l, 0)
    BY <1>1, <2>1, <2>2, PathAppend DEF l
  <2>4. QED BY <1>6, <2>1, <2>3 DEF Ends, l
<1>7. CASE Asks
  <2>1. "text" \in Tags /\ n + 0 <= (n + 1) + 0 /\ n + 1 \in Nat BY DEF Tags
  <2>2. Moves("text", Tag, n, 0, n + 1, 0) /\ Path(console, Tag, m, b, n, 0)
    BY <1>7, TagMoves DEF Asks
  <2> DEFINE l == n + 1
  <2> HIDE DEF l
  <2>3. Path(Append(console, "text"), Tag, m, b, l, 0)
    BY <1>1, <2>1, <2>2, PathAppend DEF l
  <2>4. QED BY <1>7, <2>1, <2>3 DEF Asks, l
<1>8. QED BY <1>4, <1>5, <1>6, <1>7

(* Every step of run() says what it does about prompts. *)
LEMMA RunTellsPrompts ==
  ASSUME GuestInv, Guest \/ ReadFails
  PROVE  Silent \/ Starts \/ Ends \/ Asks
<1> DEFINE Reading == {"common_read", "dev_read"}
<1>1. GuestInv' BY InvKept DEF Next
<1>2. console \in Seq(Tags) /\ taken \in Nat /\ gpc \in Points BY DEF GuestInv, TypeOK
<1>3. /\ Open \in 0..1 /\ (Running => (Open = 1 <=> gpc \in Reading))
      /\ Open' \in 0..1 /\ (Running' => (Open' = 1 <=> gpc' \in Reading))
      /\ UNCHANGED deferred => Open' = Open
  BY <1>1 DEF GuestInv, StackInv, Open, Left
<1>4. deferred' = PopAction(deferred, "prompt_end") => Open' = 0
  <2>1. SUFFICES ASSUME deferred' = PopAction(deferred, "prompt_end") PROVE Open' = 0 OBVIOUS
  <2>2. Left' = Left \ {"prompt_end"} BY <2>1, LeftActions, StackPop DEF Left
  <2>3. QED BY <2>2 DEF Open
<1>5. /\ \A t : console \o <<t>> = Append(console, t)
      /\ \A t, u : console \o <<t, u>> = Append(Append(console, t), u)
      /\ console \o << >> = console
  BY <1>2
<1>6. {"on", "off", "label", "ro", "exp1", "exp2", "READY", "exit"} \subseteq Other
  BY DEF Other, Tags
<1> HIDE DEF Reading
<1>10. CASE SetUp BY <1>3, <1>10 DEF SetUp, Fail, Silent, Rounds
<1>11. CASE AskCommon
  BY <1>3, <1>5, <1>11 DEF AskCommon, Say, Fail, Silent, Starts, Rounds, Reading
<1>12. CASE ReadCommon
  BY <1>2, <1>3, <1>4, <1>5, <1>12 DEF ReadCommon, Say, Ends, Rounds, Reading
<1>13. CASE Decrypt
  BY <1>3, <1>5, <1>13 DEF Decrypt, Say, Fail, Silent, Starts, Rounds, Reading
<1>14. CASE ReadDevice
  BY <1>2, <1>3, <1>4, <1>5, <1>14 DEF ReadDevice, Say, Fail, Ends, Rounds, Reading
<1>15. CASE ReadFails
  BY <1>2, <1>3, <1>4, <1>5, <1>15 DEF ReadFails, Say, Fail, Ends, Silent, Reading
<1>16. CASE ActivateVolumes
  BY <1>3, <1>5, <1>6, <1>16 DEF ActivateVolumes, Say, Fail, Silent, Rounds
<1>17. CASE ImportPools
  <2>1. gpc = "import" /\ gpc' \in {"before", "unwind"} /\ UNCHANGED <<deferred, taken>>
    BY <1>17 DEF ImportPools, Fail
  <2>2. console' \in {console, console \o <<"on", "off">>, console \o << >>}
    BY <1>17 DEF ImportPools, Say
  <2>3. console' = console \/ console' = Append(Append(console, "on"), "off") BY <1>5, <2>2
  <2>4. QED BY <1>3, <1>6, <2>1, <2>3 DEF Silent, Rounds
<1>18. CASE BeforeMount
  BY <1>3, <1>5, <1>6, <1>18 DEF BeforeMount, RunHook, Say, Fail, Silent, Rounds
<1>19. CASE StartMount
  BY <1>3, <1>5, <1>6, <1>19 DEF StartMount, Say, Silent, Rounds, Reading
<1>20. CASE MountDataset
  BY <1>2, <1>3, <1>5, <1>20 DEF MountDataset, Say, Fail, Silent, Asks, Rounds, Reading
<1>21. CASE ReadDataset
  BY <1>2, <1>3, <1>21 DEF ReadDataset, Fail, Silent, Rounds
<1>22. CASE FinishMount
  BY <1>3, <1>5, <1>6, <1>22 DEF FinishMount, Say, Fail, Silent, Rounds, Reading
<1>23. CASE AfterMount
  BY <1>3, <1>5, <1>6, <1>23 DEF AfterMount, RunHook, Say, Fail, Silent, Rounds
<1>24. CASE RegisterBeforeUnmount
  BY <1>3, <1>24 DEF RegisterBeforeUnmount, Silent, Rounds, Reading
<1>25. CASE ReadOptions
  BY <1>3, <1>5, <1>6, <1>25 DEF ReadOptions, Say, Fail, Silent, Rounds
<1>26. CASE BuildExports
  <2>1. gpc = "exports" /\ gpc' \in {"entry", "unwind"} /\ UNCHANGED <<deferred, taken>>
    BY <1>26 DEF BuildExports, Fail
  <2>2. console' \in {console, console \o <<"exp1", "exp2">>, console \o <<"exp1">>}
    BY <1>26 DEF BuildExports, Say
  <2>3. \/ console' = console \/ console' = Append(console, "exp1")
        \/ console' = Append(Append(console, "exp1"), "exp2")
    BY <1>5, <2>2
  <2>4. QED BY <1>3, <1>6, <2>1, <2>3 DEF Silent, Rounds
<1>27. CASE StartEntrypoint BY <1>3, <1>27 DEF StartEntrypoint, Silent, Rounds
<1>28. CASE NfsReady BY <1>3, <1>5, <1>6, <1>28 DEF NfsReady, Say, Silent, Rounds
<1>29. CASE WaitForQuitCmd BY <1>3, <1>29 DEF WaitForQuitCmd, Silent, Rounds
<1>30. CASE Unwind
  <2>1. gpc' = "unwind" /\ deferred # << >> /\ deferred' = Front(deferred) BY <1>30 DEF Unwind
  <2>2. Left' = Left \ {Last(deferred)} /\ Last(deferred) \in Left
    BY <2>1, LeftActions, StackDrop DEF Left
  <2>3. CASE Last(deferred) = "prompt_end"
    <3>1. Open = 1 /\ Open' = 0 BY <2>2, <2>3 DEF Open
    <3>2. QED BY <1>5, <1>30, <2>1, <2>3, <3>1 DEF Unwind, Say, Ends
  <2>4. CASE Last(deferred) # "prompt_end"
    <3>1. Open' = Open BY <2>2, <2>4 DEF Open
    <3>2. QED BY <1>5, <1>6, <1>30, <2>1, <2>4, <3>1 DEF Unwind, Say, Silent
  <2>5. QED BY <2>3, <2>4
<1>31. CASE MainReturns BY <1>3, <1>5, <1>6, <1>31 DEF MainReturns, Say, Silent
<1>32. QED
  BY <1>10, <1>11, <1>12, <1>13, <1>14, <1>15, <1>16, <1>17, <1>18, <1>19, <1>20, <1>21, <1>22,
     <1>23, <1>24, <1>25, <1>26, <1>27, <1>28, <1>29, <1>30, <1>31
  DEF Guest

(* run() and its clean-ups keep the lines in step with it. *)
LEMMA RunKeepsPrompts == ASSUME GuestInv, PromptInv, Guest \/ ReadFails PROVE PromptInv'
<1>1. UNCHANGED <<eof, prompts, asked, hpc>> BY DEF Guest, ReadFails
<1>2. SUFFICES ASSUME ~(eof /\ prompts = << >>)
               PROVE  \E k, m, n \in Nat, b \in 0..1 :
                        /\ asked <= k + Awaiting
                        /\ Path(prompts, Msg, k, Awaiting, m, b)
                        /\ Path(console', Tag, m, b, n, Open')
                        /\ Running' => n = Rounds'
  BY <1>1 DEF PromptInv, Awaiting
<1>3. PICK k, m, n \in Nat, b \in 0..1 :
        /\ asked <= k + Awaiting
        /\ Path(prompts, Msg, k, Awaiting, m, b)
        /\ Path(console, Tag, m, b, n, Open)
        /\ Running => n = Rounds
  BY <1>2 DEF PromptInv
<1>4. PICK l \in Nat : Path(console', Tag, m, b, l, Open') /\ (Running' => l = Rounds')
  BY <1>3, RunTellsPrompts, SaidOfPrompts
<1>5. QED BY <1>3, <1>4

(* PtyReader passes the prompt messages on in their order. *)
LEMMA ReaderKeepsPrompts == ASSUME GuestInv, PromptInv, ReadLine PROVE PromptInv'
<1> DEFINE tag == Head(console)
<1>1. /\ console # << >> /\ ~eof /\ console' = Tail(console)
      /\ UNCHANGED <<eof, hpc, gpc, taken, deferred>>
      /\ asked' = (IF tag = "text" /\ log THEN asked + 1 ELSE asked)
      /\ tag = "start" => prompts' = Append(prompts, TRUE)
      /\ tag = "end" => prompts' = Append(prompts, FALSE)
      /\ tag \notin {"start", "end"} => prompts' = prompts
  BY DEF ReadLine, guestVars
<1>2. Open' = Open /\ Awaiting' = Awaiting /\ Rounds' = Rounds
  BY <1>1 DEF Open, Left, Awaiting, Rounds
<1>3. /\ console \in Seq(Tags) /\ prompts \in Seq(BOOLEAN) /\ asked \in Nat /\ tag \in Tags
      /\ Awaiting \in 0..1
  BY <1>1 DEF GuestInv, TypeOK, Awaiting
<1>4. PICK k, m, n \in Nat, b \in 0..1 :
        /\ asked <= k + Awaiting
        /\ Path(prompts, Msg, k, Awaiting, m, b)
        /\ Path(console, Tag, m, b, n, Open)
        /\ Running => n = Rounds
  BY <1>1 DEF PromptInv
<1>5. PICK l \in Nat, c \in 0..1 :
        Moves(tag, Tag, m, b, l, c) /\ Path(console', Tag, l, c, n, Open)
  BY <1>1, <1>3, <1>4, PathTail
<1> HIDE DEF tag
<1>6. SUFFICES \E j \in Nat :
                 asked' <= j + Awaiting /\ Path(prompts', Msg, j, Awaiting, l, c)
  BY <1>1, <1>2, <1>4, <1>5 DEF PromptInv
<1>7. CASE tag = "start"
  <2>1. b = 0 /\ l = m /\ c = 1 BY <1>5, <1>7 DEF Moves, Tag
  <2>2. Moves(TRUE, Msg, m, b, l, c) /\ m + b <= l + c BY <2>1 DEF Moves, Msg
  <2>3. Path(Append(prompts, TRUE), Msg, k, Awaiting, l, c)
    BY <1>3, <1>4, <2>2, PathAppend
  <2>4. QED BY <1>1, <1>4, <1>7, <2>3
<1>8. CASE tag = "end"
  <2>1. b = 1 /\ l = m + 1 /\ c = 0 BY <1>5, <1>8 DEF Moves, Tag
  <2>2. Moves(FALSE, Msg, m, b, l, c) /\ m + b <= l + c BY <2>1 DEF Moves, Msg
  <2>3. Path(Append(prompts, FALSE), Msg, k, Awaiting, l, c)
    BY <1>3, <1>4, <2>2, PathAppend
  <2>4. QED BY <1>1, <1>4, <1>8, <2>3
<1>9. CASE tag = "text"
  <2>1. b = 0 /\ l = m + 1 /\ c = 0 BY <1>5, <1>9 DEF Moves, Tag
  <2>2. Path(prompts, Msg, k + 1, Awaiting, l, c) BY <1>3, <1>4, <2>1, PathShift
  <2>3. asked' <= (k + 1) + Awaiting BY <1>1, <1>3, <1>4
  <2>4. QED BY <1>1, <1>4, <1>9, <2>2, <2>3
<1>10. CASE tag \notin {"start", "end", "text"}
  <2>1. l = m /\ c = b BY <1>5, <1>10 DEF Moves, Tag
  <2>2. QED BY <1>1, <1>4, <1>10, <2>1
<1>11. QED BY <1>7, <1>8, <1>9, <1>10

(* The host takes the messages for what they are. *)
LEMMA HostKeepsPrompts == ASSUME GuestInv, PromptInv, Host PROVE PromptInv'
<1>1. UNCHANGED <<eof, console, gpc, taken, deferred>>
  BY DEF Host, AwaitPrompt, AwaitPromptEnd, AwaitNfs, guestVars
<1>2. Open' = Open /\ Rounds' = Rounds BY <1>1 DEF Open, Left, Rounds
<1>3. /\ prompts \in Seq(BOOLEAN) /\ asked \in Nat /\ hpc \in {"start", "end", "nfs", "ready", "failed"}
  BY DEF GuestInv, TypeOK
<1>4. CASE UNCHANGED <<prompts, asked>> /\ hpc # "end" /\ hpc' # "end"
  BY <1>1, <1>2, <1>4 DEF PromptInv, Awaiting
<1>5. CASE prompts = << >> /\ eof /\ UNCHANGED prompts BY <1>1, <1>5 DEF PromptInv
<1>6. CASE /\ prompts # << >> /\ prompts' = Tail(prompts)
           /\ \/ hpc = "start" /\ hpc' = "end" /\ asked' = asked + 1
              \/ hpc = "end" /\ hpc' = "start" /\ asked' = asked
  <2>1. PICK k, m, n \in Nat, b \in 0..1 :
          /\ asked <= k + Awaiting
          /\ Path(prompts, Msg, k, Awaiting, m, b)
          /\ Path(console, Tag, m, b, n, Open)
          /\ Running => n = Rounds
    BY <1>6 DEF PromptInv
  <2>2. PICK l \in Nat, c \in 0..1 :
          Moves(Head(prompts), Msg, k, Awaiting, l, c) /\ Path(Tail(prompts), Msg, l, c, m, b)
    BY <1>3, <1>6, <2>1, PathTail
  <2>3. \/ Awaiting = 0 /\ l = k /\ c = 1
        \/ Awaiting = 1 /\ l = k + 1 /\ c = 0
    <3>1. prompts \in Seq(BOOLEAN) /\ prompts # << >> BY <1>3, <1>6
    <3>2. Moves(Head(prompts), Msg, k, Awaiting, l, c) BY <2>2
    <3>3. \/ Head(prompts) \in {TRUE} /\ Awaiting = 0 /\ l = k /\ c = 1
          \/ Head(prompts) \in {FALSE} /\ Awaiting = 1 /\ l = k + 1 /\ c = 0
      BY <3>1, <3>2, MsgMoves
    <3>4. QED BY <3>3, Zenon
  <2>4. asked' <= l + c /\ c = Awaiting'
    <3>1. CASE hpc = "start"
      <4>1. Awaiting = 0 /\ Awaiting' = 1 BY <1>6, <3>1 DEF Awaiting
      <4>2. l = k /\ c = 1 BY <2>3, <4>1
      <4>3. QED BY <1>3, <1>6, <2>1, <3>1, <4>1, <4>2
    <3>2. CASE hpc = "end"
      <4>1. Awaiting = 1 /\ Awaiting' = 0 BY <1>6, <3>2 DEF Awaiting
      <4>2. l = k + 1 /\ c = 0 BY <2>3, <4>1
      <4>3. QED BY <1>3, <1>6, <2>1, <3>2, <4>1, <4>2
    <3>3. QED BY <1>6, <3>1, <3>2
  <2>5. QED BY <1>1, <1>2, <1>6, <2>1, <2>2, <2>4 DEF PromptInv
<1>7. CASE AwaitPrompt BY <1>4, <1>5, <1>6, <1>7 DEF AwaitPrompt
<1>8. CASE AwaitPromptEnd BY <1>5, <1>6, <1>8 DEF AwaitPromptEnd
<1>9. CASE AwaitNfs
  <2>1. status \in {"none", "ready", "failed"} BY DEF GuestInv, TypeOK
  <2>2. QED BY <1>4, <1>9, <2>1 DEF AwaitNfs
<1>10. QED BY <1>7, <1>8, <1>9 DEF Host

(* Nobody else touches the prompts; a killed VM prints no more. *)
LEMMA PromptKeptByAll == ASSUME GuestInv, PromptInv, [Next]_vars PROVE PromptInv'
<1>1. CASE VmKilled
  BY <1>1 DEF VmKilled, PromptInv, Open, Left, Awaiting, Rounds
<1>2. CASE ReadEof \/ ReadError
  BY <1>2 DEF ReadEof, ReadError, EndOfReader, guestVars, PromptInv, Open, Left, Awaiting, Rounds
<1>3. CASE SubscribeToVmEvents \/ SendQuit \/ Type \/ UNCHANGED vars
  <2>1. UNCHANGED <<eof, prompts, asked, hpc, console, gpc, taken, deferred>>
    BY <1>3 DEF SubscribeToVmEvents, SendQuit, Type, vars, guestVars
  <2>2. QED BY <2>1 DEF PromptInv, Open, Left, Awaiting, Rounds
<1>4. QED
  BY <1>1, <1>2, <1>3, RunKeepsPrompts, ReaderKeepsPrompts, HostKeepsPrompts DEF Next

(* The inductive invariant of the prompts, for any number of devices. *)
THEOREM PromptInvariant == Spec => []PromptInv
<1>1. ASSUME Init PROVE PromptInv
  <2>1. /\ prompts = << >> /\ asked = 0 /\ taken = 0 /\ gpc = "start" /\ hpc = "start"
        /\ console = Append(<< >>, "vmproxy") /\ deferred = <<"report">>
    BY <1>1 DEF Init
  <2>2. Open = 0 /\ Awaiting = 0 /\ Rounds = 0 BY <2>1 DEF Open, Left, Range, Awaiting, Rounds
  <2>3. Path(<< >>, Tag, 0, 0, 0, 0) /\ Path(<< >>, Msg, 0, 0, 0, 0) BY PathEmpty
  <2>4. "vmproxy" \in Other /\ "vmproxy" \in Tags /\ << >> \in Seq(Tags) BY DEF Other, Tags
  <2>5. Moves("vmproxy", Tag, 0, 0, 0, 0) BY <2>4, TagMoves
  <2>6. Path(console, Tag, 0, 0, 0, 0)
    <3>1. 0 + 0 <= 0 + 0 /\ 0 \in Nat /\ 0 \in 0..1 OBVIOUS
    <3>2. Path(Append(<< >>, "vmproxy"), Tag, 0, 0, 0, 0)
      BY <2>3, <2>4, <2>5, <3>1, PathAppend
    <3>3. QED BY <2>1, <3>2
  <2>7. QED BY <2>1, <2>2, <2>3, <2>6 DEF PromptInv
<1>2. GuestInv /\ PromptInv /\ [Next]_vars => PromptInv' BY PromptKeptByAll
<1>3. QED BY <1>1, <1>2, GuestInvariant, PTL DEF Spec

(* The host's loop over the callbacks never takes the end of one prompt    *)
(* for the start of the next, nor the other way round.                     *)
THEOREM PromptsStayInStep == Spec => []PromptsInStep
<1>1. ASSUME GuestInv, PromptInv PROVE PromptsInStep
  <2>1. SUFFICES ASSUME prompts # << >>, hpc \in {"start", "end"}
                 PROVE  prompts[1] = (hpc = "start")
    BY DEF PromptsInStep
  <2>2. PICK k, m \in Nat, b \in 0..1 : Path(prompts, Msg, k, Awaiting, m, b)
    BY <1>1, <2>1 DEF PromptInv
  <2>3. prompts \in Seq(BOOLEAN) /\ Head(prompts) = prompts[1]
    BY <1>1, <2>1 DEF GuestInv, TypeOK
  <2>4. PICK l \in Nat, c \in 0..1 : Moves(Head(prompts), Msg, k, Awaiting, l, c)
    BY <2>1, <2>2, <2>3, PathTail
  <2>5. \/ Head(prompts) \in {TRUE} /\ Awaiting = 0
        \/ Head(prompts) \in {FALSE} /\ Awaiting = 1
    BY <2>1, <2>3, <2>4, MsgMoves
  <2>6. Awaiting = (IF hpc = "start" THEN 0 ELSE 1) BY <2>1 DEF Awaiting
  <2>7. CASE hpc = "start"
    <3>1. Awaiting # 1 BY <2>6, <2>7
    <3>2. Head(prompts) \in {TRUE} BY <2>5, <3>1, Zenon
    <3>3. prompts[1] \in {TRUE} BY <2>3, <3>2, Zenon
    <3>4. QED BY <2>7, <3>3
  <2>8. CASE hpc = "end"
    <3>1. Awaiting # 0 /\ hpc # "start" BY <2>6, <2>8
    <3>2. Head(prompts) \in {FALSE} BY <2>5, <3>1, Zenon
    <3>3. prompts[1] \in {FALSE} BY <2>3, <3>2, Zenon
    <3>4. QED BY <3>1, <3>3
  <2>9. QED BY <2>1, <2>7, <2>8
<1>2. QED BY <1>1, GuestInvariant, PromptInvariant, PTL

-----------------------------------------------------------------------------
(* The passphrases                                                          *)

(* Sums of counters. *)
LEMMA SumNatural == \A x, y \in Nat : x + y \in Nat
OBVIOUS

\* run() has been given no more passphrases than it has come to prompts
GivenInv == Running => typed <= Rounds + Open

(* While PtyReader reads, the user is asked for what run() has come to. *)
LEMMA AskedInTime ==
  ASSUME GuestInv, PromptInv, Running, ~eof PROVE asked <= Rounds + Open
<1>1. PICK k, m, n \in Nat, b \in 0..1 :
        /\ asked <= k + Awaiting
        /\ Path(prompts, Msg, k, Awaiting, m, b)
        /\ Path(console, Tag, m, b, n, Open)
        /\ n = Rounds
  BY DEF PromptInv
<1>2. /\ console \in Seq(Tags) /\ prompts \in Seq(BOOLEAN) /\ asked \in Nat /\ taken \in Nat
      /\ Awaiting \in 0..1 /\ Open \in 0..1
  BY DEF GuestInv, TypeOK, Awaiting, Open
<1>3. k + Awaiting <= m + b BY <1>1, <1>2, PathGrows
<1>4. m + b <= n + Open BY <1>1, <1>2, PathGrows
<1>5. QED BY <1>1, <1>2, <1>3, <1>4

(* run() never forgets a prompt it has come to; the user types while       *)
(* PtyReader reads.                                                         *)
LEMMA GivenKept == ASSUME GuestInv, PromptInv, GivenInv, [Next]_vars PROVE GivenInv'
<1>1. /\ typed \in Nat /\ asked \in Nat /\ taken \in Nat /\ Open \in 0..1 /\ Rounds \in Nat
  BY DEF GuestInv, TypeOK, Open, Rounds
<1>2. CASE Guest \/ ReadFails
  <2>1. UNCHANGED typed BY <1>2 DEF Guest, ReadFails
  <2>2. Running' => Running /\ Rounds + Open <= Rounds' + Open'
    BY <1>1, <1>2, RunTellsPrompts DEF Silent, Starts, Ends, Asks
  <2>3. Rounds' + Open' \in Nat
    <3>1. GuestInv' BY InvKept
    <3>2. taken' \in Nat BY <3>1 DEF GuestInv, TypeOK
    <3>3. Rounds' \in Nat
      <4>1. PICK x \in Nat : Rounds' = taken' + x BY DEF Rounds
      <4>2. QED BY <3>2, <4>1, SumNatural
    <3>4. Open' \in Nat BY DEF Open
    <3>5. QED BY <3>3, <3>4, SumNatural
  <2>4. SUFFICES ASSUME Running' PROVE typed' <= Rounds' + Open' BY DEF GivenInv
  <2>5. typed <= Rounds + Open BY <2>2, <2>4 DEF GivenInv
  <2>6. Rounds + Open <= Rounds' + Open' BY <2>2, <2>4
  <2> HIDE DEF Running
  <2>7. \A x, y \in Nat : typed <= x /\ x <= y => typed <= y BY <1>1
  <2>8. Rounds + Open \in Nat BY <1>1
  <2>9. QED BY <2>1, <2>3, <2>5, <2>6, <2>7, <2>8
<1>3. CASE Type
  <2>1. /\ typed < asked /\ ~eof /\ typed' = typed + 1
        /\ UNCHANGED <<gpc, taken, deferred>>
    BY <1>3 DEF Type, guestVars
  <2>2. Open' = Open /\ Rounds' = Rounds /\ (Running' <=> Running) BY <2>1 DEF Open, Left, Rounds
  <2>3. QED BY <1>1, <2>1, <2>2, AskedInTime DEF GivenInv
<1>4. CASE VmKilled BY <1>4 DEF VmKilled, GivenInv
<1>5. CASE ReadLine \/ SubscribeToVmEvents \/ ReadEof \/ ReadError \/ Host \/ SendQuit \/ UNCHANGED vars
  <2>1. UNCHANGED <<gpc, taken, deferred, typed>>
    BY <1>5 DEF ReadLine, SubscribeToVmEvents, ReadEof, ReadError, EndOfReader, Host, AwaitPrompt,
                AwaitPromptEnd, AwaitNfs, SendQuit, vars, guestVars
  <2>2. Open' = Open /\ Rounds' = Rounds /\ (Running' <=> Running) BY <2>1 DEF Open, Left, Rounds
  <2>3. QED BY <2>1, <2>2 DEF GivenInv
<1>6. QED BY <1>2, <1>3, <1>4, <1>5 DEF Next

(* While run() is at work it is given no passphrase it does not wait for:  *)
(* each is read for the device it was asked for, also when PtyReader has   *)
(* ended at an error and the host asks for the others all the same.        *)
THEOREM PassphraseMeetsPrompt == Spec => []PassphraseForItsPrompt
<1>1. Init => GivenInv
  <2>1. SUFFICES ASSUME Init PROVE typed <= Rounds + Open BY DEF GivenInv
  <2>2. typed = 0 /\ taken = 0 /\ gpc = "start" BY <2>1 DEF Init
  <2>3. Rounds = 0 /\ Open \in 0..1 BY <2>2 DEF Rounds, Open
  <2>4. QED BY <2>2, <2>3
<1>2. GuestInv /\ PromptInv /\ GivenInv /\ [Next]_vars => GivenInv' BY GivenKept
<1>3. ASSUME GuestInv, ReportInv, GivenInv PROVE PassphraseForItsPrompt
  <2>1. SUFFICES ASSUME gpc # "off", result = "none"
                 PROVE  typed <= taken + (IF AtPrompt THEN 1 ELSE 0)
    BY DEF PassphraseForItsPrompt
  <2>2. Running BY <1>3, <2>1 DEF ReportInv
  <2>3. Open = IF gpc \in {"common_read", "dev_read"} THEN 1 ELSE 0
    BY <1>3, <2>2 DEF GuestInv, StackInv, Open
  <2>4. typed \in Nat /\ taken \in Nat BY <1>3 DEF GuestInv, TypeOK
  <2>5. typed <= Rounds + Open BY <1>3, <2>2 DEF GivenInv
  <2>6. QED BY <2>3, <2>4, <2>5 DEF Rounds, AtPrompt
<1>4. QED BY <1>1, <1>2, <1>3, GuestInvariant, ReportInvariant, PromptInvariant, PTL DEF Spec

=============================================================================
