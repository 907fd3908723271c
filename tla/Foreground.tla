----------------------------- MODULE Foreground -----------------------------
(***************************************************************************)
(* pgroups/1-foreground.c, 2-sigttou.c and 3-pause.c: a parent puts its    *)
(* child into the foreground and waits for it to die.  Its SIGCHLD handler *)
(* takes the terminal to print, and hands it back.  In 2-sigttou.c and     *)
(* 3-pause.c the parent also prints while it is in the background.         *)
(***************************************************************************)

VARIABLES
  version,     \* "foreground", "sigttou" or "pause"
  tostop,      \* does a background write() raise SIGTTOU?
  main,        \* where the parent is,
  handler,     \* and its SIGCHLD handler, which interrupts it
  child,       \* "none", "running", "stopped", "dead", "reaped"
  report,      \* what waitpid would report
  sigchld,     \* is SIGCHLD pending?
  fg, fg_pgid, \* the foreground group, and what safe_print saw
  child_dead

vars == <<version, tostop, main, handler, child, report, sigchld, fg, fg_pgid, child_dead>>

TypeOK ==
  /\ version \in {"foreground", "sigttou", "pause"} /\ tostop \in BOOLEAN
  /\ main \in {"fork", "created", "hi", "stopped", "ttou_test", "ttou_call", "ttou_pause",
               "test", "call", "pause", "take", "end"}
  /\ handler \in {"none", "wait", "save", "own", "print", "restore", "dead"}
  /\ child \in {"none", "running", "stopped", "dead", "reaped"}
  /\ report \in {"none", "stopped", "continued", "dead"}
  /\ sigchld \in BOOLEAN /\ child_dead \in BOOLEAN
  /\ fg \in {"parent", "child"} /\ fg_pgid \in {"parent", "child"}

Init ==
  /\ version \in {"foreground", "sigttou", "pause"} /\ tostop \in BOOLEAN
  /\ main = "fork" /\ handler = "none" /\ child = "none" /\ report = "none"
  /\ sigchld = FALSE /\ fg = "parent" /\ fg_pgid = "parent" /\ child_dead = FALSE

\* tcsetpgrp fails for a group without a member, and nobody looks.
set_fg_pgid(g) == fg' = IF g = "child" /\ child = "reaped" THEN fg ELSE g
---------------------------------------------------------------------------
kernel == <<child, report, sigchld>>

\* main runs while its handler does not.
Main(from, to) ==
  /\ handler = "none" /\ main = from /\ main' = to
  /\ UNCHANGED <<version, tostop, handler, fg_pgid, child_dead>>

\* fork() and setpgid(), which both sides call.
Fork ==
  /\ Main("fork", "created") /\ child' = "running"
  /\ UNCHANGED <<report, sigchld, fg>>

GiveTerminal ==
  /\ Main("created", IF version = "foreground" THEN "test" ELSE "hi")
  /\ set_fg_pgid("child") /\ UNCHANGED kernel

\* printf: in the background SIGTTOU stops the parent, or its handler runs.
HiMom ==
  /\ Main("hi", IF ~tostop \/ fg = "parent" THEN "test"
                ELSE IF version = "pause" THEN "ttou_test" ELSE "stopped")
  /\ UNCHANGED <<kernel, fg>>

\* The user's shell brings a stopped parent back to the foreground.
Resume == Main("stopped", "hi") /\ fg' = "parent" /\ UNCHANGED kernel

\* handler_sigttou; the write() is then restarted.
TtouTest ==
  /\ Main("ttou_test", IF fg = "parent" THEN "hi" ELSE "ttou_call")
  /\ UNCHANGED <<kernel, fg>>

TtouPause == Main("ttou_call", "ttou_pause") /\ UNCHANGED <<kernel, fg>>

TestDead  == Main("test", IF child_dead THEN "take" ELSE "call") /\ UNCHANGED <<kernel, fg>>
Pause     == Main("call", "pause") /\ UNCHANGED <<kernel, fg>>

TakeTerminal == Main("take", "end") /\ set_fg_pgid("parent") /\ UNCHANGED kernel

main_step ==
  \/ Fork \/ GiveTerminal \/ HiMom \/ TtouTest \/ TtouPause \/ TestDead \/ Pause
  \/ TakeTerminal
---------------------------------------------------------------------------
\* SIGCHLD is blocked in its own handler.
EnterHandler ==
  /\ sigchld /\ handler = "none" /\ main \notin {"stopped", "end"}
  /\ sigchld' = FALSE /\ handler' = "wait"
  /\ UNCHANGED <<version, tostop, main, child, report, fg, fg_pgid, child_dead>>

Handler(from, to) ==
  /\ handler = from /\ handler' = to /\ UNCHANGED <<version, tostop, sigchld>>

WaitPid ==
  /\ report # "none" /\ Handler("wait", "save")
  /\ report' = "none"
  /\ child' = IF report = "dead" THEN "reaped" ELSE child
  /\ UNCHANGED <<main, fg, fg_pgid, child_dead>>

\* safe_print
SaveFg == Handler("save", "own") /\ fg_pgid' = fg
          /\ UNCHANGED <<main, child, report, fg, child_dead>>
OwnFg  == Handler("own", "print") /\ set_fg_pgid("parent")
          /\ UNCHANGED <<main, child, report, fg_pgid, child_dead>>

RestoreFg ==
  /\ Handler("print", IF child = "reaped" THEN "dead" ELSE "wait")
  /\ set_fg_pgid(fg_pgid)
  /\ UNCHANGED <<main, child, report, fg_pgid, child_dead>>

ChildDead ==
  /\ Handler("dead", "wait")
  /\ child_dead' = TRUE
  /\ IF version = "pause" THEN set_fg_pgid("parent") ELSE UNCHANGED fg
  /\ UNCHANGED <<main, child, report, fg_pgid>>

\* waitpid has nothing more; a pause() that was interrupted returns.
LeaveHandler ==
  /\ report = "none" /\ Handler("wait", "none")
  /\ main' = CASE main = "pause" -> "test"
               [] main = "ttou_pause" -> "ttou_test"
               [] OTHER -> main
  /\ UNCHANGED <<child, report, fg, fg_pgid, child_dead>>

handler_step ==
  EnterHandler \/ WaitPid \/ SaveFg \/ OwnFg \/ RestoreFg \/ ChildDead \/ LeaveHandler
---------------------------------------------------------------------------
\* Signals sent to the child, and its end; each raises SIGCHLD.
Change(from, to, what) ==
  /\ child \in from /\ child' = to /\ report' = what /\ sigchld' = TRUE
  /\ UNCHANGED <<version, tostop, main, handler, fg, fg_pgid, child_dead>>

Stop     == Change({"running"}, "stopped", "stopped")
Continue == Change({"stopped"}, "running", "continued")
Die      == Change({"running", "stopped"}, "dead", "dead")

LostWakeup ==
  /\ handler = "none" /\ ~sigchld /\ child = "reaped" /\ main \in {"pause", "ttou_pause"}

Next ==
  \/ main_step \/ Resume \/ handler_step \/ Stop \/ Continue \/ Die
  \/ (main = "end" \/ LostWakeup) /\ UNCHANGED vars

Spec == Init /\ [][Next]_vars
---------------------------------------------------------------------------
\* The handler prints in the foreground only; a group that is gone keeps the
\* terminal no longer than the handler that reaped it runs; and the parent has
\* the terminal when it ends.
TerminalKept ==
  /\ handler = "print" => fg = "parent"
  /\ handler = "none" /\ fg = "child" => child # "reaped"
  /\ main = "end" => fg = "parent"

\* After the child's death the parent ends, unless it waits to be resumed.  The
\* comment at 1-foreground.c:128 says that the parent "just waits for signals until
\* the child dies"; LostWakeup is where it does not hold: the SIGCHLD of the death
\* came between the test of child_dead (or of the terminal) and the pause() behind
\* it, and the parent waits on.  PromptReturns shows the same mistake in pssh.c.
ParentEnds == (child = "dead") ~> (main \in {"end", "stopped"} \/ LostWakeup)
=============================================================================
