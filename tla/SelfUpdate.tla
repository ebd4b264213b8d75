----------------------------- MODULE SelfUpdate -----------------------------
(***************************************************************************)
(* `prukka update` (internal/update, cmd/prukka/update.go): the running    *)
(* image is replaced by a downloaded one.  Posix renames over it; Windows  *)
(* moves the running image aside, activates the new one and retires the    *)
(* old, rolling back when a step fails.  Then the daemon is relaunched.    *)
(* Images are release numbers, 0 meaning no file.                          *)
(***************************************************************************)
EXTENDS Naturals

CONSTANTS Platforms,   \* subset of {"posix", "windows"}
          Latest,      \* bound: releases published in one behaviour
          UpdateFaults \* bound: failing file operations and kills, per plan

VARIABLES platform,
          image,     \* the release at dest, dest.new and dest.old
          step,      \* how far the update is
          target,    \* the release being installed
          before,    \* the release at dest when the update began
          verdict,   \* "ok", "uptodate", "failed", "killed"; "running" meanwhile
          daemon,    \* the release the running daemon executes, 0 when stopped
          note,      \* what the command said of the daemon
          slack      \* faults left
vars == <<platform, image, step, target, before, verdict, daemon, note, slack>>

Init ==
    /\ platform \in Platforms
    /\ image = [dest |-> 1, new |-> 0, old |-> 0]
    /\ step = "idle" /\ target = 1 /\ before = 1 /\ verdict = "running"
    /\ daemon \in {0, 1} /\ note = "unsaid" /\ slack \in UpdateFaults

Fails == slack.fail > 0 /\ slack' = [slack EXCEPT !.fail = @ - 1]
Unworn == UNCHANGED slack
Env == <<platform, target, before, daemon, note>>
\* replaceBinary's deferred removal of the stage on every failing path; the
\* process then ends, so a failed removal leaves the stage.
Abort == /\ step' = "idle" /\ verdict' = "failed"

\* Latest, then Apply: nothing to do when the release is the running version.
Start ==
    /\ step = "idle" /\ verdict = "running" /\ image.dest # 0
    /\ \E r \in image.dest .. Latest :
         /\ target' = r /\ before' = image.dest
         /\ IF r = image.dest THEN verdict' = "uptodate" /\ UNCHANGED step
                              ELSE step' = "verify" /\ UNCHANGED verdict
    /\ UNCHANGED <<platform, image, daemon, note, slack>>

\* The archive and checksums.txt are downloaded, under a size and a time limit,
\* and the archive's entry has to be there and to agree.
Verify ==
    /\ step = "verify"
    /\ \/ step' = "extract" /\ UNCHANGED verdict
       \/ Abort
    /\ UNCHANGED <<image, slack>> /\ UNCHANGED Env
\* One regular, complete, bounded member with this platform's executable magic;
\* all of it is held in memory, nothing on disk has changed yet.
Extract ==
    /\ step = "extract"
    /\ \/ step' = "stage" /\ UNCHANGED verdict
       \/ Abort
    /\ UNCHANGED <<image, slack>> /\ UNCHANGED Env

Stage ==
    /\ step = "stage"
    /\ \/ /\ image' = [image EXCEPT !.new = target] /\ Unworn /\ UNCHANGED verdict
          /\ step' = IF platform = "posix" THEN "activate" ELSE "clearold"
       \/ Fails /\ Abort /\ image' = [image EXCEPT !.new = 0]
    /\ UNCHANGED Env

Activate ==
    /\ step = "activate"
    /\ \/ /\ image' = [image EXCEPT !.dest = image.new, !.new = 0]
          /\ step' = "restart" /\ verdict' = "ok" /\ Unworn
       \/ Fails /\ Abort /\ image' = [image EXCEPT !.new = 0]
    /\ UNCHANGED Env

\* activateWindows, one file operation at a time.
ClearOld ==
    /\ step = "clearold"
    /\ \/ image' = [image EXCEPT !.old = 0] /\ step' = "aside" /\ Unworn /\ UNCHANGED verdict
       \/ image.old # 0 /\ Fails /\ Abort /\ image' = [image EXCEPT !.new = 0]
    /\ UNCHANGED Env

Aside ==
    /\ step = "aside"
    /\ \/ /\ image' = [image EXCEPT !.old = image.dest, !.dest = 0]
          /\ step' = "swapin" /\ Unworn /\ UNCHANGED verdict
       \/ Fails /\ Abort /\ image' = [image EXCEPT !.new = 0]
    /\ UNCHANGED Env

SwapIn ==
    /\ step = "swapin"
    /\ \/ /\ image' = [image EXCEPT !.dest = image.new, !.new = 0]
          /\ step' = "retire"
       \/ Fails /\ step' = "rollback" /\ UNCHANGED image
    /\ (step' = "retire" => Unworn) /\ UNCHANGED verdict /\ UNCHANGED Env

RollBack ==
    /\ step = "rollback" /\ Abort
    /\ \/ image' = [dest |-> image.old, new |-> 0, old |-> 0] /\ Unworn
       \/ Fails /\ image' = [image EXCEPT !.new = 0]
    /\ UNCHANGED Env

\* removeReplacedImage; when it fails the new image is removed and the old one
\* renamed back, each of which may fail too.
RetireOld ==
    /\ step = "retire"
    /\ \/ image' = [image EXCEPT !.old = 0] /\ step' = "restart" /\ verdict' = "ok" /\ Unworn
       \/ Fails /\ step' = "dropnew" /\ UNCHANGED <<image, verdict>>
    /\ UNCHANGED Env

DropNew ==
    /\ step = "dropnew" /\ step' = "putback" /\ UNCHANGED verdict
    /\ \/ image' = [image EXCEPT !.dest = 0] /\ Unworn
       \/ Fails /\ UNCHANGED image
    /\ UNCHANGED Env

PutBack ==
    /\ step = "putback" /\ Abort
    /\ \/ image' = [image EXCEPT !.dest = image.old, !.old = 0] /\ Unworn
       \/ Fails /\ UNCHANGED image
    /\ UNCHANGED Env

\* restartedNote: an unknown state must never read as success.
Restart ==
    /\ step = "restart" /\ step' = "idle"
    /\ \/ note' = "unknown" /\ UNCHANGED daemon
       \/ daemon = 0 /\ note' = "none" /\ UNCHANGED daemon
       \/ daemon # 0 /\ daemon' = image.dest /\ note' = "restarted"
       \/ daemon # 0 /\ note' = "oldstillruns" /\ daemon' \in {0, daemon}
    /\ UNCHANGED <<platform, image, target, before, verdict, slack>>

\* The next `prukka update`: the command runs from dest.
Again ==
    /\ step = "idle" /\ verdict # "running" /\ image.dest # 0
    /\ verdict' = "running" /\ note' = "unsaid"
    /\ UNCHANGED <<platform, image, step, target, before, daemon, slack>>

Killed ==
    /\ step # "idle" /\ slack.kill > 0
    /\ slack' = [slack EXCEPT !.kill = @ - 1]
    /\ step' = "idle" /\ verdict' = "killed"
    /\ UNCHANGED image /\ UNCHANGED Env

Next ==
    \/ Start \/ Verify \/ Extract \/ Stage \/ Activate \/ ClearOld \/ Aside \/ SwapIn
    \/ RollBack \/ RetireOld \/ DropNew \/ PutBack \/ Restart \/ Again \/ Killed

Spec == Init /\ [][Next]_vars
-----------------------------------------------------------------------------
TypeOK ==
    /\ image \in [dest : 0 .. Latest, new : 0 .. Latest, old : 0 .. Latest]
    /\ verdict \in {"running", "ok", "uptodate", "failed", "killed"}
    /\ daemon \in 0 .. Latest /\ note \in {"unsaid", "unknown", "none", "restarted", "oldstillruns"}

\* A failed step leaves the previous release runnable and a successful update
\* the new one: no single failing file operation strands the machine without
\* the program, and a kill never does where the rename is atomic.
AlwaysRunnable ==
    /\ platform = "posix" => image.dest # 0
    /\ image.dest # 0 \/ image.old # 0
    /\ step = "idle" /\ verdict \in {"ok", "uptodate"} => image.dest = target
    /\ verdict = "failed" => image.dest = before
=============================================================================
