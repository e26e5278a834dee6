----------------------------- MODULE KwinMoves -----------------------------
(***************************************************************************)
(* A move through the KWin companion: the client queues a request and asks *)
(* for its result for a second (src/src/kwin_integration/client.rs); the   *)
(* script undoes the window's state, sets its frame and watches it for     *)
(* 750 ms (src/kwin-script/contents/code/main.js); the companion passes on *)
(* what the script posts.  The request and its queue are in KwinHotkeys:   *)
(* here there is one request, and it may find the script late or gone.     *)
(***************************************************************************)
EXTENDS WindowDesk

\* `MoveWindow`: its reply may be lost after the request is queued.
KSend ==
  /\ m.step = "list"
  /\ \/ End(Failed) /\ Disturb /\ UNCHANGED asked
     \/ /\ asked' = <<[is |-> "move", x |-> m.target.x, w |-> m.target.w]>>
        /\ \/ To("run") /\ UNCHANGED marks
           \/ End(Failed) /\ marks' = marks \cup {"disturbed", "unlooked"}
  /\ UNCHANGED <<adapter, win, meddled>>

\* `GetRequestResult`
KAnswer ==
  /\ m.step = "run" /\ m.told # NoAnswer
  /\ End(m.told)
  /\ UNCHANGED <<adapter, win, asked, marks, meddled>>

\* The second is over, or the companion does not answer or has lost the script.  Nobody
\* looks at the window, which may have moved or may be about to.
KDeadline ==
  /\ m.step = "run" /\ m.told = NoAnswer
  /\ End(Failed) /\ marks' = marks \cup {"disturbed", "unlooked"}
  /\ UNCHANGED <<adapter, win, asked, meddled>>

\* `finish`: the focused window is published before the request is completed.
Focused(f)  == [is |-> "focus", frame |-> f, answer |-> NoAnswer]
Complete(a) == [is |-> "complete", frame |-> Nowhere, answer |-> a]
Posts(w, a) == <<Focused([x |-> w.x, w |-> w.w]), Complete(a)>>

Finishes(w, a) == m' = [m EXCEPT !.script = "done", !.post = Posts(w, a)]
Refuses(a)     == m' = [m EXCEPT !.script = "done", !.post = <<Complete(a)>>]

\* `observe(true)`
Final(w, before, failed) ==
  LET f == [x |-> w.x, w |-> w.w] IN
    IF ~w.alive THEN Gone
    ELSE IF f = m.target /\ ~failed THEN Ok
    ELSE IF f # before THEN Partial(f) ELSE Failed

\* Out of its tile and unmaximized: the window goes where it was before.
Untiled(w) == IF w.mode \in Held
              THEN [w EXCEPT !.mode = "free", !.x = Normal.x, !.w = Normal.w] ELSE w

\* `moveWindow`: a call may throw between two changes.
KTake ==
  /\ asked # <<>> /\ asked' = <<>>
  /\ \/ ~win.alive /\ Refuses(Gone) /\ UNCHANGED <<win, marks>>
     \/ /\ win.alive /\ (win.mode = "fullscreen" \/ win.fixed)
        /\ Refuses(Failed) /\ UNCHANGED <<win, marks>>
     \/ /\ win.alive /\ win.mode # "fullscreen" /\ ~win.fixed
        /\ \/ /\ win' = Untiled(win) /\ Request
              /\ m' = [m EXCEPT !.script = "watching", !.before = Frame, !.todo = <<"commit">>]
           \/ /\ win' \in {win, Untiled(win)}
              /\ marks' = marks \cup {"requested", "disturbed"}
              /\ m' = [m EXCEPT !.script = "done", !.before = Frame,
                                !.post = Posts(win', Final(win', Frame, TRUE))]
  /\ UNCHANGED <<adapter, meddled>>

\* The program takes the frame when it draws again; it may round it as it
\* likes, and it may do so when nobody watches any more.
KCommit ==
  /\ m.script = "watching" /\ m.todo # <<>> /\ win.alive
  /\ m' = [m EXCEPT !.todo = <<>>]
  /\ \/ win' = (IF win.mode = "free" THEN At(m.target) ELSE win) /\ UNCHANGED marks
     \/ /\ \E f \in Frames : win' = At(f)
        /\ Disturb
  /\ UNCHANGED <<adapter, asked, meddled>>

KCommitLate ==
  /\ m.script = "done" /\ m.todo # <<>> /\ win.alive
  /\ m' = [m EXCEPT !.todo = <<>>]
  /\ win' = At(m.target) /\ marks' = marks \cup {"overtaken"}
  /\ UNCHANGED <<adapter, asked, meddled>>

\* The frame changed, or the timer went off.
KObserve ==
  /\ m.script = "watching"
  /\ \/ win.alive /\ Frame = m.target /\ Finishes(win, Ok) /\ UNCHANGED marks
     \/ Finishes(win, Final(win, m.before, FALSE)) /\ Disturb
  /\ UNCHANGED <<adapter, win, asked, meddled>>

\* The companion handles what the script posted, in the order of its posting.
KHandle ==
  /\ m.post # <<>>
  /\ LET post == Head(m.post) IN
       m' = IF post.is = "focus" THEN [m EXCEPT !.post = Tail(@), !.cache = post.frame]
                                 ELSE [m EXCEPT !.post = Tail(@), !.told = post.answer]
  /\ UNCHANGED <<adapter, win, asked, marks, meddled>>

KwinClient == KSend \/ KAnswer
KwinServes == KTake \/ KCommit \/ KCommitLate \/ KObserve \/ KHandle
=============================================================================
