--------------------------- MODULE PresentedProofs ---------------------------
(***************************************************************************)
(* The trust state of a frame on screen and the record on disk: what         *)
(* ViewerProofs knows of the frames and ApartProofs of the store, together.  *)
(*                                                                           *)
(* Between a click and the next frame the screen, the chrome and the store   *)
(* tell of three moments.  What keeps them compatible is that a frame with a *)
(* pin or verification badge is only ever presented, and left on screen, by  *)
(* a window that stands open with that very state.                           *)
(***************************************************************************)
EXTENDS ViewerProofs, ApartProofs

Badges == {"TofuPinned", "ExternallyVerified"}

\* The half frame drawn around a decision bears no badge, and a frame that does
\* is one of an open window in that state.
Presents(v, a, s) ==
    /\ a.top.drawn => a.top.chrome.trust_state \notin Badges
    /\ s # Blank =>
          /\ v.decision = "None" => v.pc = "open"
          /\ s.chrome.trust_state \in Badges =>
                v.pc = "open" /\ v.shown = s.chrome.trust_state

PresentInv == \A w \in Windows : Presents(win[w], app[w], screen[w])

----------------------------------------------------------------------------
LEMMA PresentInvInit == ViewInit => PresentInv
<1> SUFFICES ASSUME ViewInit PROVE PresentInv
  OBVIOUS
<1>1. \A w \in Windows : ~app[w].top.drawn /\ screen[w] = Blank
  BY BlankFacts DEF ViewInit
<1>2. QED
  BY <1>1 DEF PresentInv, Presents

\* A step of one window leaves what the others have drawn.
LEMMA OtherViewsKept ==
    ASSUME TypeOK, ViewInv, NEW w \in Windows,
           \/ Fetch(w) \/ Load(w) \/ LoadFails(w) \/ Persist(w) \/ Start(w)
           \/ DecisionFrame(w) \/ FinishFrame(w) \/ DeclineFrame(w) \/ IdleFrame(w)
           \/ OverrideFrame(w) \/ LinkFrame(w) \/ DialogFrame(w) \/ Exit(w),
           NEW z \in Windows \ {w}
    PROVE  win'[z] = win[z] /\ app'[z] = app[z] /\ screen'[z] = screen[z]
<1>1. win'[z] = win[z]
  <2>1. CASE IdleFrame(w) \/ OverrideFrame(w) \/ LinkFrame(w) \/ DialogFrame(w)
    BY <2>1 DEF IdleFrame, OverrideFrame, LinkFrame, DialogFrame, vars
  <2>2. CASE ~(IdleFrame(w) \/ OverrideFrame(w) \/ LinkFrame(w) \/ DialogFrame(w))
    <3>1. Progress(w) \/ User(w) \/ Crash(w)
      BY <2>2 DEF Fetch, Load, LoadFails, Persist, Start, DecisionFrame, FinishFrame,
         DeclineFrame, Exit, Progress, User
    <3>2. QED
      BY <3>1, OthersKept
  <2>3. QED
    BY <2>1, <2>2
<1>2. app'[z] = app[z]
  BY DEF ViewInv, Fetch, Load, LoadFails, Persist, Start, DecisionFrame, FinishFrame,
     DeclineFrame, IdleFrame, OverrideFrame, LinkFrame, DialogFrame, Exit, uiVars
<1>3. screen'[z] = screen[z]
  BY DEF ViewInv, Fetch, Load, LoadFails, Persist, Start, DecisionFrame, FinishFrame,
     DeclineFrame, IdleFrame, OverrideFrame, LinkFrame, DialogFrame, Exit, uiVars
<1>4. QED
  BY <1>1, <1>2, <1>3

\* The frame of an open window bears its state, and no half frame is left.
LEMMA OpenFramePresents ==
    ASSUME NEW v \in WindowStates, NEW a, NEW s, NEW o, Fits(v, a, s, o), v.pc = "open",
           NEW u, u.pc = "open", u.shown = v.shown,
           NEW b, b.top = a.top, NEW c
    PROVE  Presents(u, b, Complete(Top(v, a), c))
<1>1. Top(v, a).chrome.trust_state = v.shown
  BY TopFits
<1>2. Complete(Top(v, a), c).chrome = Top(v, a).chrome
  BY DEF Complete, Frame
<1>3. ~b.top.drawn
  BY DEF Fits, PersistPoints
<1>4. QED
  BY <1>1, <1>2, <1>3 DEF Presents

\* A panel is only open over a state without a badge.
LEMMA AskedWithoutBadge ==
    ASSUME NEW prompt, prompt \in {"PinPrompt", "MismatchWarning"}, NEW trust,
           Asks(prompt, trust)
    PROVE  trust \notin Badges
  BY DEF Asks, Badges

\* The steps of build and of persist, and the end of the process.
LEMMA ProcessPresents ==
    ASSUME TypeOK, ViewInv, PresentInv, NEW w \in Windows,
           \/ Fetch(w) \/ Load(w) \/ LoadFails(w) \/ Persist(w) \/ Start(w) \/ Exit(w)
    PROVE  Presents(win'[w], app'[w], screen'[w])
<1> DEFINE v == win[w]
           a == app[w]
           s == screen[w]
<1>0. /\ v \in WindowStates /\ a \in Apps /\ Fits(v, a, s, w \in overrode)
      /\ DOMAIN app = Windows /\ DOMAIN screen = Windows /\ DOMAIN win = Windows
      /\ Presents(v, a, s)
  BY DEF TypeOK, ViewInv, ViewOK, PresentInv
<1>1. CASE Fetch(w)
  <2>1. PICK fetch \in Fetches(ContentDocuments) :
           app' = [app EXCEPT ![w] = [IdleApp EXCEPT !.fetch = fetch]]
    BY <1>1 DEF Fetch
  <2>2. v.pc = "idle" /\ screen' = screen
    BY <1>1 DEF Fetch, Launch
  <2>3. s = Blank
    BY <1>0, <2>2 DEF Fits, Running
  <2>4. app'[w].top = IdleApp.top
    BY <1>0, <2>1, BlankFacts DEF Apps
  <2>5. QED
    BY <2>2, <2>3, <2>4, BlankFacts DEF Presents
<1>2. CASE Load(w)
  <2>1. /\ v.pc = "loading" /\ screen' = screen
        /\ app' = [app EXCEPT ![w].chrome =
                      Chrome(win'[w].shown, app[w].fetch.canary, DefaultConditions)]
    BY <1>2 DEF Load, LoadAccepted
  <2>2. s = Blank /\ ~a.top.drawn
    BY <1>0, <2>1 DEF Fits, Running
  <2>3. app'[w].top = a.top
    BY <1>0, <2>1 DEF Apps
  <2>4. QED
    BY <2>1, <2>2, <2>3 DEF Presents
<1>3. CASE LoadFails(w)
  <2>1. v.pc = "loading" /\ screen' = screen /\ app'[w] = IdleApp
    BY <1>3, <1>0 DEF LoadFails, LoadRejected
  <2>2. s = Blank
    BY <1>0, <2>1 DEF Fits, Running
  <2>3. QED
    BY <2>1, <2>2, BlankFacts DEF Presents
<1>4. CASE Persist(w)
  <2>1. /\ v.pc \in PersistPoints
        /\ win'[w].shown = v.shown /\ win'[w].decision = v.decision
    <3>1. CASE ReadIdentity(w)
      BY <3>1, <1>0 DEF ReadIdentity, WindowStates, PersistPoints
    <3>2. CASE WriteIdentity(w)
      BY <3>2, <1>0 DEF WriteIdentity, WindowStates, PersistPoints
    <3>3. CASE ReadHistory(w)
      BY <3>3, <1>0 DEF ReadHistory, WindowStates, PersistPoints
    <3>4. CASE WriteHistory(w)
      BY <3>4, <1>0 DEF WriteHistory, WindowStates, PersistPoints
    <3>5. CASE PersistFails(w)
      BY <3>5, <1>0 DEF PersistFails, WindowStates, PersistPoints
    <3>6. QED
      BY <1>4, <3>1, <3>2, <3>3, <3>4, <3>5 DEF Persist
  <2>2. UNCHANGED uiVars /\ v.pc # "open"
    BY <1>4, <2>1 DEF Persist, PersistPoints
  <2>3. QED
    BY <1>0, <2>1, <2>2 DEF uiVars, Presents
<1>5. CASE Start(w)
  <2>1. /\ v.pc = "reload" /\ UNCHANGED uiVars /\ win'[w].pc = "open"
        /\ SameView(win'[w], v)
    BY <1>5, ReloadOpens DEF Start
  <2>2. QED
    BY <1>0, <2>1 DEF uiVars, Presents, SameView
<1>6. CASE Exit(w)
  <2>1. app'[w] = IdleApp /\ screen'[w] = Blank
    BY <1>6, <1>0 DEF Exit
  <2>2. QED
    BY <2>1, BlankFacts DEF Presents
<1>7. QED
  BY <1>1, <1>2, <1>3, <1>4, <1>5, <1>6

\* The two halves of the frame in which a panel is answered.
LEMMA DecisionPresents ==
    ASSUME TypeOK, ViewInv, PresentInv, NEW w \in Windows,
           DecisionFrame(w) \/ FinishFrame(w)
    PROVE  Presents(win'[w], app'[w], screen'[w])
<1> DEFINE v == win[w]
           a == app[w]
           s == screen[w]
           u == win'[w]
<1>0. /\ v \in WindowStates /\ a \in Apps /\ Fits(v, a, s, w \in overrode)
      /\ DOMAIN app = Windows /\ DOMAIN screen = Windows /\ DOMAIN win = Windows
      /\ Presents(v, a, s) /\ TopOf(w) = Top(v, a)
  BY DEF TypeOK, ViewInv, ViewOK, PresentInv, TopOf, Top
<1>1. CASE DecisionFrame(w)
  <2>1. PICK decision \in UserDecisions : Decide(w, decision)
    BY <1>1 DEF DecisionFrame
  <2>2. /\ v.pc = "open" /\ s.panel.prompt = v.prompt
        /\ v.prompt \in {"PinPrompt", "MismatchWarning"} /\ decision # "None"
    BY <1>1, <2>1 DEF DecisionFrame, Decide, Offered, Clickable
  <2>3. u.decision = decision
    BY <1>0, <2>1 DEF Decide, WindowStates
  <2>4. s # Blank
    BY <2>2, BlankFacts DEF NoPanel, Panel
  <2>5. s.chrome.trust_state \notin Badges
    BY <1>0, <2>2, <2>4, AskedWithoutBadge DEF Fits, TopOK
  <2>6. /\ Top(v, a).chrome.trust_state = v.shown
        /\ Asks(v.prompt, v.shown)
    <3>1. Running(v)
      BY <2>2 DEF Running
    <3>2. QED
      BY <1>0, <2>2, <3>1, TopFits DEF Fits
  <2>7. v.shown \notin Badges
    BY <2>2, <2>6, AskedWithoutBadge
  <2>8. app'[w].top = Top(v, a) /\ screen' = screen
    <3>1. /\ app' = [app EXCEPT ![w].top = Top(v, a),
                                ![w].chrome = Chrome(u.shown, a.fetch.canary,
                                                     DefaultConditions)]
          /\ screen' = screen
      BY <1>1, <1>0 DEF DecisionFrame
    <3>2. QED
      BY <3>1, <1>0 DEF Apps
  <2>9. u.decision # "None"
    BY <2>2, <2>3
  <2>10. QED
    BY <2>5, <2>6, <2>7, <2>8, <2>9 DEF Presents
<1>2. CASE FinishFrame(w)
  <2>1. /\ v.pc = "reload" /\ a.top.drawn
        /\ app' = [app EXCEPT ![w].top = NoTop]
        /\ screen' = [screen EXCEPT ![w] = Complete(a.top, a)]
        /\ u.decision = v.decision
    BY <1>2, ReloadOpens DEF FinishFrame, SameView
  <2>2. v.decision # "None" /\ a.top.chrome.trust_state \notin Badges
    BY <1>0, <2>1 DEF Fits, Presents
  <2>3. app'[w].top = NoTop /\ screen'[w] = Complete(a.top, a)
    BY <1>0, <2>1 DEF Apps
  <2>4. ~NoTop.drawn /\ Complete(a.top, a).chrome = a.top.chrome
    BY DEF NoTop, Complete, Frame
  <2>5. QED
    BY <2>1, <2>2, <2>3, <2>4 DEF Presents
<1>3. QED
  BY <1>1, <1>2

\* The frames that leave the session alone, or only close its panel.
LEMMA FramePresents ==
    ASSUME TypeOK, ViewInv, NEW w \in Windows,
           \/ DeclineFrame(w) \/ IdleFrame(w) \/ OverrideFrame(w)
           \/ LinkFrame(w) \/ DialogFrame(w)
    PROVE  Presents(win'[w], app'[w], screen'[w])
<1> DEFINE v == win[w]
           a == app[w]
           s == screen[w]
<1>0. /\ v \in WindowStates /\ a \in Apps /\ Fits(v, a, s, w \in overrode)
      /\ DOMAIN app = Windows /\ DOMAIN screen = Windows /\ DOMAIN win = Windows
      /\ TopOf(w) = Top(v, a)
  BY DEF TypeOK, ViewInv, ViewOK, TopOf, Top
<1>1. v.pc = "open" /\ win'[w].pc = "open" /\ win'[w].shown = v.shown
  BY <1>0 DEF DeclineFrame, Decline, IdleFrame, OverrideFrame, LinkFrame, DialogFrame, vars,
     WindowStates
<1>2. app'[w].top = a.top
  BY <1>0 DEF DeclineFrame, IdleFrame, OverrideFrame, LinkFrame, DialogFrame, Apps
<1>3. \E c : screen'[w] = Complete(Top(v, a), c)
  BY <1>0 DEF DeclineFrame, IdleFrame, OverrideFrame, LinkFrame, DialogFrame
<1>4. QED
  BY <1>0, <1>1, <1>2, <1>3, OpenFramePresents

LEMMA PresentInvStep ==
    TypeOK /\ ViewInv /\ PresentInv /\ [ViewNext]_viewVars => PresentInv'
<1> SUFFICES ASSUME TypeOK, ViewInv, PresentInv, [ViewNext]_viewVars PROVE PresentInv'
  OBVIOUS
<1>1. CASE UNCHANGED viewVars
  BY <1>1 DEF viewVars, vars, uiVars, PresentInv, Presents
<1>2. ASSUME NEW w \in Windows,
             \/ Fetch(w) \/ Load(w) \/ LoadFails(w) \/ Persist(w) \/ Start(w)
             \/ DecisionFrame(w) \/ FinishFrame(w) \/ DeclineFrame(w) \/ IdleFrame(w)
             \/ OverrideFrame(w) \/ LinkFrame(w) \/ DialogFrame(w) \/ Exit(w)
      PROVE  PresentInv'
  <2>1. Presents(win'[w], app'[w], screen'[w])
    BY <1>2, ProcessPresents, DecisionPresents, FramePresents
  <2>2. ASSUME NEW z \in Windows \ {w} PROVE Presents(win'[z], app'[z], screen'[z])
    <3>1. win'[z] = win[z] /\ app'[z] = app[z] /\ screen'[z] = screen[z]
      BY <1>2, OtherViewsKept
    <3>2. Presents(win[z], app[z], screen[z])
      BY DEF PresentInv
    <3>3. QED
      BY <3>1, <3>2
  <2>3. QED
    BY <2>1, <2>2 DEF PresentInv
<1>3. QED
  BY <1>1, <1>2 DEF ViewNext

\* A badge is only ever on the screen of a window that stands open in that
\* state: in no frame is it drawn before persist has returned.
THEOREM PresentInvariance == ViewSpec => []PresentInv
<1>1. QED
  BY ViewInvariance, PresentInvInit, PresentInvStep, PTL DEF ViewSpec

----------------------------------------------------------------------------
\* While no two windows open one site, the trust state on screen is what the
\* store retains, in every frame and between any two of them.
THEOREM PresentedTrustHolds == ViewSpec /\ []SitesApart => []PresentedTrustIsStored
<1>1. ASSUME IInv, SnapshotInv, ViewInv, PresentInv PROVE PresentedTrustIsStored
  <2> SUFFICES ASSUME NEW w \in Windows, screen[w] # Blank, ~win[w].failed
               PROVE  LET v == win[w]
                          trust == screen[w].chrome.trust_state
                          retained == Retained(identities[v.site])
                      IN  /\ trust = "TofuPinned" =>
                                retained = Identity(v.manifest.pub, "Pinned")
                          /\ trust = "ExternallyVerified" =>
                                retained = Identity(v.manifest.pub, "ExternallyVerified")
                          /\ (trust = "ChangedMismatch" /\ v.decision = "None") =>
                                retained # Nothing /\ retained.pubkey # v.manifest.pub
    BY DEF PresentedTrustIsStored
  <2> DEFINE v == win[w]
             trust == screen[w].chrome.trust_state
             file == identities[v.site]
  <2>1. Presents(v, app[w], screen[w]) /\ Fits(v, app[w], screen[w], w \in overrode)
    BY <1>1 DEF PresentInv, ViewInv, ViewOK
  <2>2. v.pc = "open" => BadgeHolds(v.shown, v.manifest.pub, file)
    BY <1>1 DEF SnapshotInv, SnapshotOK
  <2>3. CASE trust \in Badges
    <3>1. v.pc = "open" /\ v.shown = trust
      BY <2>1, <2>3 DEF Presents
    <3>2. QED
      BY <2>2, <2>3, <3>1 DEF Badges, BadgeHolds, Retained, DecodeProvenance, Identity
  <2>4. CASE trust = "ChangedMismatch" /\ v.decision = "None"
    <3>1. v.pc = "open" /\ v.shown = trust
      BY <2>1, <2>4 DEF Presents, Fits
    <3>2. file # NoFile /\ file.pubkey # v.manifest.pub
      BY <2>2, <2>4, <3>1 DEF BadgeHolds
    <3>3. v.site \in Sites /\ file \in IdentityFiles
      BY <1>1, <3>1, WindowFacts
    <3>4. Retained(file) # Nothing
      BY <3>2, <3>3, RetainedType
    <3>5. QED
      BY <2>4, <3>2, <3>4 DEF Retained, Identity
  <2>5. CASE trust \notin Badges /\ ~(trust = "ChangedMismatch" /\ v.decision = "None")
    BY <2>5 DEF Badges
  <2>6. QED
    BY <2>3, <2>4, <2>5
<1>2. QED
  BY <1>1, ViewerRunsSessions, Invariance, SnapshotInvariance, ViewInvariance,
     PresentInvariance, PTL

\* A decision that spans a frame, its writes and a crash among them, is still one
\* operation of the stores of io.rs or none, if the windows keep apart.
THEOREM ViewerImplementsStores ==
    ViewSpec /\ []SitesApart /\ []PublishersApart => ImplementsMemoryStores
<1>1. QED
  BY ViewerRunsSessions, SessionImplementsStores, PTL
=============================================================================
