---------------------------- MODULE ViewerProofs ----------------------------
(***************************************************************************)
(* What holds of every frame, for any number of windows, sites, documents   *)
(* and links, and under any faults.  ViewOK relates what a window has drawn  *)
(* to what its session knows; it mentions one window only, so a step of a    *)
(* window has to be followed for that window alone.                          *)
(***************************************************************************)
EXTENDS Viewer, SessionProofs

Running(v) == v.pc \notin {"idle", "loading"}

Verified(fetch, m) ==
    /\ fetch.signed /\ ~fetch.content_root /\ fetch.canary # "Invalid"
    /\ fetch.content # None => fetch.content.signer = m.rk

\* A panel asks about the trust shown above it.
Asks(prompt, trust) ==
    /\ prompt = "PinPrompt" => trust = "FirstContact"
    /\ prompt = "MismatchWarning" => trust = "ChangedMismatch"

\* A top half, drawn for a canary: its chrome tells of it, its panel of the trust.
TopOK(chrome, panel, canary) ==
    /\ chrome = Chrome(chrome.trust_state, canary, DefaultConditions)
    /\ Asks(panel.prompt, chrome.trust_state)
    /\ panel.prompt = "None" => panel = NoPanel

Fits(v, a, s, overridden) ==
    /\ a \in Apps /\ s \in Screens
    /\ a.canary_override <=> overridden
    /\ a.top.drawn =>
          /\ v.pc \in PersistPoints /\ v.decision # "None"
          /\ TopOK(a.top.chrome, a.top.panel, a.fetch.canary)
    /\ ~Running(v) =>
          /\ s = Blank /\ a.handoff = None /\ ~a.top.drawn
          /\ ~a.canary_override
    /\ Running(v) =>
          /\ a.chrome = Chrome(v.shown, a.fetch.canary, DefaultConditions)
          /\ Verified(a.fetch, v.manifest) /\ v.manifest.site = v.site
          /\ (v.pc = "open" \/ v.decision = "None") => Asks(v.prompt, v.shown)
          /\ (v.warned # None /\ v.decision = "None") => v.shown = "ChangedMismatch"
    /\ a.handoff # None =>
          /\ External(a.handoff) /\ a.handoff \in LinksOf(a)
          /\ a.fetch.canary = "Expired" => a.canary_override
    /\ (s.dialog # None /\ a.handoff # None) => s.dialog = a.handoff
    /\ s # Blank =>
          /\ TopOK(s.chrome, s.panel, a.fetch.canary)
          /\ v.decision = "None" => s.chrome.trust_state = v.shown
          /\ (a.fetch.canary = "Expired" /\ (s.area = "scene" \/ s.dialog # None)) =>
                a.canary_override /\ s.notice

ViewOK(w) == Fits(win[w], app[w], screen[w], w \in overrode)

ViewInv ==
    /\ app \in [Windows -> Apps] /\ screen \in [Windows -> Screens]
    /\ clipboard \in Links \cup {None} /\ overrode \subseteq Windows
    /\ \A w \in Windows : ViewOK(w)

----------------------------------------------------------------------------
\* A view of the window is a view of a session: every frame is a session step
\* or leaves the session alone.
LEMMA FrameIsSessionStep == [ViewNext]_viewVars => [Next]_vars
<1> SUFFICES ASSUME [ViewNext]_viewVars PROVE [Next]_vars
  OBVIOUS
<1>1. CASE UNCHANGED viewVars
  BY <1>1 DEF viewVars
<1>2. ASSUME NEW w \in Windows,
             \/ Fetch(w) \/ Load(w) \/ LoadFails(w) \/ Persist(w) \/ Start(w)
             \/ DecisionFrame(w) \/ FinishFrame(w) \/ DeclineFrame(w) \/ Exit(w)
      PROVE  Next
  <2>1. Progress(w) \/ User(w) \/ Crash(w)
    BY <1>2 DEF Fetch, Load, LoadFails, Persist, Start, DecisionFrame, FinishFrame,
       DeclineFrame, Exit, Progress, User
  <2>2. QED
    BY <2>1 DEF Next
<1>3. ASSUME NEW w \in Windows,
             IdleFrame(w) \/ OverrideFrame(w) \/ LinkFrame(w) \/ DialogFrame(w)
      PROVE  UNCHANGED vars
  BY <1>3 DEF IdleFrame, OverrideFrame, LinkFrame, DialogFrame
<1>4. QED
  BY <1>1, <1>2, <1>3 DEF ViewNext

\* So what SessionProofs shows of sessions holds below every viewer.
THEOREM ViewerRunsSessions == ViewSpec => Spec
<1>1. ViewInit => Init
  BY DEF ViewInit
<1>2. QED
  BY <1>1, FrameIsSessionStep, PTL DEF ViewSpec, Spec

----------------------------------------------------------------------------
\* The chrome of a state and a canary is a chrome view and says what it must.
LEMMA ChromeFacts ==
    ASSUME NEW trust \in TrustStates, NEW canary \in CanaryStates
    PROVE  LET c == Chrome(trust, canary, DefaultConditions)
           IN  /\ c \in ChromeViews
               /\ c.trust_state = trust /\ c.canary_state = canary
               /\ canary = "Expired" => "CanaryExpired" \in c.warnings
               /\ trust = "ChangedMismatch" => "TrustMismatch" \in c.warnings
               /\ c.pip_must_be_fully_shown <=> trust \in {"FirstContact", "ChangedMismatch"}
<1> DEFINE c == Chrome(trust, canary, DefaultConditions)
<1>1. c.warnings \subseteq Warnings
  BY DEF Chrome, DefaultConditions, Warnings
<1>2. c \in ChromeViews
  BY <1>1 DEF Chrome, ChromeViews, DefaultConditions
<1>3. QED
  BY <1>2 DEF Chrome

\* What Resolve asks for fits the state it finds.
LEMMA ActionFitsState ==
    ASSUME NEW presented, NEW retained, NEW decision
    PROVE  LET r == Resolve(presented, retained, decision)
           IN  Asks(r.action, r.state)
  BY DEF Resolve, ResolveFirstContact, ResolveMatched, ResolveMismatch, Resolution,
     StateOfProvenance, Asks

----------------------------------------------------------------------------
\* The top half of a frame drawn in the open window v of state a.
Top(v, a) ==
    [drawn |-> TRUE, chrome |-> a.chrome,
     panel |-> IF v.prompt = "None" THEN NoPanel ELSE Panel(v.prompt, v.warned)]

LEMMA AppParts ==
    ASSUME NEW a \in Apps
    PROVE  /\ a.fetch.canary \in CanaryStates
           /\ a.chrome \in ChromeViews /\ a.top \in Tops
           /\ a.fetch \in Fetches(ContentDocuments)
           /\ a.canary_override \in BOOLEAN /\ a.handoff \in Links \cup {None}
           /\ LinksOf(a) \subseteq Links
<1>1. a.fetch \in Fetches(ContentDocuments)
  BY DEF Apps
<1>2. a.fetch.canary \in CanaryStates
  BY <1>1 DEF Fetches
<1>3. a.fetch.content # None => a.fetch.content \in Contents
  BY <1>1, ContentAssumption DEF Fetches
<1>4. LinksOf(a) \subseteq Links
  BY <1>3 DEF LinksOf, Contents
<1>5. QED
  BY <1>1, <1>2, <1>4 DEF Apps

\* What Blank and IdleApp hold.
LEMMA BlankFacts ==
    /\ Blank \in Screens /\ IdleApp \in Apps
    /\ Blank.dialog = None /\ Blank.area = "none" /\ Blank.panel = NoPanel
    /\ ~IdleApp.top.drawn /\ ~IdleApp.canary_override /\ IdleApp.handoff = None
<1>1. NoChrome \in ChromeViews
  BY ChromeFacts DEF NoChrome, TrustStates, CanaryStates
<1>2. NoPanel \in Panels
  BY DEF NoPanel, Panel, Panels, RequiredActions
<1>3. NoTop \in Tops /\ ~NoTop.drawn
  BY <1>1, <1>2 DEF NoTop, Tops
<1>4. NoFetch \in Fetches(ContentDocuments)
  BY DEF NoFetch, Fetches, CanaryStates
<1>5. Blank \in Screens
  BY <1>1, <1>2 DEF Blank, Frame, Screens, Areas
<1>6. IdleApp \in Apps
  BY <1>1, <1>3, <1>4 DEF IdleApp, Apps
<1>7. QED
  BY <1>3, <1>5, <1>6 DEF Blank, Frame, IdleApp

\* A window that is not running, whatever it has fetched.
LEMMA IdleFits ==
    ASSUME NEW v, ~Running(v), NEW a \in Apps,
           a.handoff = None, ~a.top.drawn, ~a.canary_override
    PROVE  Fits(v, a, Blank, FALSE)
  BY BlankFacts DEF Fits

\* The top half of a frame of an open window.
LEMMA TopFits ==
    ASSUME NEW v \in WindowStates, NEW a, NEW s, NEW o, Fits(v, a, s, o), v.pc = "open"
    PROVE  /\ Top(v, a) \in Tops
           /\ TopOK(Top(v, a).chrome, Top(v, a).panel, a.fetch.canary)
           /\ Top(v, a).chrome.trust_state = v.shown
           /\ a.chrome.canary_state = a.fetch.canary
<1>1. v.shown \in TrustStates /\ v.prompt \in RequiredActions
      /\ v.warned \in Publishers \cup {None}
  BY DEF WindowStates
<1>2. /\ a \in Apps
      /\ a.chrome = Chrome(v.shown, a.fetch.canary, DefaultConditions)
      /\ Asks(v.prompt, v.shown)
  BY DEF Fits, Running
<1>3. a.fetch.canary \in CanaryStates /\ a.chrome \in ChromeViews
  BY <1>2, AppParts
<1>4. a.chrome.trust_state = v.shown /\ a.chrome.canary_state = a.fetch.canary
  BY <1>1, <1>2, <1>3, ChromeFacts
<1>5. NoPanel \in Panels /\ Panel(v.prompt, v.warned) \in Panels
  BY <1>1 DEF NoPanel, Panel, Panels, RequiredActions
<1>6. Top(v, a) \in Tops
  BY <1>3, <1>5 DEF Top, Tops
<1>7. TopOK(Top(v, a).chrome, Top(v, a).panel, a.fetch.canary)
  BY <1>2, <1>4 DEF Top, TopOK, NoPanel, Panel, Asks
<1>8. QED
  BY <1>4, <1>6, <1>7 DEF Top

\* A whole frame, drawn under a top half.
LEMMA CompleteFits ==
    ASSUME NEW top \in Tops, NEW a \in Apps,
           a.chrome.canary_state = a.fetch.canary,
           a.handoff # None /\ a.fetch.canary = "Expired" => a.canary_override
    PROVE  LET s == Complete(top, a)
           IN  /\ s \in Screens
               /\ s.chrome = top.chrome /\ s.panel = top.panel /\ s.dialog = a.handoff
               /\ (a.fetch.canary = "Expired" /\ (s.area = "scene" \/ s.dialog # None)) =>
                     a.canary_override /\ s.notice
<1>1. AreaOf(a) \in Areas
  BY DEF AreaOf, Areas
<1>2. Complete(top, a) \in Screens
  BY <1>1, AppParts DEF Complete, Frame, Screens, CanaryExpired, Tops
<1>3. AreaOf(a) = "scene" /\ a.fetch.canary = "Expired" => a.canary_override
  BY DEF AreaOf, RenderBlocked, CanaryExpired
<1>4. QED
  BY <1>2, <1>3 DEF Complete, Frame, CanaryExpired

----------------------------------------------------------------------------
\* The parts of a window a view depends on.
SameView(u, v) ==
    /\ u.shown = v.shown /\ u.manifest = v.manifest /\ u.site = v.site
    /\ u.decision = v.decision /\ u.warned = v.warned

\* A frame drawn in an open window: from a to b, what is drawn is that of c.
LEMMA OpenFrameFits ==
    ASSUME NEW v \in WindowStates, NEW a, NEW s, NEW o, Fits(v, a, s, o), v.pc = "open",
           NEW u, u.pc = "open", SameView(u, v), u.prompt \in {v.prompt, "None"},
           NEW b \in Apps, b.fetch = a.fetch, b.chrome = a.chrome, b.top = a.top,
           b.handoff # None =>
              /\ External(b.handoff) /\ b.handoff \in LinksOf(b)
              /\ b.fetch.canary = "Expired" => b.canary_override,
           NEW c \in Apps, c.fetch = a.fetch, c.chrome = a.chrome,
           c.canary_override => b.canary_override,
           (c.handoff # None /\ c.fetch.canary = "Expired") => c.canary_override,
           (b.handoff # None /\ c.handoff # None) => b.handoff = c.handoff
    PROVE  Fits(u, b, Complete(Top(v, a), c), b.canary_override)
<1> DEFINE t == Complete(Top(v, a), c)
<1>1. /\ Top(v, a) \in Tops
      /\ TopOK(Top(v, a).chrome, Top(v, a).panel, a.fetch.canary)
      /\ Top(v, a).chrome.trust_state = v.shown
      /\ a.chrome.canary_state = a.fetch.canary
  BY TopFits
<1>2. /\ t \in Screens
      /\ t.chrome = Top(v, a).chrome /\ t.panel = Top(v, a).panel /\ t.dialog = c.handoff
      /\ (c.fetch.canary = "Expired" /\ (t.area = "scene" \/ t.dialog # None)) =>
            c.canary_override /\ t.notice
  BY <1>1, CompleteFits
<1>3. Running(v) /\ Running(u) /\ v.pc \notin PersistPoints
  BY DEF Running, PersistPoints
<1>4. Asks(v.prompt, v.shown)
  BY <1>3 DEF Fits
<1>5. Asks(u.prompt, u.shown)
  BY <1>4 DEF Asks, SameView
<1>6. ~b.top.drawn
  BY <1>3 DEF Fits
<1>7. /\ b.chrome = Chrome(u.shown, b.fetch.canary, DefaultConditions)
      /\ Verified(b.fetch, u.manifest) /\ u.manifest.site = u.site
      /\ (u.warned # None /\ u.decision = "None") => u.shown = "ChangedMismatch"
  BY <1>3 DEF Fits, SameView
<1>8. /\ TopOK(t.chrome, t.panel, b.fetch.canary)
      /\ t.chrome.trust_state = u.shown
      /\ (b.fetch.canary = "Expired" /\ (t.area = "scene" \/ t.dialog # None)) =>
            b.canary_override /\ t.notice
      /\ (t.dialog # None /\ b.handoff # None) => t.dialog = b.handoff
  BY <1>1, <1>2 DEF SameView
<1>9. QED
  BY <1>2, <1>3, <1>5, <1>6, <1>7, <1>8 DEF Fits

\* The steps of persist change nothing a view depends on.
LEMMA PersistFits ==
    ASSUME NEW v, NEW a, NEW s, NEW o, Fits(v, a, s, o), v.pc \in PersistPoints,
           NEW u, u.pc \in PersistPoints, SameView(u, v), u.prompt = v.prompt
    PROVE  Fits(u, a, s, o)
<1>1. Running(v) /\ Running(u) /\ u.pc # "open"
  BY DEF Running, PersistPoints
<1>2. QED
  BY <1>1 DEF Fits, SameView

\* The end of App::new opens the window without drawing it.
LEMMA StartFits ==
    ASSUME NEW v, NEW a, NEW s, NEW o, Fits(v, a, s, o), v.pc = "reload", ~a.top.drawn,
           NEW u, u.pc = "open", SameView(u, v),
           u.prompt = IF v.decision = "None" THEN v.prompt ELSE "None"
    PROVE  Fits(u, a, s, o)
<1>1. Running(v) /\ Running(u)
  BY DEF Running
<1>2. Asks(u.prompt, u.shown)
  BY <1>1 DEF Fits, SameView, Asks
<1>3. QED
  BY <1>1, <1>2 DEF Fits, SameView

\* Both documents pass: the chrome of the trust found.
LEMMA LoadFits ==
    ASSUME NEW v, NEW a, NEW s, NEW o, Fits(v, a, s, o), v.pc = "loading",
           NEW u, Running(u), u.shown \in TrustStates,
           Asks(u.prompt, u.shown), u.warned # None => u.shown = "ChangedMismatch",
           u.manifest.site = u.site, Verified(a.fetch, u.manifest)
    PROVE  Fits(u, [a EXCEPT !.chrome = Chrome(u.shown, a.fetch.canary, DefaultConditions)],
                s, o)
<1> DEFINE b == [a EXCEPT !.chrome = Chrome(u.shown, a.fetch.canary, DefaultConditions)]
<1>1. /\ a \in Apps /\ s = Blank /\ a.handoff = None /\ ~a.top.drawn
      /\ ~a.canary_override /\ ~o
  BY DEF Fits, Running
<1>2. Chrome(u.shown, a.fetch.canary, DefaultConditions) \in ChromeViews
  BY <1>1, AppParts, ChromeFacts
<1>3. b \in Apps
  BY <1>1, <1>2 DEF Apps
<1>4. /\ b.fetch = a.fetch /\ b.handoff = None /\ ~b.top.drawn /\ ~b.canary_override
      /\ b.chrome = Chrome(u.shown, b.fetch.canary, DefaultConditions)
  BY <1>1 DEF Apps
<1>5. QED
  BY <1>1, <1>3, <1>4, BlankFacts DEF Fits

\* A button of the panel: the top half is drawn, the chrome made anew.
LEMMA DecisionFits ==
    ASSUME NEW v \in WindowStates, NEW a, NEW s, NEW o, Fits(v, a, s, o), v.pc = "open",
           NEW u, u.pc \in PersistPoints, u.shown \in TrustStates, u.decision # "None",
           u.manifest = v.manifest, u.site = v.site
    PROVE  Fits(u, [a EXCEPT !.top = Top(v, a),
                             !.chrome = Chrome(u.shown, a.fetch.canary, DefaultConditions)],
                s, o)
<1> DEFINE b == [a EXCEPT !.top = Top(v, a),
                          !.chrome = Chrome(u.shown, a.fetch.canary, DefaultConditions)]
<1>1. Running(v) /\ Running(u) /\ u.pc # "open"
  BY DEF Running, PersistPoints
<1>2. /\ Top(v, a) \in Tops
      /\ TopOK(Top(v, a).chrome, Top(v, a).panel, a.fetch.canary)
  BY TopFits
<1>3. a \in Apps
  BY DEF Fits
<1>4. Chrome(u.shown, a.fetch.canary, DefaultConditions) \in ChromeViews
  BY <1>3, AppParts, ChromeFacts
<1>5. b \in Apps
  BY <1>2, <1>3, <1>4 DEF Apps
<1>6. /\ b.fetch = a.fetch /\ b.handoff = a.handoff /\ b.top = Top(v, a)
      /\ b.canary_override = a.canary_override
      /\ b.chrome = Chrome(u.shown, b.fetch.canary, DefaultConditions)
      /\ LinksOf(b) = LinksOf(a)
  BY <1>3 DEF Apps, LinksOf
<1>7. QED
  BY <1>1, <1>2, <1>5, <1>6 DEF Fits

\* The rest of the frame of a decision.
LEMMA FinishFits ==
    ASSUME NEW v \in WindowStates, NEW a, NEW s, NEW o, Fits(v, a, s, o),
           v.pc = "reload", a.top.drawn,
           NEW u, u.pc = "open", SameView(u, v), u.prompt = "None"
    PROVE  Fits(u, [a EXCEPT !.top = NoTop], Complete(a.top, a), o)
<1> DEFINE b == [a EXCEPT !.top = NoTop]
           t == Complete(a.top, a)
<1>1. Running(v) /\ Running(u)
  BY DEF Running
<1>2. /\ a \in Apps /\ v.decision # "None" /\ u.decision # "None"
      /\ TopOK(a.top.chrome, a.top.panel, a.fetch.canary)
      /\ a.chrome = Chrome(v.shown, a.fetch.canary, DefaultConditions)
      /\ (a.handoff # None /\ a.fetch.canary = "Expired") => a.canary_override
  BY <1>1 DEF Fits, SameView
<1>3. v.shown \in TrustStates
  BY DEF WindowStates
<1>4. a.chrome.canary_state = a.fetch.canary
  BY <1>2, <1>3, AppParts, ChromeFacts
<1>5. a.top \in Tops
  BY <1>2, AppParts
<1>6. /\ t \in Screens
      /\ t.chrome = a.top.chrome /\ t.panel = a.top.panel /\ t.dialog = a.handoff
      /\ (a.fetch.canary = "Expired" /\ (t.area = "scene" \/ t.dialog # None)) =>
            a.canary_override /\ t.notice
  BY <1>2, <1>4, <1>5, CompleteFits
<1>7. NoTop \in Tops /\ ~NoTop.drawn
  BY BlankFacts DEF IdleApp, Apps
<1>8. b \in Apps
  BY <1>2, <1>7 DEF Apps
<1>9. /\ b.fetch = a.fetch /\ b.handoff = a.handoff /\ ~b.top.drawn
      /\ b.canary_override = a.canary_override /\ b.chrome = a.chrome
      /\ LinksOf(b) = LinksOf(a)
  BY <1>2, <1>7 DEF Apps, LinksOf
<1>10. Asks(u.prompt, u.shown)
  BY DEF Asks
<1>11. QED
  BY <1>1, <1>2, <1>6, <1>8, <1>9, <1>10 DEF Fits, SameView

----------------------------------------------------------------------------
LEMMA ViewInvInit == ViewInit => ViewInv
<1> SUFFICES ASSUME ViewInit PROVE ViewInv
  OBVIOUS
<1>1. /\ app \in [Windows -> Apps] /\ screen \in [Windows -> Screens]
      /\ clipboard \in Links \cup {None} /\ overrode \subseteq Windows
  BY BlankFacts DEF ViewInit
<1>2. ASSUME NEW w \in Windows PROVE ViewOK(w)
  <2>1. win[w] = IdleWindow
    BY DEF ViewInit, Init, InitFrom
  <2>2. ~Running(IdleWindow)
    BY DEF IdleWindow, Running
  <2>3. app[w] = IdleApp /\ screen[w] = Blank /\ w \notin overrode
    BY DEF ViewInit
  <2>4. Fits(IdleWindow, IdleApp, Blank, FALSE)
    BY <2>2, IdleFits, BlankFacts
  <2>5. Fits(IdleWindow, IdleApp, Blank, w \in overrode)
    BY <2>3, <2>4 DEF Fits
  <2>6. QED
    BY <2>1, <2>3, <2>5 DEF ViewOK
<1>3. QED
  BY <1>1, <1>2 DEF ViewInv

\* A step of one window leaves the others' views alone.
LEMMA StepKeepsViews ==
    ASSUME ViewInv, NEW w \in Windows,
           \A z \in Windows : z # w => win'[z] = win[z],
           app' = [app EXCEPT ![w] = app'[w]],
           screen' = [screen EXCEPT ![w] = screen'[w]],
           overrode' \in SUBSET Windows,
           \A z \in Windows : z # w => (z \in overrode' <=> z \in overrode),
           clipboard' \in Links \cup {None},
           Fits(win'[w], app'[w], screen'[w], w \in overrode')
    PROVE  ViewInv'
<1>1. app'[w] \in Apps /\ screen'[w] \in Screens
  BY DEF Fits
<1>2. app' \in [Windows -> Apps] /\ screen' \in [Windows -> Screens]
  BY <1>1 DEF ViewInv
<1>3. ASSUME NEW z \in Windows PROVE Fits(win'[z], app'[z], screen'[z], z \in overrode')
  <2>1. CASE z = w
    BY <2>1
  <2>2. CASE z # w
    <3>1. app'[z] = app[z] /\ screen'[z] = screen[z]
      BY <2>2 DEF ViewInv
    <3>2. win'[z] = win[z] /\ (z \in overrode') = (z \in overrode)
      BY <2>2
    <3>3. Fits(win[z], app[z], screen[z], z \in overrode)
      BY DEF ViewInv, ViewOK
    <3>4. QED
      BY <3>1, <3>2, <3>3
  <2>3. QED
    BY <2>1, <2>2
<1>4. QED
  BY <1>2, <1>3 DEF ViewInv, ViewOK

\* Frames that do not touch the session.
LEMMA QuietFrames ==
    ASSUME TypeOK, ViewInv, NEW w \in Windows,
           IdleFrame(w) \/ OverrideFrame(w) \/ LinkFrame(w) \/ DialogFrame(w)
    PROVE  ViewInv'
<1> DEFINE v == win[w]
           a == app[w]
           s == screen[w]
<1>0. /\ v \in WindowStates /\ a \in Apps /\ v.pc = "open" /\ UNCHANGED vars
      /\ Fits(v, a, s, w \in overrode)
  BY DEF TypeOK, ViewInv, ViewOK, IdleFrame, OverrideFrame, LinkFrame, DialogFrame
<1>1. SameView(v, v) /\ v.prompt \in {v.prompt, "None"} /\ TopOf(w) = Top(v, a)
  BY DEF SameView, TopOf, Top
<1>2. /\ a.canary_override <=> w \in overrode
      /\ a.handoff # None =>
            /\ External(a.handoff) /\ a.handoff \in LinksOf(a)
            /\ a.fetch.canary = "Expired" => a.canary_override
  BY <1>0 DEF Fits
<1>3. win' = win
  BY <1>0 DEF vars
<1>4. a.chrome.canary_state = a.fetch.canary
  BY <1>0, TopFits
<1>5. \A z \in Windows : win'[z] = win[z]
  BY <1>3
<1>6. DOMAIN app = Windows /\ DOMAIN screen = Windows
      /\ clipboard \in Links \cup {None} /\ overrode \in SUBSET Windows
  BY DEF ViewInv
<1>7. CASE IdleFrame(w)
  <2>1. /\ app' = app /\ overrode' = overrode /\ clipboard' = clipboard
        /\ screen' = [screen EXCEPT ![w] = Complete(Top(v, a), a)]
    BY <1>7, <1>1 DEF IdleFrame
  <2>2. Fits(v, a, Complete(Top(v, a), a), a.canary_override)
    BY <1>0, <1>1, <1>2, OpenFrameFits
  <2>3. screen'[w] = Complete(Top(v, a), a) /\ app'[w] = a /\ win'[w] = v
    BY <2>1, <1>3, <1>6
  <2>4. Fits(win'[w], app'[w], screen'[w], w \in overrode')
    BY <2>1, <2>2, <2>3, <1>2 DEF Fits
  <2>5. app' = [app EXCEPT ![w] = app'[w]] /\ screen' = [screen EXCEPT ![w] = screen'[w]]
    BY <2>1, <1>6 DEF ViewInv
  <2>6. QED
    BY <2>1, <2>4, <2>5, <1>5, <1>6, StepKeepsViews
<1>8. CASE OverrideFrame(w)
  <2> DEFINE b == [a EXCEPT !.canary_override = TRUE]
  <2>1. /\ app' = [app EXCEPT ![w].canary_override = TRUE]
        /\ overrode' = overrode \cup {w} /\ clipboard' = clipboard
        /\ screen' = [screen EXCEPT ![w] = Complete(Top(v, a), a)]
    BY <1>8, <1>1 DEF OverrideFrame
  <2>2. /\ b \in Apps /\ b.fetch = a.fetch /\ b.chrome = a.chrome /\ b.top = a.top
        /\ b.handoff = a.handoff /\ b.canary_override /\ LinksOf(b) = LinksOf(a)
    BY <1>0 DEF Apps, LinksOf
  <2>3. Fits(v, b, Complete(Top(v, a), a), b.canary_override)
    BY <1>0, <1>1, <1>2, <2>2, OpenFrameFits
  <2>4. screen'[w] = Complete(Top(v, a), a) /\ app'[w] = b /\ win'[w] = v
    BY <2>1, <1>3, <1>6
  <2>5. Fits(win'[w], app'[w], screen'[w], w \in overrode')
    BY <2>1, <2>2, <2>3, <2>4 DEF Fits
  <2>6. app' = [app EXCEPT ![w] = app'[w]] /\ screen' = [screen EXCEPT ![w] = screen'[w]]
    BY <2>1, <1>6 DEF ViewInv
  <2>7. overrode' \in SUBSET Windows /\ clipboard' \in Links \cup {None}
        /\ \A z \in Windows : z # w => (z \in overrode' <=> z \in overrode)
    BY <2>1, <1>6
  <2>8. QED
    BY <2>5, <2>6, <2>7, <1>5, StepKeepsViews
<1>9. CASE LinkFrame(w)
  <2>1. PICK link \in LinksOf(a) :
           /\ External(link)
           /\ app' = [app EXCEPT ![w].handoff = link]
           /\ screen' = [screen EXCEPT ![w] = Complete(TopOf(w), app'[w])]
    BY <1>9 DEF LinkFrame
  <2> DEFINE b == [a EXCEPT !.handoff = link]
  <2>2. overrode' = overrode /\ clipboard' = clipboard /\ AreaOf(a) = "scene"
    BY <1>9 DEF LinkFrame
  <2>3. link \in Links
    BY <1>0, AppParts
  <2>4. /\ b \in Apps /\ b.fetch = a.fetch /\ b.chrome = a.chrome /\ b.top = a.top
        /\ b.handoff = link /\ b.canary_override = a.canary_override
        /\ LinksOf(b) = LinksOf(a)
    BY <1>0, <2>3 DEF Apps, LinksOf
  <2>5. a.fetch.canary = "Expired" => a.canary_override
    BY <1>4, <2>2 DEF AreaOf, RenderBlocked, CanaryExpired
  <2>6. Fits(v, b, Complete(Top(v, a), b), b.canary_override)
    BY <1>0, <1>1, <2>1, <2>4, <2>5, OpenFrameFits
  <2>7. app'[w] = b
    BY <2>1, <1>6
  <2>8. screen'[w] = Complete(Top(v, a), b) /\ win'[w] = v
    BY <2>1, <2>7, <1>1, <1>3, <1>6
  <2>9. Fits(win'[w], app'[w], screen'[w], w \in overrode')
    BY <2>2, <2>4, <2>6, <2>7, <2>8, <1>2 DEF Fits
  <2>10. app' = [app EXCEPT ![w] = app'[w]] /\ screen' = [screen EXCEPT ![w] = screen'[w]]
    BY <2>1, <1>6 DEF ViewInv
  <2>11. QED
    BY <2>2, <2>9, <2>10, <1>5, <1>6, StepKeepsViews
<1>10. CASE DialogFrame(w)
  <2> DEFINE b == [a EXCEPT !.handoff = None]
  <2>1. /\ app' = [app EXCEPT ![w].handoff = None]
        /\ overrode' = overrode /\ clipboard' \in {clipboard, a.handoff}
        /\ screen' = [screen EXCEPT ![w] = Complete(Top(v, a), a)]
    BY <1>10, <1>1 DEF DialogFrame
  <2>2. /\ b \in Apps /\ b.fetch = a.fetch /\ b.chrome = a.chrome /\ b.top = a.top
        /\ b.handoff = None /\ b.canary_override = a.canary_override
    BY <1>0 DEF Apps
  <2>3. Fits(v, b, Complete(Top(v, a), a), b.canary_override)
    BY <1>0, <1>1, <1>2, <2>2, OpenFrameFits
  <2>4. screen'[w] = Complete(Top(v, a), a) /\ app'[w] = b /\ win'[w] = v
    BY <2>1, <1>3, <1>6
  <2>5. Fits(win'[w], app'[w], screen'[w], w \in overrode')
    BY <2>1, <2>2, <2>3, <2>4, <1>2 DEF Fits
  <2>6. app' = [app EXCEPT ![w] = app'[w]] /\ screen' = [screen EXCEPT ![w] = screen'[w]]
    BY <2>1, <1>6 DEF ViewInv
  <2>7. clipboard' \in Links \cup {None}
    BY <2>1, <1>0, <1>6, AppParts
  <2>8. QED
    BY <2>1, <2>5, <2>6, <2>7, <1>5, <1>6, StepKeepsViews
<1>11. QED
  BY <1>7, <1>8, <1>9, <1>10

LEMMA ReloadOpens ==
    ASSUME TypeOK, NEW w \in Windows, Reload(w)
    PROVE  /\ win[w].pc = "reload" /\ win'[w].pc = "open" /\ SameView(win'[w], win[w])
           /\ win'[w].prompt = IF win[w].decision = "None" THEN win[w].prompt ELSE "None"
           /\ \A z \in Windows : z # w => win'[z] = win[z]
<1> DEFINE v == win[w]
<1>1. PICK snapshot \in Snapshots(v) :
         win' = [win EXCEPT ![w] = [v EXCEPT
                   !.pc = "open", !.retained = snapshot,
                   !.prompt = IF v.decision = "None" THEN @ ELSE "None"]]
  BY DEF Reload
<1>2. v \in WindowStates /\ DOMAIN win = Windows
  BY DEF TypeOK
<1>3. win'[w] = [v EXCEPT !.pc = "open", !.retained = snapshot,
                          !.prompt = IF v.decision = "None" THEN @ ELSE "None"]
  BY <1>1, <1>2
<1>4. \A z \in Windows : z # w => win'[z] = win[z]
  BY <1>1, <1>2
<1>5. v.pc = "reload"
  BY DEF Reload
<1>6. QED
  BY <1>2, <1>3, <1>4, <1>5 DEF WindowStates, SameView

\* The steps of build and of persist, and the end of the process.
LEMMA ProcessSteps ==
    ASSUME TypeOK, WindowInv, ViewInv, NEW w \in Windows,
           \/ Fetch(w) \/ Load(w) \/ LoadFails(w) \/ Persist(w) \/ Start(w) \/ Exit(w)
    PROVE  ViewInv'
<1> DEFINE v == win[w]
           a == app[w]
           s == screen[w]
<1>0. /\ v \in WindowStates /\ a \in Apps
      /\ Fits(v, a, s, w \in overrode)
      /\ DOMAIN app = Windows /\ DOMAIN screen = Windows /\ DOMAIN win = Windows
      /\ clipboard \in Links \cup {None} /\ overrode \in SUBSET Windows
      /\ app = [app EXCEPT ![w] = a] /\ screen = [screen EXCEPT ![w] = s]
  BY DEF TypeOK, ViewInv, ViewOK
<1>1. ~Running(IdleWindow) /\ Fits(IdleWindow, IdleApp, Blank, FALSE)
  <2>1. ~Running(IdleWindow)
    BY DEF IdleWindow, Running
  <2>2. QED
    BY <2>1, IdleFits, BlankFacts
<1>2. CASE Fetch(w)
  <2>1. PICK fetch \in Fetches(ContentDocuments) :
           app' = [app EXCEPT ![w] = [IdleApp EXCEPT !.fetch = fetch]]
    BY <1>2 DEF Fetch
  <2> DEFINE b == [IdleApp EXCEPT !.fetch = fetch]
  <2>2. /\ v.pc = "idle" /\ win'[w].pc = "loading"
        /\ \A z \in Windows : z # w => win'[z] = win[z]
        /\ UNCHANGED <<screen, clipboard, overrode>>
    <3>1. PICK x \in Sites, m \in Manifests : Launch(w, x, m)
      BY <1>2 DEF Fetch
    <3>2. UNCHANGED <<screen, clipboard, overrode>>
      BY <1>2 DEF Fetch
    <3>3. QED
      BY <1>0, <3>1, <3>2 DEF Launch, IdleWindow
  <2>3. ~Running(v) /\ ~Running(win'[w])
    BY <2>2 DEF Running
  <2>4. s = Blank /\ ~(w \in overrode)
    BY <2>3, <1>0 DEF Fits
  <2>5. b \in Apps /\ b.handoff = None /\ ~b.top.drawn /\ ~b.canary_override
    BY <2>1, BlankFacts DEF Apps
  <2>6. Fits(win'[w], b, Blank, FALSE)
    BY <2>3, <2>5, IdleFits
  <2>7. app'[w] = b /\ screen'[w] = Blank /\ ~(w \in overrode')
    BY <2>1, <2>2, <2>4, <1>0
  <2>8. Fits(win'[w], app'[w], screen'[w], w \in overrode')
    BY <2>6, <2>7, <2>5 DEF Fits
  <2>9. app' = [app EXCEPT ![w] = app'[w]] /\ screen' = [screen EXCEPT ![w] = screen'[w]]
    BY <2>1, <2>2, <2>7, <1>0
  <2>10. QED
    BY <2>2, <2>8, <2>9, <1>0, StepKeepsViews
<1>3. CASE Load(w)
  <2> DEFINE u == win'[w]
             r == Resolve(v.manifest.pub, v.retained, "None")
  <2>1. /\ v.pc = "loading" /\ v.manifest.site = v.site /\ ~Rejected(w)
        /\ app' = [app EXCEPT ![w].chrome =
                      Chrome(win'[w].shown, app[w].fetch.canary, DefaultConditions)]
        /\ UNCHANGED <<screen, clipboard, overrode>>
    BY <1>3 DEF Load, LoadAccepted
  <2>2. /\ \A z \in Windows : z # w => win'[z] = win[z]
        /\ u.pc = PersistFrom(r.intent) /\ u.shown = r.state /\ u.prompt = r.action
        /\ u.warned = IF r.action = "MismatchWarning" THEN v.retained.pubkey ELSE None
        /\ u.manifest = v.manifest /\ u.site = v.site
    BY <1>3, <1>0 DEF Load, LoadAccepted, WindowStates
  <2>3. v.manifest \in Manifests /\ v.retained \in MaybeRetained
    BY <1>0, <2>1 DEF WindowInv, WindowOK, WindowStates
  <2>4. v.manifest.pub \in Publishers
    BY <2>3, ManifestsAssumption
  <2>5. r.state \in TrustStates
    BY <2>3, <2>4, ResolveType DEF UserDecisions
  <2>6. Asks(r.action, r.state)
    BY ActionFitsState
  <2>7. /\ Running(u) /\ Asks(u.prompt, u.shown) /\ u.shown \in TrustStates
        /\ u.warned # None => u.shown = "ChangedMismatch"
    BY <2>2, <2>5, <2>6 DEF Running, PersistFrom, Asks
  <2>8. Verified(a.fetch, u.manifest) /\ u.manifest.site = u.site
    BY <2>1, <2>2 DEF Rejected, VerifyManifest, VerifyContent, Verified
  <2>9. app'[w] = [a EXCEPT !.chrome = Chrome(u.shown, a.fetch.canary, DefaultConditions)]
    BY <2>1, <1>0
  <2>10. Fits(u, app'[w], s, w \in overrode)
    BY <2>1, <2>7, <2>8, <2>9, <1>0, LoadFits
  <2>11. app' = [app EXCEPT ![w] = app'[w]]
    BY <2>1, <1>0
  <2>12. QED
    BY <2>1, <2>2, <2>10, <2>11, <1>0, StepKeepsViews
<1>4. CASE LoadFails(w)
  <2>1. /\ v.pc = "loading" /\ win'[w] = IdleWindow
        /\ \A z \in Windows : z # w => win'[z] = win[z]
        /\ app' = [app EXCEPT ![w] = IdleApp]
        /\ UNCHANGED <<screen, clipboard, overrode>>
    BY <1>4, <1>0 DEF LoadFails, LoadRejected
  <2>2. s = Blank /\ ~(w \in overrode)
    BY <2>1, <1>0 DEF Fits, Running
  <2>3. app'[w] = IdleApp /\ screen'[w] = Blank /\ ~(w \in overrode')
    BY <2>1, <2>2, <1>0
  <2>4. Fits(win'[w], app'[w], screen'[w], w \in overrode')
    BY <2>1, <2>3, <1>1, BlankFacts DEF Fits
  <2>5. app' = [app EXCEPT ![w] = app'[w]] /\ screen' = [screen EXCEPT ![w] = screen'[w]]
    BY <2>1, <2>3, <1>0
  <2>6. QED
    BY <2>1, <2>4, <2>5, <1>0, StepKeepsViews
<1>5. CASE Persist(w)
  <2>1. /\ v.pc \in PersistPoints /\ win'[w].pc \in PersistPoints
        /\ SameView(win'[w], v) /\ win'[w].prompt = v.prompt
        /\ \A z \in Windows : z # w => win'[z] = win[z]
    <3>1. CASE ReadIdentity(w)
      BY <3>1, <1>0 DEF ReadIdentity, WindowStates, PersistPoints, SameView
    <3>2. CASE WriteIdentity(w)
      BY <3>2, <1>0 DEF WriteIdentity, WindowStates, PersistPoints, SameView
    <3>3. CASE ReadHistory(w)
      BY <3>3, <1>0 DEF ReadHistory, WindowStates, PersistPoints, SameView
    <3>4. CASE WriteHistory(w)
      BY <3>4, <1>0 DEF WriteHistory, WindowStates, PersistPoints, SameView
    <3>5. CASE PersistFails(w)
      BY <3>5, <1>0 DEF PersistFails, WindowStates, PersistPoints, SameView
    <3>6. QED
      BY <1>5, <3>1, <3>2, <3>3, <3>4, <3>5 DEF Persist
  <2>2. UNCHANGED uiVars
    BY <1>5 DEF Persist
  <2>3. Fits(win'[w], a, s, w \in overrode)
    BY <2>1, <1>0, PersistFits
  <2>4. QED
    BY <2>1, <2>2, <2>3, <1>0, StepKeepsViews DEF uiVars
<1>6. CASE Start(w)
  <2>1. /\ v.pc = "reload" /\ ~a.top.drawn /\ UNCHANGED uiVars
        /\ win'[w].pc = "open" /\ SameView(win'[w], v)
        /\ win'[w].prompt = IF v.decision = "None" THEN v.prompt ELSE "None"
        /\ \A z \in Windows : z # w => win'[z] = win[z]
    BY <1>6, ReloadOpens DEF Start
  <2>2. Fits(win'[w], a, s, w \in overrode)
    BY <2>1, <1>0, StartFits
  <2>3. QED
    BY <2>1, <2>2, <1>0, StepKeepsViews DEF uiVars
<1>7. CASE Exit(w)
  <2>1. /\ win'[w] = IdleWindow
        /\ \A z \in Windows : z # w => win'[z] = win[z]
        /\ app' = [app EXCEPT ![w] = IdleApp]
        /\ screen' = [screen EXCEPT ![w] = Blank]
        /\ overrode' = overrode \ {w} /\ clipboard' = clipboard
    BY <1>7, <1>0 DEF Exit, Quit, Crash
  <2>2. app'[w] = IdleApp /\ screen'[w] = Blank /\ ~(w \in overrode')
    BY <2>1, <1>0
  <2>3. Fits(win'[w], app'[w], screen'[w], w \in overrode')
    BY <2>1, <2>2, <1>1, BlankFacts DEF Fits
  <2>4. app' = [app EXCEPT ![w] = app'[w]] /\ screen' = [screen EXCEPT ![w] = screen'[w]]
    BY <2>1, <2>2, <1>0
  <2>5. overrode' \in SUBSET Windows
        /\ \A z \in Windows : z # w => (z \in overrode' <=> z \in overrode)
    BY <2>1, <1>0
  <2>6. QED
    BY <2>1, <2>3, <2>4, <2>5, <1>0, StepKeepsViews
<1>8. QED
  BY <1>2, <1>3, <1>4, <1>5, <1>6, <1>7

\* The frames of a decision.
LEMMA DecisionFrames ==
    ASSUME TypeOK, WindowInv, ViewInv, NEW w \in Windows,
           DecisionFrame(w) \/ FinishFrame(w) \/ DeclineFrame(w)
    PROVE  ViewInv'
<1> DEFINE v == win[w]
           a == app[w]
           s == screen[w]
<1>0. /\ v \in WindowStates /\ a \in Apps
      /\ Fits(v, a, s, w \in overrode)
      /\ DOMAIN app = Windows /\ DOMAIN screen = Windows /\ DOMAIN win = Windows
      /\ clipboard \in Links \cup {None} /\ overrode \in SUBSET Windows
      /\ app = [app EXCEPT ![w] = a] /\ screen = [screen EXCEPT ![w] = s]
      /\ TopOf(w) = Top(v, a)
  BY DEF TypeOK, ViewInv, ViewOK, TopOf, Top
<1>1. CASE DecisionFrame(w)
  <2> DEFINE u == win'[w]
  <2>1. PICK decision \in UserDecisions : Decide(w, decision)
    BY <1>1 DEF DecisionFrame
  <2> DEFINE r == Resolve(v.manifest.pub, v.retained, decision)
  <2>2. decision # "None"
    BY <2>1 DEF Decide, Offered
  <2>3. /\ v.pc = "open"
        /\ \A z \in Windows : z # w => win'[z] = win[z]
        /\ u.pc = PersistFrom(r.intent) /\ u.shown = r.state
        /\ u.decision = decision
        /\ u.manifest = v.manifest /\ u.site = v.site
    <3>1. /\ v.pc = "open"
          /\ win' = [win EXCEPT ![w] = [v EXCEPT
                       !.pc = PersistFrom(r.intent), !.shown = r.state,
                       !.required = r.action, !.intent = r.intent,
                       !.decision = decision, !.failed = FALSE]]
      BY <2>1 DEF Decide
    <3>2. u = [v EXCEPT !.pc = PersistFrom(r.intent), !.shown = r.state,
                        !.required = r.action, !.intent = r.intent,
                        !.decision = decision, !.failed = FALSE]
      BY <3>1, <1>0
    <3>3. \A z \in Windows : z # w => win'[z] = win[z]
      BY <3>1, <1>0
    <3>4. QED
      BY <3>1, <3>2, <3>3, <1>0 DEF WindowStates
  <2>4. v.manifest \in Manifests /\ v.retained \in MaybeRetained
    BY <1>0, <2>3 DEF WindowInv, WindowOK, WindowStates
  <2>5. v.manifest.pub \in Publishers
    BY <2>4, ManifestsAssumption
  <2>6. u.shown \in TrustStates
    BY <2>3, <2>4, <2>5, ResolveType
  <2>7. u.pc \in PersistPoints
    BY <2>3 DEF PersistFrom, PersistPoints
  <2>8. /\ app' = [app EXCEPT ![w].top = Top(v, a),
                              ![w].chrome = Chrome(u.shown, a.fetch.canary, DefaultConditions)]
        /\ UNCHANGED <<screen, clipboard, overrode>>
    BY <1>1, <1>0 DEF DecisionFrame
  <2>9. app'[w] = [a EXCEPT !.top = Top(v, a),
                            !.chrome = Chrome(u.shown, a.fetch.canary, DefaultConditions)]
    BY <2>8, <1>0
  <2>10. Fits(u, app'[w], s, w \in overrode)
    <3> HIDE DEF u, r
    <3>1. u.decision # "None" /\ u.manifest = v.manifest /\ u.site = v.site /\ v.pc = "open"
      BY <2>2, <2>3
    <3>2. Fits(u, [a EXCEPT !.top = Top(v, a),
                            !.chrome = Chrome(u.shown, a.fetch.canary, DefaultConditions)],
               s, w \in overrode)
      BY <3>1, <2>6, <2>7, <1>0, DecisionFits
    <3>3. QED
      BY <3>2, <2>9
  <2>11. app' = [app EXCEPT ![w] = app'[w]]
    BY <2>8, <1>0
  <2>12. QED
    BY <2>3, <2>8, <2>10, <2>11, <1>0, StepKeepsViews
<1>2. CASE FinishFrame(w)
  <2>1. /\ v.pc = "reload" /\ a.top.drawn
        /\ app' = [app EXCEPT ![w].top = NoTop]
        /\ screen' = [screen EXCEPT ![w] = Complete(a.top, a)]
        /\ UNCHANGED <<clipboard, overrode>>
        /\ win'[w].pc = "open" /\ SameView(win'[w], v)
        /\ win'[w].prompt = IF v.decision = "None" THEN v.prompt ELSE "None"
        /\ \A z \in Windows : z # w => win'[z] = win[z]
    BY <1>2, ReloadOpens DEF FinishFrame
  <2>2. win'[w].prompt = "None"
    BY <2>1, <1>0 DEF Fits
  <2>3. app'[w] = [a EXCEPT !.top = NoTop] /\ screen'[w] = Complete(a.top, a)
    BY <2>1, <1>0
  <2>4. Fits(win'[w], app'[w], screen'[w], w \in overrode)
    BY <2>1, <2>2, <2>3, <1>0, FinishFits
  <2>5. app' = [app EXCEPT ![w] = app'[w]] /\ screen' = [screen EXCEPT ![w] = screen'[w]]
    BY <2>1, <1>0
  <2>6. QED
    BY <2>1, <2>4, <2>5, <1>0, StepKeepsViews
<1>3. CASE DeclineFrame(w)
  <2>1. /\ v.pc = "open" /\ win' = [win EXCEPT ![w].prompt = "None"]
        /\ screen' = [screen EXCEPT ![w] = Complete(Top(v, a), a)]
        /\ UNCHANGED <<app, clipboard, overrode>>
    BY <1>3, <1>0 DEF DeclineFrame, Decline
  <2>2. /\ win'[w].pc = "open" /\ SameView(win'[w], v)
        /\ win'[w].prompt \in {v.prompt, "None"}
        /\ \A z \in Windows : z # w => win'[z] = win[z]
    BY <2>1, <1>0 DEF WindowStates, SameView
  <2>3. /\ a.canary_override <=> w \in overrode
        /\ a.handoff # None =>
              /\ External(a.handoff) /\ a.handoff \in LinksOf(a)
              /\ a.fetch.canary = "Expired" => a.canary_override
    BY <1>0 DEF Fits
  <2>4. Fits(win'[w], a, Complete(Top(v, a), a), a.canary_override)
    BY <2>1, <2>2, <2>3, <1>0, OpenFrameFits
  <2>5. app'[w] = a /\ screen'[w] = Complete(Top(v, a), a)
    BY <2>1, <1>0
  <2>6. Fits(win'[w], app'[w], screen'[w], w \in overrode')
    BY <2>1, <2>3, <2>4, <2>5 DEF Fits
  <2>7. app' = [app EXCEPT ![w] = app'[w]] /\ screen' = [screen EXCEPT ![w] = screen'[w]]
    BY <2>1, <2>5, <1>0
  <2>8. QED
    BY <2>1, <2>2, <2>6, <2>7, <1>0, StepKeepsViews
<1>4. QED
  BY <1>1, <1>2, <1>3

LEMMA ViewInvStep == TypeOK /\ WindowInv /\ ViewInv /\ [ViewNext]_viewVars => ViewInv'
<1> SUFFICES ASSUME TypeOK, WindowInv, ViewInv, [ViewNext]_viewVars PROVE ViewInv'
  OBVIOUS
<1>1. CASE UNCHANGED viewVars
  BY <1>1 DEF viewVars, vars, uiVars, ViewInv, ViewOK
<1>2. CASE ViewNext
  BY <1>2, QuietFrames, ProcessSteps, DecisionFrames DEF ViewNext
<1>3. QED
  BY <1>1, <1>2

THEOREM ViewInvariance == ViewSpec => [](TypeOK /\ WindowInv /\ ViewInv)
<1>1. IInv => TypeOK /\ WindowInv
  BY DEF IInv
<1>2. QED
  BY <1>1, ViewerRunsSessions, Invariance, ViewInvInit, ViewInvStep, PTL DEF ViewSpec

----------------------------------------------------------------------------
\* What is on screen, when something is: the view of a running window.
LEMMA OnScreen ==
    ASSUME TypeOK, ViewInv, NEW w \in Windows, screen[w] # Blank
    PROVE  /\ Running(win[w]) /\ app[w] \in Apps
           /\ screen[w].chrome.trust_state \in TrustStates
           /\ TopOK(screen[w].chrome, screen[w].panel, app[w].fetch.canary)
           /\ app[w].fetch.canary \in CanaryStates
<1>1. Fits(win[w], app[w], screen[w], w \in overrode)
  BY DEF ViewInv, ViewOK
<1>2. app[w] \in Apps /\ screen[w] \in Screens
  BY <1>1 DEF Fits
<1>3. screen[w].chrome \in ChromeViews
  BY <1>2 DEF Screens
<1>4. QED
  BY <1>1, <1>2, <1>3, AppParts DEF Fits, ChromeViews

\* The values of the window's variables; half a frame is only ever left while
\* its decision is being persisted.
THEOREM ViewTypeCorrect == ViewSpec => []ViewTypeOK
<1>1. ViewInv => ViewTypeOK
  BY DEF ViewInv, ViewOK, Fits, ViewTypeOK
<1>2. QED
  BY <1>1, ViewInvariance, PTL

\* The content of an expired canary, and a dialog about one of its links, are
\* shown only after the override, with the notice and the warning.
THEOREM ExpiredContentOverridden == ViewSpec => []ExpiredNeedsOverride
<1>1. ASSUME TypeOK, ViewInv PROVE ExpiredNeedsOverride
  <2> SUFFICES ASSUME NEW w \in Windows, app[w].fetch.canary = "Expired",
                      screen[w].area = "scene" \/ screen[w].dialog # None
               PROVE  /\ w \in overrode /\ screen[w].notice
                      /\ "CanaryExpired" \in screen[w].chrome.warnings
    BY DEF ExpiredNeedsOverride
  <2>1. screen[w] # Blank
    BY BlankFacts
  <2>2. Fits(win[w], app[w], screen[w], w \in overrode)
    BY <1>1 DEF ViewInv, ViewOK
  <2>3. app[w].canary_override /\ screen[w].notice /\ w \in overrode
    BY <2>1, <2>2 DEF Fits
  <2>4. /\ screen[w].chrome.trust_state \in TrustStates
        /\ screen[w].chrome = Chrome(screen[w].chrome.trust_state, app[w].fetch.canary,
                                     DefaultConditions)
        /\ app[w].fetch.canary \in CanaryStates
    BY <1>1, <2>1, OnScreen DEF TopOK
  <2>5. "CanaryExpired" \in screen[w].chrome.warnings
    BY <2>4, ChromeFacts
  <2>6. QED
    BY <2>3, <2>5
<1>2. QED
  BY <1>1, ViewInvariance, PTL

\* The mismatch warning stays in the chrome until the user confirms a key.
THEOREM MismatchWarningStays == ViewSpec => []MismatchStaysWarned
<1>1. ASSUME TypeOK, ViewInv PROVE MismatchStaysWarned
  <2> SUFFICES ASSUME NEW w \in Windows, win[w].warned # None,
                      win[w].decision = "None", screen[w] # Blank
               PROVE  "TrustMismatch" \in screen[w].chrome.warnings
    BY DEF MismatchStaysWarned
  <2>1. Fits(win[w], app[w], screen[w], w \in overrode)
    BY <1>1 DEF ViewInv, ViewOK
  <2>2. /\ Running(win[w])
        /\ screen[w].chrome = Chrome(screen[w].chrome.trust_state, app[w].fetch.canary,
                                     DefaultConditions)
        /\ app[w].fetch.canary \in CanaryStates
    BY <1>1, OnScreen DEF TopOK
  <2>3. screen[w].chrome.trust_state = "ChangedMismatch"
    BY <2>1, <2>2 DEF Fits
  <2>4. QED
    BY <2>2, <2>3, ChromeFacts DEF TrustStates
<1>2. QED
  BY <1>1, ViewInvariance, PTL

\* A panel asks about the trust the chrome above it shows, the PIP in full.
THEOREM PanelsAgree == ViewSpec => []PanelMatchesChrome
<1>1. ASSUME TypeOK, ViewInv PROVE PanelMatchesChrome
  <2> SUFFICES ASSUME NEW w \in Windows, screen[w].panel # NoPanel
               PROVE  /\ screen[w].chrome.pip_must_be_fully_shown
                      /\ screen[w].chrome.trust_state =
                            IF screen[w].panel.prompt = "PinPrompt"
                            THEN "FirstContact" ELSE "ChangedMismatch"
    BY DEF PanelMatchesChrome
  <2>1. screen[w] # Blank
    BY BlankFacts
  <2>2. /\ screen[w].chrome.trust_state \in TrustStates
        /\ screen[w].chrome = Chrome(screen[w].chrome.trust_state, app[w].fetch.canary,
                                     DefaultConditions)
        /\ app[w].fetch.canary \in CanaryStates
        /\ Asks(screen[w].panel.prompt, screen[w].chrome.trust_state)
        /\ screen[w].panel.prompt # "None"
    BY <1>1, <2>1, OnScreen DEF TopOK
  <2>3. screen[w].panel.prompt \in RequiredActions
    BY <1>1 DEF ViewInv, Screens, Panels
  <2>4. screen[w].chrome.trust_state =
           IF screen[w].panel.prompt = "PinPrompt" THEN "FirstContact" ELSE "ChangedMismatch"
    BY <2>2, <2>3 DEF Asks, RequiredActions
  <2>5. QED
    BY <2>2, <2>4, ChromeFacts
<1>2. QED
  BY <1>1, ViewInvariance, PTL

\* The clipboard gets the link the dialog named, one that leaves Entangled.
THEOREM ClipboardFollowsDialog == ViewSpec => CopiesWhatWasSeen
<1>1. ASSUME TypeOK, ViewInv, [ViewNext]_viewVars, clipboard' # clipboard
      PROVE  \E w \in Windows :
                /\ screen[w].dialog = clipboard'
                /\ External(clipboard')
                /\ clipboard' \in LinksOf(app[w])
  <2>1. PICK w \in Windows : DialogFrame(w)
    <3>1. ViewNext
      BY <1>1 DEF viewVars, uiVars
    <3>2. QED
      BY <1>1, <3>1 DEF ViewNext, Fetch, Load, LoadFails, Persist, Start, DecisionFrame,
         FinishFrame, DeclineFrame, IdleFrame, OverrideFrame, LinkFrame, Exit, uiVars
  <2>2. /\ app[w].handoff # None /\ screen[w].dialog # None
        /\ clipboard' = app[w].handoff
    BY <1>1, <2>1 DEF DialogFrame
  <2>3. Fits(win[w], app[w], screen[w], w \in overrode)
    BY <1>1 DEF ViewInv, ViewOK
  <2>4. QED
    BY <2>2, <2>3 DEF Fits
<1>2. QED
  BY <1>1, ViewInvariance, PTL DEF ViewSpec, CopiesWhatWasSeen

\* No store file changes for documents that did not pass every stage that looks
\* at them, the checks against the history apart.
THEOREM OnlyVerifiedPersisted == ViewSpec => PersistsOnlyVerified
<1>1. ASSUME TypeOK, ViewInv, [ViewNext]_viewVars,
             <<identities, histories>>' # <<identities, histories>>
      PROVE  \E w \in Windows :
                LET fetch == app[w].fetch
                    m == win[w].manifest
                IN  /\ win[w].pc \in PersistPoints
                    /\ fetch.signed /\ ~fetch.content_root /\ fetch.canary # "Invalid"
                    /\ m.site = win[w].site
                    /\ fetch.content # None => fetch.content.signer = m.rk
  <2>1. PICK w \in Windows : WriteIdentity(w) \/ WriteHistory(w)
    <3>1. ViewNext
      BY <1>1 DEF viewVars, vars
    <3>2. \/ Next
          \/ UNCHANGED <<identities, histories>>
      BY <3>1, FrameIsSessionStep DEF vars
    <3>3. CASE identities' # identities
      BY <1>1, <3>2, <3>3, OnlyWriteIdentity
    <3>4. CASE histories' # histories
      BY <1>1, <3>2, <3>4, OnlyWriteHistory
    <3>5. QED
      BY <1>1, <3>3, <3>4
  <2>2. win[w].pc \in PersistPoints
    BY <2>1 DEF WriteIdentity, WriteHistory, PersistPoints
  <2>3. Running(win[w])
    BY <2>2 DEF Running, PersistPoints
  <2>4. Verified(app[w].fetch, win[w].manifest) /\ win[w].manifest.site = win[w].site
    BY <1>1, <2>3 DEF ViewInv, ViewOK, Fits
  <2>5. QED
    BY <2>2, <2>4 DEF Verified
<1>2. QED
  BY <1>1, ViewInvariance, PTL DEF ViewSpec, PersistsOnlyVerified
=============================================================================
