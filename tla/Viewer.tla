------------------------------- MODULE Viewer -------------------------------
(***************************************************************************)
(* The window a user sees: App::update of entangled-client-gui, frame by    *)
(* frame, over the session of ClientSession and the stages of Pipeline.      *)
(*                                                                           *)
(* A frame is drawn top to bottom: the chrome, the decision panel, then what *)
(* was clicked there takes effect, then the content area and the handoff     *)
(* dialog.  A decision writes the store in the middle of its frame, so such  *)
(* a frame is two actions with the steps of persist between them; every      *)
(* other frame is one.  A frame is presented when it is complete.            *)
(*                                                                           *)
(* At most one widget is clicked in a frame, and only one that the frame     *)
(* before had drawn: the toolkit looks for it there.                         *)
(***************************************************************************)
EXTENDS SessionProperties, Pipeline

CONSTANT ContentDocuments   \* the content documents sites may serve

ASSUME ContentAssumption ==
    ContentDocuments \subseteq Contents /\ None \notin Links \cup ContentDocuments

VARIABLES
    app,        \* app[w]: what App and Loaded keep besides the session
    screen,     \* screen[w]: the last frame presented
    clipboard,  \* the system clipboard: the last link copied
    overrode    \* history variable: windows whose override the user clicked

uiVars == <<app, screen, clipboard, overrode>>
viewVars == <<vars, uiVars>>

(* The panel of a frame, with the retained key a mismatch panel compares. *)
Panel(prompt, retained) == [prompt |-> prompt, retained |-> retained]
NoPanel == Panel("None", None)
Panels == [prompt : RequiredActions, retained : Publishers \cup {None}]

NoChrome == Chrome("FirstContact", "Unavailable", DefaultConditions)

(* The content area holds the block placeholder, the scene, or only a label. *)
Frame(chrome, panel, area, notice, dialog) ==
    [chrome |-> chrome, panel |-> panel, area |-> area,
     notice |-> notice, dialog |-> dialog]
Blank == Frame(NoChrome, NoPanel, "none", FALSE, None)
Areas == {"none", "block", "scene", "manifestOnly"}
Screens == [chrome : ChromeViews, panel : Panels, area : Areas,
            notice : BOOLEAN, dialog : Links \cup {None}]

(* The top half of a frame whose decision is being persisted. *)
NoTop == [drawn |-> FALSE, chrome |-> NoChrome, panel |-> NoPanel]
Tops == [drawn : BOOLEAN, chrome : ChromeViews, panel : Panels]

NoFetch == [signed |-> FALSE, canary |-> "Invalid", content_root |-> FALSE, content |-> None]
IdleApp ==
    [fetch |-> NoFetch, chrome |-> NoChrome, canary_override |-> FALSE,
     handoff |-> None, top |-> NoTop]
Apps ==
    [fetch : Fetches(ContentDocuments), chrome : ChromeViews, canary_override : BOOLEAN,
     handoff : Links \cup {None}, top : Tops]

ViewInit ==
    /\ Init
    /\ app = [w \in Windows |-> IdleApp]
    /\ screen = [w \in Windows |-> Blank]
    /\ clipboard = None
    /\ overrode = {}

----------------------------------------------------------------------------
(* The scene is None when no content document was given. *)
LinksOf(a) == IF a.fetch.content = None THEN {} ELSE a.fetch.content.links

CanaryExpired(a) == a.chrome.canary_state = "Expired"

(* render_block_active *)
RenderBlocked(a) == CanaryExpired(a) /\ ~a.canary_override

AreaOf(a) ==
    IF RenderBlocked(a) THEN "block"
    ELSE IF a.fetch.content = None THEN "manifestOnly" ELSE "scene"

(* The frame with this top half, in the state a, dialog included. *)
Complete(top, a) ==
    Frame(top.chrome, top.panel, AreaOf(a),
          CanaryExpired(a) /\ a.canary_override, a.handoff)

(* What the top half of a frame of window w shows now. *)
TopOf(w) ==
    [drawn |-> TRUE, chrome |-> app[w].chrome,
     panel |-> IF win[w].prompt = "None" THEN NoPanel
               ELSE Panel(win[w].prompt, win[w].warned)]

(* external_handoff: the other kinds are drawn as plain labels. *)
External(link) == link.kind \in {"Carrier", "Citation"}

----------------------------------------------------------------------------
(* The process starts and reads the manifest and content files. *)
Fetch(w) ==
    /\ \E x \in Sites, m \in Manifests : Launch(w, x, m)
    /\ \E fetch \in Fetches(ContentDocuments) :
          app' = [app EXCEPT ![w] = [IdleApp EXCEPT !.fetch = fetch]]
    /\ UNCHANGED <<screen, clipboard, overrode>>

Rejected(w) ==
    \/ VerifyManifest(win[w].manifest, app[w].fetch, win[w].site,
                      histories[win[w].manifest.pub]) # "Accept"
    \/ VerifyContent(app[w].fetch, win[w].manifest) # "Accept"

(* load accepts both documents and builds the chrome for the state it found. *)
Load(w) ==
    /\ LoadAccepted(w)
    /\ ~Rejected(w)
    /\ app' = [app EXCEPT ![w].chrome =
                  Chrome(win'[w].shown, app[w].fetch.canary, DefaultConditions)]
    /\ UNCHANGED <<screen, clipboard, overrode>>

(* build fails: a stage rejects, or a store file cannot be read. *)
LoadFails(w) ==
    /\ LoadRejected(w)
    /\ Rejected(w) \/ "io" \in Faults
    /\ app' = [app EXCEPT ![w] = IdleApp]
    /\ UNCHANGED <<screen, clipboard, overrode>>

(* The steps of persist draw nothing. *)
Persist(w) ==
    /\ \/ ReadIdentity(w) \/ WriteIdentity(w)
       \/ ReadHistory(w) \/ WriteHistory(w) \/ PersistFails(w)
    /\ UNCHANGED uiVars

(* App::new ends: nothing has been drawn yet. *)
Start(w) ==
    /\ Reload(w)
    /\ ~app[w].top.drawn
    /\ UNCHANGED uiVars

Clickable(w, prompt) ==
    win[w].prompt = prompt /\ screen[w].panel.prompt = prompt

(* Fault variant: the new chrome is presented before persist has written. *)
FaultShowsAhead(w) ==
    /\ \E decision \in UserDecisions : Decide(w, decision)
    /\ Clickable(w, win[w].prompt)
    /\ LET ahead == Chrome(win'[w].shown, app[w].fetch.canary, DefaultConditions)
       IN  /\ app' = [app EXCEPT ![w].top = TopOf(w), ![w].chrome = ahead]
           /\ screen' = [screen EXCEPT ![w].chrome = ahead]
    /\ UNCHANGED <<clipboard, overrode>>

(* A frame in which a button of the panel is clicked: the top half is drawn, *)
(* apply_decision rebuilds the chrome, persist begins.                       *)
DecisionFrame(w) ==
    /\ \E decision \in UserDecisions : Decide(w, decision)
    /\ Clickable(w, win[w].prompt)
    /\ app' = [app EXCEPT ![w].top = TopOf(w),
                          ![w].chrome = Chrome(win'[w].shown, app[w].fetch.canary,
                                               DefaultConditions)]
    /\ UNCHANGED <<screen, clipboard, overrode>>

(* Fault variant: the drawn half is not dropped with its frame. *)
FaultKeepsTop(w) ==
    /\ Reload(w)
    /\ app[w].top.drawn
    /\ screen' = [screen EXCEPT ![w] = Complete(app[w].top, app[w])]
    /\ UNCHANGED <<app, clipboard, overrode>>

(* apply_and_persist returns and the rest of that frame is drawn. *)
FinishFrame(w) ==
    /\ Reload(w)
    /\ app[w].top.drawn
    /\ app' = [app EXCEPT ![w].top = NoTop]
    /\ screen' = [screen EXCEPT ![w] = Complete(app[w].top, app[w])]
    /\ UNCHANGED <<clipboard, overrode>>

(* "Not now" and "Cancel (stay in mismatch)". *)
DeclineFrame(w) ==
    /\ Decline(w)
    /\ Clickable(w, win[w].prompt)
    /\ screen' = [screen EXCEPT ![w] = Complete(TopOf(w), app[w])]
    /\ UNCHANGED <<app, clipboard, overrode>>

(* Fault variant: the block is lifted once it has been shown. *)
FaultPassiveOverride(w) ==
    /\ win[w].pc = "open"
    /\ screen' = [screen EXCEPT ![w] = Complete(TopOf(w), app[w])]
    /\ app' = [app EXCEPT ![w].canary_override = @ \/ screen[w].area = "block"]
    /\ UNCHANGED <<vars, clipboard, overrode>>

(* A frame without a click. *)
IdleFrame(w) ==
    /\ win[w].pc = "open"
    /\ screen' = [screen EXCEPT ![w] = Complete(TopOf(w), app[w])]
    /\ UNCHANGED <<vars, app, clipboard, overrode>>

(* "Show content for this session": this frame still draws the placeholder. *)
OverrideFrame(w) ==
    /\ win[w].pc = "open"
    /\ RenderBlocked(app[w]) /\ screen[w].area = "block"
    /\ screen' = [screen EXCEPT ![w] = Complete(TopOf(w), app[w])]
    /\ app' = [app EXCEPT ![w].canary_override = TRUE]
    /\ overrode' = overrode \cup {w}
    /\ UNCHANGED <<vars, clipboard>>

(* Fault variant: the dialog is drawn before the click is taken over. *)
FaultDialogLags(w) ==
    /\ win[w].pc = "open"
    /\ AreaOf(app[w]) = "scene" /\ screen[w].area = "scene"
    /\ \E link \in LinksOf(app[w]) :
          /\ External(link)
          /\ app' = [app EXCEPT ![w].handoff = link]
          /\ screen' = [screen EXCEPT ![w] = Complete(TopOf(w), app[w])]
    /\ UNCHANGED <<vars, clipboard, overrode>>

(* A click on an external link opens the handoff dialog in the same frame,   *)
(* or turns an open one to this link.                                        *)
LinkFrame(w) ==
    /\ win[w].pc = "open"
    /\ AreaOf(app[w]) = "scene" /\ screen[w].area = "scene"
    /\ \E link \in LinksOf(app[w]) :
          /\ External(link)
          /\ app' = [app EXCEPT ![w].handoff = link]
          /\ screen' = [screen EXCEPT ![w] = Complete(TopOf(w), app'[w])]
    /\ UNCHANGED <<vars, clipboard, overrode>>

(* A click in the dialog: the URL is copied, or not; the dialog closes. *)
DialogFrame(w) ==
    /\ win[w].pc = "open"
    /\ app[w].handoff # None /\ screen[w].dialog # None
    /\ clipboard' \in {clipboard, app[w].handoff}
    /\ app' = [app EXCEPT ![w].handoff = None]
    /\ screen' = [screen EXCEPT ![w] = Complete(TopOf(w), app[w])]
    /\ UNCHANGED <<vars, overrode>>

(* The process ends, by the user or by a crash. *)
Exit(w) ==
    /\ Quit(w) \/ Crash(w)
    /\ app' = [app EXCEPT ![w] = IdleApp]
    /\ screen' = [screen EXCEPT ![w] = Blank]
    /\ overrode' = overrode \ {w}
    /\ UNCHANGED clipboard

ViewNext ==
    \E w \in Windows :
       \/ Fetch(w) \/ Load(w) \/ LoadFails(w) \/ Persist(w) \/ Start(w)
       \/ DecisionFrame(w) \/ FinishFrame(w) \/ DeclineFrame(w) \/ IdleFrame(w)
       \/ OverrideFrame(w) \/ LinkFrame(w) \/ DialogFrame(w) \/ Exit(w)

ViewSpec == ViewInit /\ [][ViewNext]_viewVars

----------------------------------------------------------------------------
\* The values the variables of the window range over; half a frame only exists
\* while its decision is being persisted.
ViewTypeOK ==
    /\ app \in [Windows -> Apps]
    /\ screen \in [Windows -> Screens]
    /\ clipboard \in Links \cup {None}
    /\ overrode \subseteq Windows
    /\ \A w \in Windows : app[w].top.drawn => win[w].pc \in PersistPoints

\* Nothing of a publisher whose canary has expired is on screen, neither its
\* content nor a dialog about one of its links, unless the user has clicked
\* the override in this window; and then with the notice and, in the chrome,
\* the warning (main.rs: the override "does not suppress the chrome warning").
ExpiredNeedsOverride ==
    \A w \in Windows :
       LET s == screen[w] IN
       (app[w].fetch.canary = "Expired" /\ (s.area = "scene" \/ s.dialog # None)) =>
          /\ w \in overrode
          /\ s.notice
          /\ "CanaryExpired" \in s.chrome.warnings

\* A window opened on a key other than the retained one shows the mismatch
\* warning in every frame until the user has confirmed the key, declining
\* the panel included (main.rs: "the prompt closes but the chrome keeps
\* showing the state").
MismatchStaysWarned ==
    \A w \in Windows :
       (/\ win[w].warned # None /\ win[w].decision = "None" /\ screen[w] # Blank)
          => "TrustMismatch" \in screen[w].chrome.warnings

\* A panel asks about the state the chrome above it shows, with the whole PIP
\* there to compare (main.rs: "The full PIP is already shown in the chrome
\* above"), in every frame, those drawn around a decision included.
PanelMatchesChrome ==
    \A w \in Windows :
       LET s == screen[w] IN
       s.panel # NoPanel =>
          /\ s.chrome.pip_must_be_fully_shown
          /\ s.chrome.trust_state =
                IF s.panel.prompt = "PinPrompt" THEN "FirstContact" ELSE "ChangedMismatch"

\* Where no other window has the site open, the trust state of a frame presented
\* is what the store retains, unless a store error was reported: a pin or a
\* verification is on screen after its record is in the file and not before,
\* though apply_decision rebuilds the chrome before persist is called (main.rs:
\* "the user should know the decision did not stick").
PresentedTrustIsStored ==
    \A w \in Windows :
       LET v == win[w]
           trust == screen[w].chrome.trust_state
           retained == Retained(identities[v.site])
       IN  (screen[w] # Blank /\ ~v.failed) =>
              /\ trust = "TofuPinned" => retained = Identity(v.manifest.pub, "Pinned")
              /\ trust = "ExternallyVerified" =>
                    retained = Identity(v.manifest.pub, "ExternallyVerified")
              /\ (trust = "ChangedMismatch" /\ v.decision = "None") =>
                    retained # Nothing /\ retained.pubkey # v.manifest.pub

\* What reaches the clipboard is what the dialog on screen named when the
\* user clicked, a link out of Entangled in the content of that window.
CopiesWhatWasSeen ==
    [][clipboard' # clipboard =>
          \E w \in Windows :
             /\ screen[w].dialog = clipboard'
             /\ External(clipboard')
             /\ clipboard' \in LinksOf(app[w])]_viewVars

\* A store file changes only in a window whose manifest and content have
\* passed every stage that looks at the documents themselves: also a content
\* document that fails keeps its manifest's identity out of the store (section
\* 10:215).  The stage that looks at the history is HistoryNewestFirst's and
\* HistoryConsistent's.
PersistsOnlyVerified ==
    [][<<identities, histories>>' # <<identities, histories>> =>
          \E w \in Windows :
             LET fetch == app[w].fetch
                 m == win[w].manifest
             IN  /\ win[w].pc \in PersistPoints
                 /\ fetch.signed /\ ~fetch.content_root /\ fetch.canary # "Invalid"
                 /\ m.site = win[w].site
                 /\ fetch.content # None => fetch.content.signer = m.rk]_viewVars
=============================================================================
