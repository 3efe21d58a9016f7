---------------------------- MODULE PanelLoading ----------------------------
(***************************************************************************)
(* The cover a panel gets while a request is under way                     *)
(* (js/panelLoading.plugin.js), for one panel.                             *)
(*                                                                         *)
(* A load wraps all that is in the panel in a container and puts an        *)
(* overlay and an info panel into it; stopping fades both out and takes    *)
(* the outermost container away when an overlay is gone.  A container is   *)
(* named by the call that made it.  Sizes, colours and texts are left out. *)
(***************************************************************************)
EXTENDS Integers, Sequences, FiniteSets

CONSTANTS
  MaxCalls,   \* calls of panelLoading
  Unset       \* settings.setLoading is null

ASSUME PanelAssumption == MaxCalls \in Nat /\ Unset \notin BOOLEAN

VARIABLES
  baseElement,  \* the panel has the class panel-loading-base-element
  contents,     \* the page put something into the panel
  containers,   \* the nested containers, innermost first
  overlays,     \* [call, fading, in]: in a container, or no longer in one
  infoPanels,   \* [call, fading, in]
  panelCalls,   \* calls so far
  loading       \* what the last call decided

panelVars ==
  << baseElement, contents, containers, overlays, infoPanels, panelCalls, loading >>

Covers == [call : 1..MaxCalls, fading : BOOLEAN, in : 1..MaxCalls]
Fading(covers) == {[c EXCEPT !.fading = TRUE] : c \in covers}

\* What is in no container any more is wrapped with the rest.
Wrapped(covers, call) ==
  {IF \E k \in DOMAIN containers : containers[k] = c.in
     THEN c ELSE [c EXCEPT !.in = call] : c \in covers}
Cover(call) == [call |-> call, fading |-> FALSE, in |-> call]

\* The outermost container has another one, the page's contents or a cover in it.
Filled(covers) ==
  contents \/ Len(containers) > 1 \/ \E c \in covers : c.in = containers[1]

removeLoadStuffAll(covers) ==
  /\ baseElement' = FALSE
  /\ containers' = << >>

\* The contents' parent is taken away: there is none if nothing is in it.
removeLoadStuff(covers) ==
  /\ baseElement' = FALSE
  /\ containers' = IF containers # << >> /\ Filled(covers)
                      THEN SubSeq(containers, 1, Len(containers) - 1) ELSE containers

startLoad ==
  /\ baseElement' = TRUE
  /\ containers' = Append(containers, panelCalls')
  /\ overlays' = Wrapped(overlays, panelCalls') \cup {Cover(panelCalls')}
  /\ infoPanels' = Wrapped(infoPanels, panelCalls') \cup {Cover(panelCalls')}

stopLoadMarked ==
  /\ overlays' = IF baseElement THEN Fading(overlays) ELSE overlays
  /\ infoPanels' = IF baseElement THEN Fading(infoPanels) ELSE infoPanels
  /\ IF overlays = {} THEN removeLoadStuff(infoPanels)
                      ELSE UNCHANGED << baseElement, containers >>

stopLoad ==
  /\ overlays' = Fading(overlays)
  /\ infoPanels' = Fading(infoPanels)
  /\ IF overlays = {} THEN removeLoadStuff(infoPanels)
                      ELSE UNCHANGED << baseElement, containers >>

\* Without setLoading the class says whether the panel is loading.
panelLoading(setLoading) ==
  /\ panelCalls < MaxCalls
  /\ panelCalls' = panelCalls + 1
  /\ loading' = IF setLoading = Unset THEN ~baseElement ELSE setLoading
  /\ IF loading' THEN startLoad ELSE stopLoad
  /\ UNCHANGED contents

OverlayFaded(o) ==
  /\ o \in overlays /\ o.fading
  /\ overlays' = overlays \ {o}
  /\ removeLoadStuff((overlays \ {o}) \cup infoPanels)
  /\ UNCHANGED << contents, infoPanels, panelCalls, loading >>

InfoFaded(i) ==
  /\ i \in infoPanels /\ i.fading
  /\ infoPanels' = infoPanels \ {i}
  /\ UNCHANGED << baseElement, contents, containers, overlays, panelCalls, loading >>

PanelInit ==
  /\ baseElement = FALSE /\ contents \in BOOLEAN
  /\ containers = << >> /\ overlays = {} /\ infoPanels = {}
  /\ panelCalls = 0 /\ loading = FALSE

Fade ==
  \/ \E o \in overlays : OverlayFaded(o)
  \/ \E i \in infoPanels : InfoFaded(i)

PanelNext == Fade \/ \E l \in {TRUE, FALSE, Unset} : panelLoading(l)

PanelSpec == PanelInit /\ [][PanelNext]_panelVars

-----------------------------------------------------------------------------
\* Every variable has its type.
PanelTypeOK ==
  /\ {baseElement, contents, loading} \subseteq BOOLEAN /\ containers \in Seq(1..MaxCalls)
  /\ overlays \subseteq Covers /\ infoPanels \subseteq Covers

\* The innermost container, with nothing in it: taking the parent of its
\* contents away does nothing.
LeftOver ==
  /\ ~contents /\ containers # << >>
  /\ \A c \in overlays \cup infoPanels : c.in # containers[1]

\* There are as many containers as overlays, however loads that start, stop
\* and fade overlap: a late fade takes away one container, not the one a newer
\* load still needs (removeLoadStuff).  Only a panel the page put nothing into
\* may keep a container more, an empty one; never two.
PanelBalanced ==
  \/ Len(containers) = Cardinality(overlays)
  \/ Len(containers) = Cardinality(overlays) + 1 /\ LeftOver

Restored ==
  /\ ~baseElement /\ overlays = {} /\ infoPanels = {}
  /\ contents => containers = << >>

\* A panel that was told to stop is as before in the end, unless it was told
\* to load again (the callbacks of fadeOut): but for the empty container that
\* PanelBalanced allows where the page put nothing into the panel.
PanelRestored == (panelCalls > 0 /\ ~loading) ~> (Restored \/ loading)
=============================================================================
