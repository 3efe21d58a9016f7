------------------------------ MODULE Marathon ------------------------------
(***************************************************************************)
(* The page of applications (marathon/js/marathon.js): the collection of   *)
(* apps, their views, the form in the lightbox and the filter.             *)
(*                                                                         *)
(* A change is shown at once and sent to the server, whose answers may     *)
(* come in any order or be errors.  External: the server, and Backbone,    *)
(* whose models and collections are modelled from the calls made here.     *)
(* Left out: attributes other than id and instances, markup, the echo of   *)
(* the input, the views no page creates (ItemsView, ItemView).             *)
(***************************************************************************)
EXTENDS Integers, SequencesExt

CONSTANTS
  Ids,          \* the names apps can have
  Running,      \* [a set of names -> instances]: the apps the server runs at first
  Scales,       \* numbers of instances a user may ask for
  Texts,        \* the texts of the filter; the empty one is NoText
  NoText,
  NamesWith,     \* text -> the names that contain it
  MaxInputs,    \* requests the user makes and keys typed
  None

ASSUME MarathonAssumption ==
  /\ DOMAIN Running \subseteq Ids /\ IsFiniteSet(DOMAIN Running)
  /\ Running \in [DOMAIN Running -> Nat] /\ Scales \subseteq Nat
  /\ NoText \in Texts /\ NamesWith \in [Texts -> SUBSET Ids] /\ NamesWith[NoText] = Ids
  /\ MaxInputs \in Nat

VARIABLES
  models,        \* the models made so far: [id, instances]
  collection,    \* apps.models
  itemViews,     \* AppItemViews: [model, instances, inList, hidden]
  lis,           \* views the filter knows, or None before it is set up
  lightboxOpen,  \* the form is shown
  inputVal,      \* the text of the filter
  keyTimeout,    \* the filter runs when its timer fires
  keys,          \* keys typed so far
  typed,         \* a key was typed since the filter is set up
  listRequest,   \* fetch: "sent", "handled", "done" or "failed"
  listed,        \* the apps it is answered with
  requests,      \* [n, kind, model, app, status]
  sent,          \* requests sent so far
  server,        \* name -> instances, of the apps it runs
  excuses        \* what has happened that the page does not cope with

listVars == << models, collection, itemViews >>
filterVars == << lis, inputVal, keyTimeout, keys, typed >>
serverVars == << listRequest, listed, requests, sent, server, excuses >>
marathonVars == << listVars, filterVars, lightboxOpen, serverVars >>

Views == DOMAIN itemViews
Clickable(v) == itemViews[v].inList /\ ~itemViews[v].hidden /\ ~lightboxOpen

-----------------------------------------------------------------------------
(* Items and their views.                                                  *)

\* A new model, and its view when the collection takes it: a name it has
\* already is not added again.
NewModel(app) == models' = Append(models, app)
AppItemView(m, app) == [model |-> m, instances |-> app.instances, inList |-> TRUE, hidden |-> FALSE]

\* set('instances', n) on a model renders its views again.
rerender(m, n) ==
  itemViews' = [v \in Views |->
    IF itemViews[v].model = m THEN [itemViews[v] EXCEPT !.instances = n] ELSE itemViews[v]]

\* Item.sync: the app as the model has it now.
sync(kind, m, app) ==
  /\ sent + keys < MaxInputs /\ sent' = sent + 1
  /\ requests' = requests \cup
       {[n |-> sent', kind |-> kind, model |-> m, app |-> app, status |-> "sent"]}

\* Item.scale: the new number is shown and sent.
scaleBefore(m, n) ==
  /\ models' = [models EXCEPT ![m].instances = n]
  /\ rerender(m, n)
  /\ sync("scale", m, models[m])

scale(m, n) ==
  /\ models' = [models EXCEPT ![m].instances = n]
  /\ rerender(m, n)
  /\ sync("scale", m, models'[m])

\* AppItemView.scale, and suspend, which scales to 0.
ScaleClicked(v, n) ==
  /\ Clickable(v)
  /\ scale(itemViews[v].model, n)
  /\ UNCHANGED << collection, filterVars, lightboxOpen, listRequest, listed, server, excuses >>

\* destroy: the app is removed from the list at once.
removed(v) == [itemViews EXCEPT ![v].inList = FALSE]

DestroyClicked(v) ==
  /\ Clickable(v)
  /\ LET m == itemViews[v].model
     IN /\ sync("stop", m, models[m])
        /\ itemViews' = removed(v)
        /\ collection' = collection \ {m}
  /\ UNCHANGED << models, filterVars, lightboxOpen, listRequest, listed, server, excuses >>

-----------------------------------------------------------------------------
(* The form.                                                               *)

\* The lightbox shows its content while its model is open.  Nobody locks it.
openLightbox == lightboxOpen' = TRUE
closeLightbox == lightboxOpen /\ lightboxOpen' = FALSE

\* A new form is put into the lightbox.
addNew ==
  /\ ~lightboxOpen /\ openLightbox
  /\ UNCHANGED << listVars, filterVars, serverVars >>

\* A click beside the form.
dismiss ==
  /\ closeLightbox
  /\ UNCHANGED << listVars, filterVars, serverVars >>

\* FormView.save: collection.create and close.  The button "Cancel" closes the
\* lightbox and, being a submit button, saves all the same.
save(app) ==
  /\ closeLightbox
  /\ NewModel(app)
  /\ LET m == Len(models) + 1
         known == \E k \in collection : models[k].id = app.id
     IN /\ collection' = IF known THEN collection ELSE collection \cup {m}
        /\ itemViews' = IF known THEN itemViews ELSE Append(itemViews, AppItemView(m, app))
        /\ sync("start", m, app)
        /\ excuses' = excuses \cup (IF known THEN {"duplicate"} ELSE {})
  /\ UNCHANGED << filterVars, listRequest, listed, server >>

-----------------------------------------------------------------------------
(* The server, and its answers.                                            *)

\* Requests on the same app that the server has not seen, sent before r.
Earlier(r) == {q \in requests : q.n < r.n /\ q.app.id = r.app.id /\ q.status = "sent"}

\* start.do and scale.do set the number of instances, stop.do ends the app.
Serve(r) ==
  CASE r.kind = "stop" -> [i \in DOMAIN server \ {r.app.id} |-> server[i]]
    [] r.kind = "start" -> [i \in DOMAIN server \cup {r.app.id} |->
                              IF i = r.app.id THEN r.app.instances ELSE server[i]]
    [] r.kind = "scale" -> [i \in DOMAIN server |->
                              IF i = r.app.id THEN r.app.instances ELSE server[i]]

ServerHandles(r) ==
  /\ r \in requests /\ r.status = "sent"
  /\ requests' = (requests \ {r}) \cup {[r EXCEPT !.status = "handled"]}
  /\ server' = Serve(r)
  /\ excuses' = excuses \cup (IF Earlier(r) # {} THEN {"overtaken"} ELSE {})
  /\ UNCHANGED << listVars, filterVars, lightboxOpen, listRequest, listed, sent >>

\* start.do answers with the app, which the model takes over, whatever has
\* been changed since; the other answers, and all errors, have no effect.
Answer(r) ==
  /\ r \in requests /\ r.status = "handled"
  /\ requests' = requests \ {r}
  /\ IF r.kind = "start"
       THEN /\ models' = [models EXCEPT ![r.model] = r.app]
            /\ rerender(r.model, r.app.instances)
            /\ excuses' = excuses \cup
                 (IF models[r.model] # r.app THEN {"overtaken"} ELSE {})
       ELSE UNCHANGED << models, itemViews, excuses >>
  /\ UNCHANGED << collection, filterVars, lightboxOpen, listRequest, listed, sent, server >>

RequestFails(r) ==
  /\ r \in requests
  /\ requests' = requests \ {r}
  /\ excuses' = excuses \cup {"failed"}
  /\ UNCHANGED << listVars, filterVars, lightboxOpen, listRequest, listed, sent, server >>

ServerLists ==
  /\ listRequest = "sent"
  /\ listRequest' = "handled" /\ listed' = server
  /\ UNCHANGED << listVars, filterVars, lightboxOpen, requests, sent, server, excuses >>

\* fetch({reset: true}).done: the list replaces the collection and gets views,
\* beside the views there are; the filter notes the views of this moment.
FetchDone ==
  /\ listRequest = "handled" /\ listRequest' = "done"
  /\ LET names == SetToSeq(DOMAIN listed)
         fresh == [i \in DOMAIN names |-> [id |-> names[i], instances |-> listed[names[i]]]]
     IN /\ models' = models \o fresh
        /\ collection' = (Len(models) + 1)..(Len(models) + Len(fresh))
        /\ itemViews' = itemViews \o
             [i \in DOMAIN fresh |-> AppItemView(Len(models) + i, fresh[i])]
  /\ lis' = {v \in DOMAIN itemViews' : itemViews'[v].inList}
  /\ excuses' = excuses \cup (IF models # << >> THEN {"early"} ELSE {})
  /\ UNCHANGED << inputVal, keyTimeout, keys, typed, lightboxOpen, listed, requests,
                  sent, server >>

FetchFails ==
  /\ listRequest \in {"sent", "handled"}
  /\ listRequest' = "failed"
  /\ UNCHANGED << listVars, filterVars, lightboxOpen, listed, requests, sent, server,
                  excuses >>

-----------------------------------------------------------------------------
(* The filter.                                                             *)

\* keydown, and the text the key makes.
Key(text) ==
  /\ sent + keys < MaxInputs /\ keys' = keys + 1
  /\ inputVal' = text
  /\ keyTimeout' = (lis # None)
  /\ typed' = (typed \/ lis # None)
  /\ UNCHANGED << lis, listVars, lightboxOpen, serverVars >>

\* The views are those noted when the list came.
filtered(v) == models[itemViews[v].model].id \notin NamesWith[inputVal]

KeyTimeout ==
  /\ keyTimeout
  /\ keyTimeout' = FALSE
  /\ itemViews' = [v \in Views |->
       IF v \in lis THEN [itemViews[v] EXCEPT !.hidden = filtered(v)] ELSE itemViews[v]]
  /\ UNCHANGED << models, collection, lis, inputVal, keys, typed, lightboxOpen, serverVars >>

-----------------------------------------------------------------------------
MarathonInit ==
  /\ models = << >> /\ collection = {} /\ itemViews = << >>
  /\ lis = None /\ inputVal = NoText /\ keyTimeout = FALSE /\ keys = 0 /\ typed = FALSE
  /\ lightboxOpen = FALSE
  /\ listRequest = "sent" /\ listed = Running
  /\ requests = {} /\ sent = 0 /\ server = Running /\ excuses = {}

MarathonNext ==
  \/ \E v \in Views : DestroyClicked(v) \/ \E n \in Scales \cup {0} : ScaleClicked(v, n)
  \/ addNew \/ dismiss \/ \E i \in Ids : save([id |-> i, instances |-> 1])
  \/ \E r \in requests : ServerHandles(r) \/ Answer(r) \/ RequestFails(r)
  \/ ServerLists \/ FetchDone \/ FetchFails
  \/ KeyTimeout \/ \E text \in Texts : Key(text)

MarathonSpec == MarathonInit /\ [][MarathonNext]_marathonVars

-----------------------------------------------------------------------------
(* Properties.                                                             *)

\* Views show models that exist, and the filter has read the list when its
\* timer runs.
MarathonTypeOK ==
  /\ collection \subseteq DOMAIN models
  /\ \A m \in DOMAIN models : models[m].id \in Ids /\ models[m].instances \in Nat
  /\ \A v \in Views : itemViews[v].model \in DOMAIN models
  /\ keyTimeout => lis # None

InList(m) == {v \in Views : itemViews[v].model = m /\ itemViews[v].inList}

\* Every app of the collection has exactly one view in the list, which shows
\* its number of instances, through creates, destroys, late answers and the
\* reset; an app is listed that the collection no longer has only when it was
\* added before the list came (HomeView.add, AppItemView).
ListShowsApps ==
  /\ \A m \in collection : Cardinality(InList(m)) = 1
  /\ \A v \in Views : itemViews[v].inList =>
       /\ itemViews[v].instances = models[itemViews[v].model].instances
       /\ itemViews[v].model \in collection \/ "early" \in excuses

\* When every request is answered, the page and the server agree on which apps
\* there are and how many instances they have.  The page does not see to this
\* itself when a request fails, when one overtakes another on the same app, or
\* the answer of start.do a change, when an app is added before the list has
\* come and when a name is given twice (Item.scale, sync, create).
PageAgreesWithServer ==
  requests = {} /\ excuses = {} =>
    /\ \A m \in collection :
         models[m].id \in DOMAIN server /\ server[models[m].id] = models[m].instances
    /\ listRequest = "done" =>
         DOMAIN server = {models[m].id : m \in collection}

\* When the timer of the last key has fired, the views the filter knows are
\* hidden just when their name lacks the text, also those that were hidden
\* before; an app added later is never hidden (fastLiveFilter).
FilterExact ==
  /\ typed /\ ~keyTimeout =>
       \A v \in lis : itemViews[v].inList =>
         (itemViews[v].hidden <=> models[itemViews[v].model].id \notin NamesWith[inputVal])
  /\ lis # None => \A v \in Views \ lis : ~itemViews[v].hidden

\* What the user sees is what the collection has, what the server has and what
\* the filter asks for.
MarathonShown == MarathonTypeOK /\ ListShowsApps /\ PageAgreesWithServer /\ FilterExact
=============================================================================
