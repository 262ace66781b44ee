---------------------------- MODULE CaptureMedia ---------------------------
(***************************************************************************)
(* Receipts photographed on a phone: the trays of capture sessions, kept   *)
(* in Redis one per day, the media assets in the database, the daily entry *)
(* forms photos are assigned to, the saved daily entries that refer to     *)
(* them, and the purge of media nobody refers to, which every save and     *)
(* every closed session runs (CaptureSessionsService, StorageService and   *)
(* the attachment part of DailyEntriesService).                            *)
(*                                                                         *)
(* A handler is a sequence of awaits; each await is a step, handlers in    *)
(* flight interleave at them, and any of them may fail.  An object in S3   *)
(* goes with its asset.                                                    *)
(***************************************************************************)
EXTENDS FiniteSets, Integers

CONSTANTS
  Branches,
  Days,           \* a session's token is its day's date
  Media,          \* media ids
  Requests,       \* places for requests
  Scopes,         \* what a behaviour may be about
  None            \* no session, no branch

(* The branches and days it uses; how many requests are in flight at the   *)
(* same time and sent in all; photos per session; whether the form uploads *)
(* photos itself, past the tray; whether the API stops with requests in    *)
(* flight.                                                                 *)
Scope == [branches : SUBSET Branches, days : SUBSET Days, flight : Nat, acts : Nat, items : Nat,
          direct : BOOLEAN, crashes : BOOLEAN]

ASSUME ConstantsAssumption == Scopes \subseteq Scope /\ None \notin Branches

VARIABLES
  sessions,  \* the open session of each day, or None
  assets,    \* the branch of each media asset, or None
  made,      \* the media ids handed out so far
  uploads,   \* <<day, media>> the phone has presigned and not yet registered
  form,      \* the media on each branch's open form of each day
  saved,     \* the media each branch's saved entry of each day refers to
  req,       \* the requests in flight
  steady,    \* media held all the time since the request's purge began
  torn,      \* media that requests which failed were in the middle of
  acts,      \* requests so far
  scope

vars == <<sessions, assets, made, uploads, form, saved, req, steady, torn, acts, scope>>

Session == [branch : Branches, items : SUBSET Media, retained : SUBSET Media]
Closed == [branch |-> None, items |-> {}, retained |-> {}]

Steps == {"idle", "discard", "createDrop", "createWrite", "register", "registerWrite", "remove", "removeDrop",
          "closeDelete", "closeEntries", "closeDrop", "saveDrop", "trays", "entries", "orphans", "commit",
          "dayDrop", "dayDelete"}

(* b and d: the branch, none for the purge at startup, and the day; media: *)
(* the refs it brings; drop: those it found to delete; seen: the session   *)
(* it read; keep: what the purge spares; write: it keeps what it brings.   *)
Request == [step : Steps, b : Branches \cup {None}, d : Days \cup {None}, media : SUBSET Media,
            drop : SUBSET Media, seen : Session \cup {Closed}, keep : SUBSET Media, write : BOOLEAN]

Idle == [step |-> "idle", b |-> None, d |-> None, media |-> {}, drop |-> {}, seen |-> Closed,
         keep |-> {}, write |-> FALSE]

Alive == {m \in Media : assets[m] # None}
Open(d) == sessions[d] # Closed
Held == (UNION {sessions[d].items \cup sessions[d].retained : d \in Days})
        \cup (UNION {saved[b][d] : b \in Branches, d \in Days})

(* deletePersistedRef, for each of some refs of a branch.                  *)
Dropped(ms, b) == [m \in Media |-> IF m \in ms /\ assets[m] = b THEN None ELSE assets[m]]

(* Held media are watched from the step that reads the trays on, but for   *)
(* those whose day is being deleted.                                       *)
WatchAllBut(ms) ==
  steady' = [r \in Requests |->
    IF req[r].step \in {"entries", "orphans"} THEN (steady[r] \cap Held) \ ms ELSE Held]

Watch == WatchAllBut({})

(* What a request leaves half done when it fails: refs deleted for a write *)
(* that does not come, or a photo put on the form and left on the tray.    *)
HalfDone(q) ==
  IF q.step = "remove"
  THEN IF q.write THEN q.media ELSE {}
  ELSE IF q.step = "dayDelete" \/ (q.write /\ q.step \in {"trays", "entries", "orphans", "commit"}) THEN q.drop ELSE {}

Sent == acts < scope.acts /\ acts' = acts + 1 /\ UNCHANGED <<scope, torn>> /\ Watch
Continued == UNCHANGED <<acts, scope, torn>> /\ Watch

Arrives(r, record) ==
  /\ req[r] = Idle
  /\ Cardinality({q \in Requests : req[q] # Idle}) < scope.flight
  /\ \A q \in Requests : req[q] # Idle => req[q].b # None
  /\ Sent
  /\ req' = [req EXCEPT ![r] = record]

At(r, step) == req[r].step = step
Goes(r, step) == req' = [req EXCEPT ![r].step = step] /\ Continued
Ends(r) == req' = [req EXCEPT ![r] = Idle] /\ Continued

-----------------------------------------------------------------------------
(* Opening a session: it is reused, or replaces another branch's, whose    *)
(* media go.                                                               *)

Create(r, b, d) ==
  /\ Arrives(r, [Idle EXCEPT !.b = b, !.d = d, !.seen = sessions[d],
                   !.step = IF sessions[d].branch \in {None, b} THEN "createWrite" ELSE "createDrop"])
  /\ UNCHANGED <<sessions, assets, made, uploads, form, saved>>

CreateDrop(r) ==
  /\ At(r, "createDrop")
  /\ assets' = Dropped(req[r].seen.items \cup req[r].seen.retained, req[r].seen.branch)
  /\ Goes(r, "createWrite")
  /\ UNCHANGED <<sessions, made, uploads, form, saved>>

CreateWrite(r) ==
  /\ At(r, "createWrite")
  /\ sessions' = [sessions EXCEPT ![req[r].d] =
       IF req[r].seen.branch = req[r].b THEN req[r].seen ELSE [Closed EXCEPT !.branch = req[r].b]]
  /\ Ends(r)
  /\ UNCHANGED <<assets, made, uploads, form, saved>>

-----------------------------------------------------------------------------
(* The phone: a photo is presigned, uploaded, and registered on the tray.  *)

(* Faulty: the photos on the tray are not counted.                         *)
RoomAlways(d) == Open(d)

Room(d) == Open(d) /\ Cardinality(sessions[d].items) < scope.items

Presign(d, m) ==
  /\ Sent
  /\ Room(d)
  /\ m \notin made /\ made' = made \cup {m}
  /\ assets' = [assets EXCEPT ![m] = sessions[d].branch]
  /\ uploads' = uploads \cup {<<d, m>>}
  /\ UNCHANGED <<sessions, form, saved, req>>

Register(r, d, m) ==
  /\ <<d, m>> \in uploads
  /\ Room(d)
  /\ uploads' = uploads \ {<<d, m>>}
  /\ Arrives(r, [Idle EXCEPT !.step = "register", !.b = sessions[d].branch, !.d = d, !.media = {m}, !.seen = sessions[d]])
  /\ UNCHANGED <<sessions, assets, made, form, saved>>

RegisterLookup(r) ==
  /\ At(r, "register")
  /\ IF \A m \in req[r].media : assets[m] = req[r].seen.branch THEN Goes(r, "registerWrite") ELSE Ends(r)
  /\ UNCHANGED <<sessions, assets, made, uploads, form, saved>>

(* The session that was read is written back, with the photo added.        *)
RegisterWrite(r) ==
  /\ At(r, "registerWrite")
  /\ sessions' = [sessions EXCEPT ![req[r].d] = [req[r].seen EXCEPT !.items = @ \cup req[r].media]]
  /\ Ends(r)
  /\ UNCHANGED <<assets, made, uploads, form, saved>>

-----------------------------------------------------------------------------
(* The terminal: a photo is taken off the tray, onto the form or away.     *)

Remove(r, b, d, m, keepMedia) ==
  /\ m \in sessions[d].items
  /\ sessions[d].branch = b
  /\ form' = IF keepMedia THEN [form EXCEPT ![b][d] = @ \cup {m}] ELSE form
  /\ Arrives(r, [Idle EXCEPT !.step = "remove", !.b = b, !.d = d, !.media = {m},
                             !.seen = sessions[d], !.write = keepMedia])
  /\ UNCHANGED <<sessions, assets, made, uploads, saved>>

RemoveWrite(r) ==
  /\ At(r, "remove")
  /\ LET seen == req[r].seen
         kept == IF req[r].write THEN req[r].media ELSE {}
     IN  sessions' = [sessions EXCEPT ![req[r].d] =
           [seen EXCEPT !.items = @ \ req[r].media, !.retained = @ \cup kept]]
  /\ IF req[r].write THEN Ends(r) ELSE Goes(r, "removeDrop")
  /\ UNCHANGED <<assets, made, uploads, form, saved>>

RemoveDrop(r) ==
  /\ At(r, "removeDrop")
  /\ assets' = Dropped(req[r].media, req[r].seen.branch)
  /\ Ends(r)
  /\ UNCHANGED <<sessions, made, uploads, form, saved>>

(* A photo uploaded by the form itself.                                    *)
UploadOnForm(b, d, m) ==
  /\ scope.direct
  /\ Sent
  /\ m \notin made /\ made' = made \cup {m}
  /\ assets' = [assets EXCEPT ![m] = b]
  /\ form' = [form EXCEPT ![b][d] = @ \cup {m}]
  /\ UNCHANGED <<sessions, uploads, saved, req>>

(* A form that is left: its unsaved photos are deleted.                    *)
DiscardForm(r, b, d) ==
  /\ form[b][d] # {}
  /\ form' = [form EXCEPT ![b][d] = {}]
  /\ Arrives(r, [Idle EXCEPT !.step = "discard", !.b = b, !.d = d, !.drop = form[b][d] \ saved[b][d]])
  /\ UNCHANGED <<sessions, assets, made, uploads, saved>>

DiscardDrop(r) ==
  /\ At(r, "discard")
  /\ assets' = Dropped(req[r].drop, req[r].b)
  /\ Ends(r)
  /\ UNCHANGED <<sessions, made, uploads, form, saved>>

-----------------------------------------------------------------------------
(* The form is left, and with it its session closed: the record goes, then *)
(* the media of its tray and form no saved entry refers to, then a purge   *)
(* runs.                                                                   *)

Close(r, b, d) ==
  /\ sessions[d].branch \in {None, b}
  /\ form' = [form EXCEPT ![b][d] = {}]
  /\ Arrives(r, [Idle EXCEPT !.b = b, !.d = d, !.seen = sessions[d],
                   !.step = IF Open(d) THEN "closeDelete" ELSE "trays"])
  /\ UNCHANGED <<sessions, assets, made, uploads, saved>>

CloseDelete(r) ==
  /\ At(r, "closeDelete")
  /\ sessions' = [sessions EXCEPT ![req[r].d] = Closed]
  /\ Goes(r, "closeEntries")
  /\ UNCHANGED <<assets, made, uploads, form, saved>>

SavedOf(b) == UNION {saved[b][d] : d \in Days}

(* Faulty: what landed on a saved entry is not looked up.                  *)
UnclaimedAll(r) == req[r].seen.items \cup req[r].seen.retained

Unclaimed(r) == (req[r].seen.items \cup req[r].seen.retained) \ SavedOf(req[r].b)

CloseEntries(r) ==
  /\ At(r, "closeEntries")
  /\ req' = [req EXCEPT ![r].drop = Unclaimed(r), ![r].step = "closeDrop"]
  /\ Continued
  /\ UNCHANGED <<sessions, assets, made, uploads, form, saved>>

CloseDrop(r) ==
  /\ At(r, "closeDrop")
  /\ assets' = Dropped(req[r].drop, req[r].b)
  /\ Goes(r, "trays")
  /\ UNCHANGED <<sessions, made, uploads, form, saved>>

-----------------------------------------------------------------------------
(* Saving a day: refs the entry had and the new one has not are deleted, a *)
(* purge runs that spares the new ones, and the entry is written.          *)

Save(r, b, d, ms) ==
  /\ ms \subseteq form[b][d] \cup saved[b][d]
  /\ Arrives(r, [Idle EXCEPT !.step = "saveDrop", !.b = b, !.d = d, !.media = ms, !.keep = ms,
                             !.drop = saved[b][d] \ ms, !.write = TRUE])
  /\ UNCHANGED <<sessions, assets, made, uploads, form, saved>>

SaveDrop(r) ==
  /\ At(r, "saveDrop")
  /\ assets' = Dropped(req[r].drop, req[r].b)
  /\ Goes(r, "trays")
  /\ UNCHANGED <<sessions, made, uploads, form, saved>>

Commit(r) ==
  /\ At(r, "commit")
  /\ saved' = [saved EXCEPT ![req[r].b][req[r].d] = req[r].media]
  /\ form' = [form EXCEPT ![req[r].b][req[r].d] = @ \ req[r].media]
  /\ Ends(r)
  /\ UNCHANGED <<sessions, assets, made, uploads>>

-----------------------------------------------------------------------------
(* Deleting a day: the photos of its void sales are deleted, then its      *)
(* entry; those of its lines are left to the next purge.                   *)

RemoveDay(r, b, d, ms) ==
  /\ saved[b][d] # {} /\ ms \subseteq saved[b][d]
  /\ Arrives(r, [Idle EXCEPT !.step = "dayDrop", !.b = b, !.d = d, !.drop = ms])
  /\ UNCHANGED <<sessions, assets, made, uploads, form, saved>>

DayDrop(r) ==
  /\ At(r, "dayDrop")
  /\ assets' = Dropped(req[r].drop, req[r].b)
  /\ Goes(r, "dayDelete")
  /\ UNCHANGED <<sessions, made, uploads, form, saved>>

DayDelete(r) ==
  /\ At(r, "dayDelete")
  /\ saved' = [saved EXCEPT ![req[r].b][req[r].d] = {}]
  /\ req' = [req EXCEPT ![r] = Idle]
  /\ WatchAllBut(saved[req[r].b][req[r].d])
  /\ UNCHANGED <<sessions, assets, made, uploads, form, torn, acts, scope>>

-----------------------------------------------------------------------------
(* A request fails at the await it is at: what it did before stays.  The   *)
(* client of a photo taken off the tray keeps it on the form.              *)
Fails(r) ==
  /\ req[r] # Idle
  /\ req' = [req EXCEPT ![r] = Idle]
  /\ torn' = torn \cup HalfDone(req[r])
  /\ Watch
  /\ UNCHANGED <<sessions, assets, made, uploads, form, saved, acts, scope>>

-----------------------------------------------------------------------------
(* The purge: what open trays hold, then what saved entries refer to, then *)
(* everything else goes.  At startup it runs for all branches, before any  *)
(* request is taken; requests the API stopped with are lost.               *)

Startup(r) ==
  /\ scope.crashes \/ \A q \in Requests : req[q] = Idle
  /\ acts < scope.acts /\ acts' = acts + 1
  /\ req' = [[q \in Requests |-> Idle] EXCEPT ![r].step = "trays"]
  /\ torn' = torn \cup UNION {HalfDone(req[q]) : q \in Requests}
  /\ Watch
  /\ UNCHANGED <<sessions, assets, made, uploads, form, saved, scope>>

InScope(r, b) == req[r].b \in {None, b}

(* Faulty: photos assigned to the form are not spared.                     *)
ProtectedItems(r) ==
  UNION {sessions[d].items : d \in {e \in Days : InScope(r, sessions[e].branch)}}

protectedMediaIds(r) ==
  UNION {sessions[d].items \cup sessions[d].retained : d \in {e \in Days : InScope(r, sessions[e].branch)}}

PurgeTrays(r) ==
  /\ At(r, "trays")
  /\ req' = [req EXCEPT ![r].keep = @ \cup protectedMediaIds(r), ![r].step = "entries"]
  /\ Continued
  /\ UNCHANGED <<sessions, assets, made, uploads, form, saved>>

PurgeEntries(r) ==
  /\ At(r, "entries")
  /\ req' = [req EXCEPT ![r].keep = @ \cup UNION {SavedOf(b) : b \in {c \in Branches : InScope(r, c)}},
                        ![r].step = "orphans"]
  /\ Continued
  /\ UNCHANGED <<sessions, assets, made, uploads, form, saved>>

PurgeOrphans(r) ==
  /\ At(r, "orphans")
  /\ assets' = [m \in Media |-> IF m \notin req[r].keep /\ InScope(r, assets[m]) THEN None ELSE assets[m]]
  /\ IF req[r].write THEN Goes(r, "commit") ELSE Ends(r)
  /\ UNCHANGED <<sessions, made, uploads, form, saved>>

-----------------------------------------------------------------------------
Init ==
  /\ scope \in Scopes
  /\ sessions = [d \in Days |-> Closed]
  /\ assets = [m \in Media |-> None]
  /\ made = {}
  /\ uploads = {}
  /\ form = [b \in Branches |-> [d \in Days |-> {}]]
  /\ saved = [b \in Branches |-> [d \in Days |-> {}]]
  /\ req = [r \in Requests |-> Idle]
  /\ steady = [r \in Requests |-> {}]
  /\ torn = {}
  /\ acts = 0

Begin(r) ==
  \/ \E d \in scope.days, m \in Media : Register(r, d, m)
  \/ Startup(r)
  \/ \E b \in scope.branches, d \in scope.days :
       \/ Create(r, b, d) \/ Close(r, b, d) \/ DiscardForm(r, b, d)
       \/ \E ms \in SUBSET Media : Save(r, b, d, ms) \/ RemoveDay(r, b, d, ms)
       \/ \E m \in Media, keepMedia \in BOOLEAN : Remove(r, b, d, m, keepMedia)

Continue(r) ==
  \/ CreateDrop(r) \/ CreateWrite(r) \/ RegisterLookup(r) \/ RegisterWrite(r)
  \/ RemoveWrite(r) \/ RemoveDrop(r) \/ DiscardDrop(r) \/ DayDrop(r) \/ DayDelete(r)
  \/ CloseDelete(r) \/ CloseEntries(r) \/ CloseDrop(r) \/ SaveDrop(r) \/ Commit(r)
  \/ PurgeTrays(r) \/ PurgeEntries(r) \/ PurgeOrphans(r)

Next ==
  \/ \E d \in scope.days, m \in Media : Presign(d, m) \/ \E b \in scope.branches : UploadOnForm(b, d, m)
  \/ \E r \in Requests : Begin(r) \/ Continue(r) \/ Fails(r)

Spec == Init /\ [][Next]_vars

-----------------------------------------------------------------------------
(* The types of the records in Redis and of the requests; an open tray     *)
(* never holds more photos than a session may.                             *)
TypeOK ==
  /\ scope \in Scopes
  /\ sessions \in [Days -> Session \cup {Closed}]
  /\ \A d \in Days : Cardinality(sessions[d].items) <= scope.items
  /\ assets \in [Media -> Branches \cup {None}]
  /\ made \in SUBSET Media
  /\ uploads \in SUBSET (Days \X Media)
  /\ form \in [Branches -> [Days -> SUBSET Media]]
  /\ saved \in [Branches -> [Days -> SUBSET Media]]
  /\ req \in [Requests -> Request]
  /\ steady \in [Requests -> SUBSET Media]
  /\ torn \in SUBSET Media
  /\ acts \in 0..scope.acts

Alone ==
  /\ scope.flight = 1 /\ ~scope.direct
  /\ \E b \in Branches : scope.branches \subseteq {b}

(* One branch, whose requests come one at a time and photos by the tray:   *)
(* what lies on an open tray is there, and what a saved entry refers to    *)
(* whenever nothing is in flight, whichever requests fail and whenever the *)
(* API stops -- but for the photos a request that failed was in the middle *)
(* of.  A save, and a day's deletion, deletes media before the transaction *)
(* that drops their refs, which may fail; a photo claimed by the form and  *)
(* not taken off the tray is deleted from there later.  Another branch     *)
(* that opens the same date takes over its session, and leaves references  *)
(* to deleted media too.                                                   *)
MediaExists ==
  Alone => /\ \A d \in Days : sessions[d].items \subseteq Alive \cup torn
           /\ (\A r \in Requests : req[r] = Idle) => \A b \in Branches, d \in Days : saved[b][d] \subseteq Alive \cup torn

(* A purge that runs beside one other request at a time deletes nothing    *)
(* that an open session (its tray, or assigned from it) or a saved entry   *)
(* held all the time it ran, however photos move between them meanwhile    *)
(* and whatever fails -- but for the photos of a day deleted meanwhile,    *)
(* which are left to the purges.  Beside two it may: one request writes    *)
(* back a session it read before the purge read the trays, then a save     *)
(* drops the photo from its entry before the purge reads the entries, and  *)
(* the purge finds it on neither list.                                     *)
PurgeSparesHeld ==
  [][scope.flight <= 2 => \A r \in Requests : At(r, "orphans") /\ req'[r].step # "orphans"
       => \A m \in steady[r] \cap Held : assets'[m] = assets[m]]_vars
=============================================================================
