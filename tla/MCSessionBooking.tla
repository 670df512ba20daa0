-------------------------- MODULE MCSessionBooking --------------------------
(***************************************************************************)
(* Small instances of SessionBooking, Fields and ConnectAccounts for TLC:  *)
(* what is done with a field, the field itself, and the account of the     *)
(* partner behind it.  A session and a slot use of a field nothing but its *)
(* uid and its type, which never changes, and no handler looks at the      *)
(* account of a partner and at a field, so a behaviour moves one of them.  *)
(***************************************************************************)
EXTENDS SessionBooking, Sequences, TLC

CONSTANTS
  Addresses, Spots, Geo, Details, Given, SportSets, Objects, MaxImages, FieldFailures,
  Accounts, MaxEvents, PartnerFailures,
  Parts         \* which of "booking", "places", "images" and "partner" move

VARIABLES
  part,
  field, image, stored, fieldRequest, instant, meanwhile, astray, excused, moved, batch, twice,
  fieldFailures,
  billing, stripe, events, partnerRequest, delivered, dropped, broken, rivals, forgotten,
  partnerFailures

fieldVars ==
  <<field, image, stored, fieldRequest, instant, meanwhile, astray, excused, moved, batch, twice,
    fieldFailures>>
partnerVars ==
  <<billing, stripe, events, partnerRequest, delivered, dropped, broken, rivals, forgotten,
    partnerFailures>>

\* The geolocalisation finds two addresses, and knows one of them by something
\* that is near.
TheGeo == "home" :> "p" @@ "park" :> "q"
TheDetails == "home" :> "p" @@ "park" :> "r"

\* Fields have the uids of slots.
Place == INSTANCE Fields WITH
  FieldUids <- SlotUids, Types <- {"PUBLIC", "PRIVATE"}, MaxFailures <- FieldFailures,
  request <- fieldRequest, failures <- fieldFailures

Partner == INSTANCE ConnectAccounts WITH
  NoAccount <- NoRow, MaxFailures <- PartnerFailures,
  request <- partnerRequest, failures <- partnerFailures

-----------------------------------------------------------------------------
(* The bounds of the parts.                                                *)

Asked == {fieldRequest[r] : r \in {p \in Requests : Place!InFlight(p)}}

\* Public fields without images, when every await succeeds; a client who gives
\* coordinates gives them for the park or for no address.
PlacesOnly ==
  /\ fieldFailures = 0
  /\ \A q \in Asked : q.type = "PUBLIC" /\ q.files = 0 /\ (q.mapped \/ q.address # "home")

\* Private fields that do not move, updates with images, and two of these at once.
Files(r) == IF Place!InFlight(r) THEN fieldRequest[r].files ELSE 0
ImagesOnly ==
  /\ \A q \in Asked :
       /\ q.type = "PRIVATE" /\ q.mapped
       /\ IF q.new THEN q.address = "home" ELSE q.address = NoRow /\ q.files > 0
  /\ \A r, p \in Requests : r # p => Files(r) + Files(p) <= 2

\* Stripe says nothing while it has opened every account.
ThirdIsQuiet == (\A a \in Accounts : stripe[a] # "none") => events = <<>>

\* Accounts are interchangeable, and Stripe may as well open them in turn.
InTurn == \A a, c \in Accounts : a < c /\ stripe[c] # "none" => stripe[a] # "none"

PartsInit ==
  /\ part \in Parts
  /\ Init /\ Place!Init /\ Partner!Init

PartsNext ==
  \/ part = "booking" /\ Next /\ UNCHANGED <<part, fieldVars, partnerVars>>
  \/ part = "places" /\ Place!Next /\ PlacesOnly' /\ UNCHANGED <<part, vars, partnerVars>>
  \/ part = "images" /\ Place!Next /\ ImagesOnly' /\ UNCHANGED <<part, vars, partnerVars>>
  \/ part = "partner" /\ Partner!Next /\ (ThirdIsQuiet /\ InTurn)'
       /\ UNCHANGED <<part, vars, fieldVars>>

PartsSpec == PartsInit /\ [][PartsNext]_<<part, vars, fieldVars, partnerVars>>

\* The images of a field are in the storage, are those of the last request with
\* files, and are its own but for a key given twice (createPrivateField,
\* updatePublicField).
ImagesAreStored == Place!ImagesAreStored

\* The place of a field was verified, or there is a reason that it was not
\* (verifyFieldLocation, updatePublicField).
PlacesAreVerified == Place!PlacesAreVerified

\* The row names the account that Stripe has, but for accidents of named kinds
\* (createStripeConnectAccount, deleteStripeConnectAccount).
RowNamesTheAccount == Partner!RowNamesTheAccount

\* The status is the last one Stripe has told (handleAccountUpdated).
StatusFollowsStripe == Partner!StatusFollowsStripe

\* What the two modules take for granted of these instances.
ASSUME PartsAssumption ==
  Place!FieldsAssumption /\ Place!RowsAssumption /\ Partner!ConnectAssumption

\* Requests and uids, whatever they name, are interchangeable, and so are the
\* sessions whose dates may change.
UidSymmetry ==
  Permutations(Requests) \cup Permutations(SlotUids) \cup Permutations(Moves)
    \cup Permutations(SessionUids \ Moves)
==============================================================================
