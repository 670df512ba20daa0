--------------------------------- MODULE Fields ---------------------------------
(***************************************************************************)
(* The fields and their images (FieldsService): anyone proposes a public   *)
(* field, a partner gets private ones, and updatePublicField changes the   *)
(* place and replaces the images.                                          *)
(*                                                                         *)
(* A field and its images are written in one transaction, but the place is *)
(* verified before it and the images are uploaded to the storage within    *)
(* it, where no rollback reaches them.  A create takes the place that the  *)
(* geolocalisation gives back for what it found, an update what it found.  *)
(***************************************************************************)
EXTENDS Naturals, FiniteSets

CONSTANTS
  FieldUids,    \* the uids Fields may come to hold
  Types,        \* the types of the fields that are created
  Addresses,    \* the addresses
  Spots,        \* the coordinates
  Geo,          \* where the geolocalisation finds an address
  Details,      \* where it places the nearest thing that it knows there
  Given,        \* the coordinates, all or part, a client may give of its own
  SportSets,    \* the lists of sports a field may come with
  Objects,      \* the keys of the storage: a millisecond and the name of a file
  NoRow,        \* "there is no such row", and "the field is not given"
  Requests,     \* the requests the server may be working on at one time
  MaxImages,    \* how many files come with a request: a bound of the model
  MaxFailures   \* how many awaits may fail

FieldsAssumption ==
  /\ Types \subseteq {"PUBLIC", "PRIVATE"}
  /\ Geo \in [Addresses -> Spots]
  /\ Details \in [Addresses -> Spots]
  /\ Given \subseteq Spots
  /\ NoRow \notin FieldUids \cup Addresses \cup Spots
  /\ MaxImages \in Nat
  /\ MaxFailures \in Nat

VARIABLES
  field,     \* Fields and Field_sports: partner or not, place and sports by uid
  image,     \* Field_images: the keys by field
  stored,    \* the keys there is an object under
  request,   \* what each request in flight is doing
  instant,   \* the keys that were named in this millisecond
  meanwhile, \* history: the fields written since a request began
  astray,    \* history: the fields whose place is not what was verified
  excused,   \* history: the pairs that were written side by side, or unverified
  moved,     \* history: the fields whose address was last written by an update
  batch,     \* history: the keys of the last request that brought files for a field
  twice,     \* history: the keys that were given to more than one file
  failures   \* how many awaits have failed

hist == <<meanwhile, astray, excused, moved, batch>>
names == <<instant, twice>>
vars == <<field, image, stored, request, names, hist, failures>>

-----------------------------------------------------------------------------
FieldRow ==
  [type : {"PUBLIC", "PRIVATE"}, address : Addresses, at : Spots, sports : SportSets]

RowsAssumption == NoRow \notin FieldRow

Steps == {"find", "verify", "begin", "upload"}

Idle == [pc |-> "idle"]

\* address and at are what the request writes, or NoRow: an update keeps its
\* address, and before it has read the row it may have no coordinates.  mapped
\* says that the client gave none; gone are the images the transaction has
\* deleted, urls the keys of its own, sent those whose upload has returned.
Request ==
  [pc : Steps, new : BOOLEAN, uid : FieldUids \cup {NoRow}, type : {"PUBLIC", "PRIVATE"},
   address : Addresses \cup {NoRow}, at : Spots \cup {NoRow}, mapped : BOOLEAN,
   sports : SUBSET UNION SportSets, files : 0 .. MaxImages,
   gone : SUBSET Objects, urls : SUBSET Objects, sent : SUBSET Objects]

InFlight(r) == request[r] # Idle
At(r, pc) == request[r].pc = pc
Present == {f \in FieldUids : field[f] # NoRow}
Public == {f \in Present : field[f].type = "PUBLIC"}

\* The public fields at this very place for one of these sports.
Twins(address, at, sports) ==
  {f \in Public : /\ field[f].address = address
                  /\ field[f].at = at
                  /\ field[f].sports \cap sports # {}}

Init ==
  /\ field = [f \in FieldUids |-> NoRow]
  /\ image = [f \in FieldUids |-> {}]
  /\ stored = {}
  /\ request = [r \in Requests |-> Idle]
  /\ meanwhile = [r \in Requests |-> {}]
  /\ astray = {}
  /\ excused = {}
  /\ moved = {}
  /\ batch = [f \in FieldUids |-> {}]
  /\ instant = {}
  /\ twice = {}
  /\ failures = 0

-----------------------------------------------------------------------------
Become(r, q) == request' = [request EXCEPT ![r] = q]
Goto(r, pc) == request' = [request EXCEPT ![r].pc = pc]
data == <<field, image, stored>>

\* POST fields and POST fields/private, past the geolocalisation, which looks
\* up what is at the coordinates it finds and answers with its place; a private
\* field is not verified.
CreateArrives(r, kind, address, given, sports, files) ==
  /\ ~InFlight(r)
  /\ Become(r, [pc |-> IF kind = "PUBLIC" THEN "verify" ELSE "begin", new |-> TRUE, uid |-> NoRow,
                type |-> kind, address |-> address,
                at |-> IF given = NoRow THEN Details[address] ELSE given, mapped |-> given = NoRow,
                sports |-> sports, files |-> files, gone |-> {}, urls |-> {}, sent |-> {}])
  /\ meanwhile' = [meanwhile EXCEPT ![r] = {}]
  /\ UNCHANGED <<data, names, astray, excused, moved, batch, failures>>

\* PATCH fields/update-public/:uid, for whoever is signed in and any field.
UpdateArrives(r, f, address, given, files) ==
  /\ ~InFlight(r)
  /\ f \in Present
  /\ Become(r, [pc |-> "find", new |-> FALSE, uid |-> f, type |-> field[f].type,
                address |-> address, at |-> given, mapped |-> given = NoRow,
                sports |-> {}, files |-> files, gone |-> {}, urls |-> {}, sent |-> {}])
  /\ meanwhile' = [meanwhile EXCEPT ![r] = {}]
  /\ UNCHANGED <<data, names, astray, excused, moved, batch, failures>>

\* Mutant: a new address leaves the coordinates alone.
KeptSpot(q) == IF q.at # NoRow THEN q.at ELSE field[q.uid].at

\* The coordinates of the client come before those of the address, and those
\* that are read are written back when there are neither.
NewSpot(q) ==
  IF q.at # NoRow THEN q.at
  ELSE IF q.address # NoRow THEN Geo[q.address] ELSE field[q.uid].at

FindField(r) ==
  LET q == request[r] IN
  /\ At(r, "find")
  /\ IF q.address = NoRow
     THEN Become(r, [q EXCEPT !.pc = "begin", !.at = NewSpot(q)])
     ELSE Become(r, [q EXCEPT !.pc = "verify", !.at = NewSpot(q), !.sports = field[q.uid].sports])
  /\ UNCHANGED <<data, names, hist, failures>>

\* A create verifies the coordinates it will write, an update those of the
\* address, whatever the client gave.
SpotToVerify(q) == IF q.new THEN q.at ELSE Geo[q.address]

\* What is verified is used no more, but for the sports of a new field.
Verified(q) == [q EXCEPT !.pc = "begin", !.sports = IF q.new THEN @ ELSE {}]

\* Mutant: an update, which would meet its own row, is not verified.
VerifyNewOnly(r) ==
  LET q == request[r] IN
  /\ At(r, "verify")
  /\ Become(r, IF q.new /\ Twins(q.address, SpotToVerify(q), q.sports) # {}
               THEN Idle ELSE Verified(q))
  /\ UNCHANGED <<data, names, hist, failures>>

\* An update may meet its own row, and is refused.
VerifyFieldLocation(r) ==
  LET q == request[r] IN
  /\ At(r, "verify")
  /\ Become(r, IF Twins(q.address, SpotToVerify(q), q.sports) # {} THEN Idle ELSE Verified(q))
  /\ UNCHANGED <<data, names, hist, failures>>

-----------------------------------------------------------------------------
(* The transaction.                                                        *)

Updating(f) == \E r \in Requests : At(r, "upload") /\ ~request[r].new /\ request[r].uid = f
Taken == Present \cup {request[r].uid : r \in {p \in Requests : InFlight(p)}}

InUse == stored \cup UNION {request[p].urls : p \in {p \in Requests : InFlight(p)}}

\* All uploads of a transaction are begun at once and name their keys, files of
\* one name the same one; they are keys in use only when the clock still shows
\* the millisecond of the last names.
NameKeys(r, q) ==
  \E keys \in SUBSET Objects, same \in SUBSET instant :
    /\ same \in {{}, instant}
    /\ keys \cap InUse \subseteq same
    /\ (keys = {}) <=> (q.files = 0)
    /\ Cardinality(keys) <= q.files
    /\ Become(r, [q EXCEPT !.pc = "upload", !.urls = keys])
    /\ instant' = same \cup keys
    /\ twice' = twice \cup (keys \cap same)
                      \cup {k \in keys : Cardinality(keys) < q.files}

\* The insert of the field.
BeginCreate(r) ==
  /\ At(r, "begin") /\ request[r].new
  /\ \E f \in FieldUids \ Taken : NameKeys(r, [request[r] EXCEPT !.uid = f])
  /\ UNCHANGED <<data, hist, failures>>

\* The update as it goes on after the deleteMany of the images it finds.
Replacing(q) == [q EXCEPT !.gone = IF q.files > 0 THEN image[q.uid] ELSE {}]

\* Mutant: the images are replaced before the row of the field is written, so
\* nothing makes two transactions wait.
BeginUpdateUnlocked(r) ==
  /\ At(r, "begin") /\ ~request[r].new
  /\ NameKeys(r, Replacing(request[r]))
  /\ UNCHANGED <<data, hist, failures>>

\* The update of the row, which a second transaction on the field waits for,
\* and the deleteMany.
BeginUpdate(r) ==
  /\ At(r, "begin") /\ ~request[r].new
  /\ ~Updating(request[r].uid)
  /\ NameKeys(r, Replacing(request[r]))
  /\ UNCHANGED <<data, hist, failures>>

\* Mutant: the error of an upload is swallowed and its key kept.
UploadSwallowed(r) ==
  /\ At(r, "upload")
  /\ \E o \in request[r].urls \ request[r].sent :
       /\ stored' \in {stored, stored \cup {o}}
       /\ request' = [request EXCEPT ![r].sent = @ \cup {o}]
  /\ UNCHANGED <<field, image, names, hist, failures>>

\* storageService.upload, one of those that run side by side, puts its file
\* over what there may be under the key; the row is inserted within the
\* transaction.
Upload(r) ==
  /\ At(r, "upload")
  /\ \E o \in request[r].urls \ request[r].sent :
       /\ stored' = stored \cup {o}
       /\ request' = [request EXCEPT ![r].sent = @ \cup {o}]
  /\ UNCHANGED <<field, image, names, hist, failures>>

\* What makes a place differ from what was verified: coordinates of the client,
\* and an update that writes back what it has read beside another one.
Astray(r) ==
  LET q == request[r] IN
  ~q.mapped \/ (q.address = NoRow /\ q.uid \in meanwhile[r] \cup astray)

\* The fields a request may have come to the place of without a check: all of
\* them, unless it wrote the place it verified.
Unseen(r) ==
  LET q == request[r] IN
  IF q.new \/ (q.mapped /\ q.address # NoRow) THEN meanwhile[r] ELSE Present

\* Everything appears at once.
Commit(r) ==
  LET q == request[r] IN
  /\ At(r, "upload")
  /\ q.sent = q.urls
  /\ field' = [field EXCEPT ![q.uid] =
       IF q.new THEN [type |-> q.type, address |-> q.address, at |-> q.at, sports |-> q.sports]
       ELSE [field[q.uid] EXCEPT !.address = IF q.address = NoRow THEN @ ELSE q.address, !.at = q.at]]
  /\ image' = [image EXCEPT ![q.uid] = (@ \ q.gone) \cup q.urls]
  /\ Become(r, Idle)
  /\ meanwhile' = [p \in Requests |->
       IF p # r /\ InFlight(p) THEN meanwhile[p] \cup {q.uid} ELSE {}]
  /\ astray' = IF Astray(r) THEN astray \cup {q.uid} ELSE astray \ {q.uid}
  /\ excused' = excused \cup {{q.uid, g} : g \in Unseen(r) \ {q.uid}}
  /\ moved' = IF ~q.new /\ q.address # NoRow THEN moved \cup {q.uid} ELSE moved
  /\ batch' = IF q.new \/ q.files > 0 THEN [batch EXCEPT ![q.uid] = q.urls] ELSE batch
  /\ UNCHANGED <<stored, names, failures>>

\* An await rejects, the five seconds of an interactive transaction are over
\* or the process dies: what was written is rolled back, what was uploaded
\* stays, and the uploads under way may still arrive.
AwaitFails(r) ==
  /\ InFlight(r)
  /\ failures < MaxFailures
  /\ failures' = failures + 1
  /\ \E late \in SUBSET request[r].urls : stored' = stored \cup late
  /\ Become(r, Idle)
  /\ UNCHANGED <<field, image, names, hist>>

Work(r) ==
  \/ FindField(r) \/ VerifyFieldLocation(r) \/ BeginCreate(r) \/ BeginUpdate(r)
  \/ Upload(r) \/ Commit(r) \/ AwaitFails(r)

Next ==
  \E r \in Requests :
    \/ Work(r)
    \/ \E given \in Given \cup {NoRow}, files \in 0 .. MaxImages :
         \/ \E kind \in Types, address \in Addresses, sports \in SportSets :
              CreateArrives(r, kind, address, given, sports, files)
         \/ \E f \in FieldUids, address \in Addresses \cup {NoRow} :
              UpdateArrives(r, f, address, given, files)

Spec == Init /\ [][Next]_vars

-----------------------------------------------------------------------------
(* Properties.                                                             *)

\* Rows, images and requests keep their types.
TypeOK ==
  /\ field \in [FieldUids -> FieldRow \cup {NoRow}]
  /\ image \in [FieldUids -> SUBSET Objects]
  /\ \A f \in FieldUids \ Present : image[f] = {}
  /\ stored \subseteq Objects
  /\ request \in [Requests -> Request \cup {Idle}]
  /\ meanwhile \in [Requests -> SUBSET FieldUids]
  /\ astray \subseteq Present
  /\ excused \subseteq {{f, g} : f, g \in FieldUids}
  /\ moved \subseteq Present
  /\ batch \in [FieldUids -> SUBSET Objects]
  /\ instant \subseteq Objects
  /\ twice \subseteq Objects
  /\ failures \in 0 .. MaxFailures

\* Every image of a field is in the storage; the images of a field are those
\* that the last request with files has brought, never what two updates have
\* left of each other; and two fields share one only if its key, a millisecond
\* and the name of a file, was given to two files.
ImagesAreStored ==
  \A f \in Present :
    /\ image[f] \subseteq stored
    /\ image[f] = batch[f]
    /\ \A g \in Present \ {f} : image[f] \cap image[g] \subseteq twice

\* Two public fields are at one place for one sport only if one was written
\* while the other was being verified, or one was moved by an update to
\* coordinates nobody verified: those the client gave, or had been read.
TwinsAreExcused ==
  \A f \in Public : \A g \in Twins(field[f].address, field[f].at, field[f].sports) \ {f} :
    {f, g} \in excused

\* A field is where the geolocalisation places its address, as an update or as
\* a create asks for it, unless the client gave coordinates or an update wrote
\* back coordinates older than another's.
SpotIsOfAddress ==
  \A f \in Present \ astray :
    field[f].at = IF f \in moved THEN Geo[field[f].address] ELSE Details[field[f].address]

\* One address has two public fields for one sport when the verification did
\* not see it, when the client or an old value placed one of them, or when one
\* was created there and the other moved there, and in no other case.
AddressesAreExcused ==
  \A f \in Public \ astray : \A g \in Public \ (astray \cup {f}) :
    /\ field[f].address = field[g].address
    /\ field[f].sports \cap field[g].sports # {}
    /\ (f \in moved) <=> (g \in moved)
    => {f, g} \in excused

\* The place of a field was verified, or there is a reason that it was not
\* (verifyFieldLocation, updatePublicField).
PlacesAreVerified == TwinsAreExcused /\ SpotIsOfAddress /\ AddressesAreExcused
=============================================================================
