----------------------------- MODULE HouseAccess -----------------------------
(***************************************************************************)
(* Houses, their stickers and their accounts (usecase/house_usecase.go on  *)
(* top of repository/house_repository.go and the users table).             *)
(*                                                                         *)
(* A house carries a sticker (access_token) and a PIN.  Whoever presents   *)
(* both claims the house and gets a session: a JWT that names the house,   *)
(* its account and its token_version.  The account's password starts as    *)
(* the PIN and follows it when an administrator resets it.                 *)
(*                                                                         *)
(* Creating, editing and claiming a house read its row, look for its       *)
(* account (ensureHouseUser), and write the whole row back: block, status, *)
(* PIN and account, but neither sticker nor version.  Each statement       *)
(* commits on its own; req holds what every request in service has read.   *)
(*                                                                         *)
(* Addresses, heads of family, names, roles and the mapping of accounts to *)
(* tenants are not modelled, and no request names the account of a house.  *)
(* An account is known by the part of its e-mail address that comes from   *)
(* the block number: two houses whose blocks read the same share it.       *)
(* Stickers of a house are numbered: the random codes never collide.       *)
(***************************************************************************)
EXTENDS Naturals, FiniteSets

CONSTANTS
  Houses,        \* identifiers of rows of houses
  Slugs,         \* what block numbers become in an e-mail address
  Pins,          \* the PINs that are drawn
  Requests,      \* request slots: the goroutines that may be in service
  MaxInService,  \* how many requests are in service at the same time
  MaxVersion,    \* bound on token_version
  Asks,          \* the statuses and PINs an edit may ask for, with its block
  Failures,      \* may a statement, or a request between two, fail?
  Chosen,        \* a password its owner chose
  Nobody         \* marks what is missing, or is not asked for

VARIABLES
  houses,    \* the table houses
  accounts,  \* users: the password of every house account that exists
  issued,    \* history: what the sessions that were issued name
  req,       \* what every request in service has read and will do next
  word,      \* history: what was last decided about block, status and PIN
  crossed,   \* history: houses whose row changed under a request's reading
  told,      \* history: what was last decided about an account's password
  mixed      \* history: accounts that changed under a request's reading

rows == <<houses, word, crossed>>

users == <<accounts, told, mixed>>

vars == <<rows, users, issued, req>>

-----------------------------------------------------------------------------
(***************************************************************************)
(* Types.                                                                  *)
(***************************************************************************)
Statuses == {"active", "revoked", "suspended"}

Row == [state: {"live", "deleted"}, slug: Slugs, status: Statuses, pin: Pins,
        sticker: Nat, version: Nat, user: Slugs \union {Nobody}]

Passwords == Pins \union {Chosen}

Word == [slug: Slugs, status: Statuses, pin: Pins]

Ask == [status: Statuses \union {Nobody}, pin: Pins \union {Nobody}]

Plain == [status |-> Nobody, pin |-> Nobody]

Session == [house: Houses, sticker: Nat, version: Nat]

ASSUME BoundsAssumption ==
  /\ MaxInService \in Nat /\ MaxVersion \in Nat
  /\ Asks \subseteq Ask /\ Failures \in BOOLEAN

ASSUME MarksAssumption ==
  /\ Nobody \notin Houses \union Slugs \union Statuses \union Passwords
  /\ Nobody \notin Row \union Word
  /\ Chosen \notin Pins

Idle == [pc |-> "idle"]

(***************************************************************************)
(* image is the row a request will write; asked is what its administrator  *)
(* named, apart from the block.                                            *)
(***************************************************************************)
Reading ==
  [pc: {"ensure", "provision", "save"}, op: {"create", "edit", "claim"},
   house: Houses \union {Nobody}, image: Row, asked: Ask]

Syncing ==
  [pc: {"sync"}, op: {"create", "edit", "claim"},
   house: Houses \union {Nobody}, image: Row, asked: Ask,
   password: Passwords]

Request ==
  {Idle} \union Reading \union Syncing
    \union [pc: {"link"}, house: Houses, pin: Pins]
    \union [pc: {"repin"}, user: Slugs, pin: Pins]
    \union [pc: {"profile"}, user: Slugs, password: Passwords,
            chosen: BOOLEAN]

TypeOK ==
  /\ houses \in [Houses -> Row \union {Nobody}]
  /\ accounts \in [Slugs -> Passwords \union {Nobody}]
  /\ issued \in SUBSET Session
  /\ req \in [Requests -> Request]
  /\ word \in [Houses -> Word \union {Nobody}]
  /\ crossed \in SUBSET Houses
  /\ told \in [Slugs -> Passwords \union {Nobody}]
  /\ mixed \in SUBSET Slugs

-----------------------------------------------------------------------------
(***************************************************************************)
(* Helpers.                                                                *)
(***************************************************************************)
InService == {r \in Requests : req[r].pc # "idle"}

CanServe == Cardinality(InService) < MaxInService

Live(h) == houses[h] # Nobody /\ houses[h].state = "live"

Exists(a) == accounts[a] # Nobody

Serve(r, record) == req' = [req EXCEPT ![r] = record]

Finish(r) == Serve(r, Idle)

\* Requests that read house h, or the password of account a, and will write
\* what they read.
Holding(r, h) ==
  req[r].pc \in {"ensure", "provision", "sync", "save"} /\ req[r].house = h

HoldingAccount(r, a) ==
  \/ req[r].pc = "sync" /\ req[r].image.user = a
  \/ req[r].pc = "profile" /\ req[r].user = a

\* A statement of request r changes the row of house h, or the password of
\* account a: whoever else had read it has read it too early.
ChangeRow(r, h, row) ==
  /\ houses' = [houses EXCEPT ![h] = row]
  /\ crossed' = IF row # houses[h] /\ \E q \in Requests \ {r} : Holding(q, h)
                THEN crossed \union {h} ELSE crossed

ChangeAccount(r, a, password) ==
  /\ accounts' = [accounts EXCEPT ![a] = password]
  /\ mixed' = IF /\ password # accounts[a]
                 /\ \E q \in Requests \ {r} : HoldingAccount(q, a)
              THEN mixed \union {a} ELSE mixed

-----------------------------------------------------------------------------
\* Rows from before migration 36 have no account.
Legacy(slug, pin) ==
  [state |-> "live", slug |-> slug, status |-> "active", pin |-> pin,
   sticker |-> 1, version |-> 1, user |-> Nobody]

WordOf(row) == [slug |-> row.slug, status |-> row.status, pin |-> row.pin]

Init ==
  /\ houses \in [Houses -> {Nobody} \union {Legacy(s, p) : s \in Slugs, p \in Pins}]
  /\ word = [h \in Houses |-> IF houses[h] = Nobody THEN Nobody
                                                    ELSE WordOf(houses[h])]
  /\ accounts = [a \in Slugs |-> Nobody]
  /\ told = [a \in Slugs |-> Nobody]
  /\ issued = {}
  /\ req = [r \in Requests |-> Idle]
  /\ crossed = {}
  /\ mixed = {}

-----------------------------------------------------------------------------
(***************************************************************************)
(* The first statements of creating, editing and claiming a house.         *)
(***************************************************************************)

\* A house is created with a fresh sticker and a drawn PIN.
CreateHouse(r, slug, pin) ==
  /\ CanServe
  /\ req[r] = Idle
  /\ Serve(r, [pc |-> "ensure", op |-> "create", house |-> Nobody,
               image |-> Legacy(slug, pin), asked |-> Plain])
  /\ UNCHANGED <<rows, users, issued>>

\* What an edit does not ask for stays what it is in the row it reads.
WithAsked(row, slug, asked) ==
  [row EXCEPT !.slug = slug,
              !.status = IF asked.status = Nobody THEN @ ELSE asked.status,
              !.pin = IF asked.pin = Nobody THEN @ ELSE asked.pin]

\* A slip: an edit that asks for no status activates the sticker.
ActiveUnlessAsked(row, slug, asked) ==
  [row EXCEPT !.slug = slug,
              !.status = IF asked.status = Nobody THEN "active"
                                                  ELSE asked.status,
              !.pin = IF asked.pin = Nobody THEN @ ELSE asked.pin]

\* The row an edit is going to write.
EditImage(row, slug, asked) == WithAsked(row, slug, asked)

EditRead(r, h, slug, asked) ==
  /\ CanServe
  /\ req[r] = Idle
  /\ Live(h)
  /\ Serve(r, [pc |-> "ensure", op |-> "edit", house |-> h,
               image |-> EditImage(houses[h], slug, asked),
               asked |-> asked])
  /\ UNCHANGED <<rows, users, issued>>

\* A claim presents the sticker and the PIN of an active house; every other
\* one is refused and changes nothing.
ClaimRead(r, h) ==
  /\ CanServe
  /\ req[r] = Idle
  /\ Live(h)
  /\ houses[h].status = "active"
  /\ Serve(r, [pc |-> "ensure", op |-> "claim", house |-> h,
               image |-> houses[h], asked |-> Plain])
  /\ UNCHANGED <<rows, users, issued>>

-----------------------------------------------------------------------------
(***************************************************************************)
(* ensureHouseUser: find the account of the house, or open one.            *)
(***************************************************************************)
ReadyToSave(r, user) ==
  Serve(r, [pc |-> "save", op |-> req[r].op, house |-> req[r].house,
            image |-> [req[r].image EXCEPT !.user = user],
            asked |-> req[r].asked])

\* The accounts the code may come upon: the one the row names, or, when it
\* names none or that SELECT fails, the one with the address of the block.
Looked(image) ==
  IF image.user = Nobody THEN {image.slug}
  ELSE {image.user} \union IF Failures THEN {image.slug} ELSE {}

\* A slip: an account that is found gets the PIN as its password.
FoundReset(r, a) ==
  Serve(r, [pc |-> "sync", op |-> req[r].op, house |-> req[r].house,
            image |-> [req[r].image EXCEPT !.user = a],
            asked |-> req[r].asked, password |-> req[r].image.pin])

\* When the name of the account differs from the head of family's, the whole
\* row of the account is going to be written back.
Found(r, a) ==
  \/ ReadyToSave(r, a)
  \/ Serve(r, [pc |-> "sync", op |-> req[r].op, house |-> req[r].house,
               image |-> [req[r].image EXCEPT !.user = a],
               asked |-> req[r].asked, password |-> accounts[a]])

\* Creating and editing do without an account when the tenant is not read.
Ensure(r) ==
  /\ req[r].pc = "ensure"
  /\ \/ \E a \in Looked(req[r].image) : Exists(a) /\ Found(r, a)
     \/ /\ Failures \/ \A a \in Looked(req[r].image) : ~Exists(a)
        /\ Serve(r, [req[r] EXCEPT !.pc = "provision"])
     \/ /\ Failures /\ req[r].op # "claim"
        /\ ReadyToSave(r, req[r].image.user)
  /\ UNCHANGED <<rows, users, issued>>

\* The error of the UPDATE is ignored.
Sync(r) ==
  /\ req[r].pc = "sync"
  /\ \/ ChangeAccount(r, req[r].image.user, req[r].password)
     \/ Failures /\ UNCHANGED <<accounts, mixed>>
  /\ ReadyToSave(r, req[r].image.user)
  /\ UNCHANGED <<rows, told, issued>>

\* The address is unique: the INSERT fails when somebody was faster.  Then a
\* claim gives up, and the others go on without.
Provision(r) ==
  LET a == req[r].image.slug
  IN  /\ req[r].pc = "provision"
      /\ \/ /\ ~Exists(a)
            /\ ChangeAccount(r, a, req[r].image.pin)
            /\ told' = [told EXCEPT ![a] = req[r].image.pin]
            /\ ReadyToSave(r, a)
         \/ /\ Exists(a) \/ Failures
            /\ \/ req[r].op = "claim" /\ Finish(r)
               \/ req[r].op # "claim" /\ ReadyToSave(r, req[r].image.user)
            /\ UNCHANGED users
      /\ UNCHANGED <<rows, issued>>

-----------------------------------------------------------------------------
(***************************************************************************)
(* The last statements: INSERT, or UPDATE ... WHERE deleted_at IS NULL,    *)
(* which leaves sticker and version alone.                                 *)
(***************************************************************************)
CreateSave(r, h) ==
  /\ req[r].pc = "save" /\ req[r].op = "create"
  /\ houses[h] = Nobody
  /\ ChangeRow(r, h, req[r].image)
  /\ word' = [word EXCEPT ![h] = WordOf(req[r].image)]
  /\ Finish(r)
  /\ UNCHANGED <<users, issued>>

\* A slip: the version that was read is written back, too.
WithImageAndVersion(row, image) ==
  [row EXCEPT !.slug = image.slug, !.status = image.status,
              !.pin = image.pin, !.user = image.user,
              !.version = image.version]

WithImage(row, image) ==
  [row EXCEPT !.slug = image.slug, !.status = image.status,
              !.pin = image.pin, !.user = image.user]

EditSave(r) ==
  LET h == req[r].house
      image == req[r].image
  IN  /\ req[r].pc = "save" /\ req[r].op = "edit"
      /\ IF Live(h)
         THEN /\ ChangeRow(r, h, WithImage(houses[h], image))
              /\ word' = [word EXCEPT ![h] =
                             WithAsked(@, image.slug, req[r].asked)]
         ELSE UNCHANGED rows
      /\ Finish(r)
      /\ UNCHANGED <<users, issued>>

\* A claim ignores whether its UPDATE succeeds, and signs the session with
\* what it read first.
ClaimSave(r) ==
  LET h == req[r].house
      image == req[r].image
  IN  /\ req[r].pc = "save" /\ req[r].op = "claim"
      /\ \/ Live(h) /\ ChangeRow(r, h, WithImage(houses[h], image))
         \/ (~Live(h) \/ Failures) /\ UNCHANGED <<houses, crossed>>
      /\ issued' = issued \union {[house |-> h, sticker |-> image.sticker,
                                   version |-> image.version]}
      /\ Finish(r)
      /\ UNCHANGED <<users, word>>

-----------------------------------------------------------------------------
(***************************************************************************)
(* ResetPin and RegenerateToken: one UPDATE of the house, then the         *)
(* account of the house, if the row names one.                             *)
(***************************************************************************)
ResetPin(r, h, pin) ==
  /\ CanServe
  /\ req[r] = Idle
  /\ Live(h)
  /\ houses[h].version < MaxVersion
  /\ ChangeRow(r, h, [houses[h] EXCEPT !.pin = pin, !.version = @ + 1])
  /\ word' = [word EXCEPT ![h].pin = pin]
  /\ Serve(r, [pc |-> "link", house |-> h, pin |-> pin])
  /\ UNCHANGED <<users, issued>>

RegenerateToken(r, h, pin) ==
  /\ CanServe
  /\ req[r] = Idle
  /\ Live(h)
  /\ houses[h].version < MaxVersion
  /\ ChangeRow(r, h, [houses[h] EXCEPT !.pin = pin, !.version = @ + 1,
                                       !.sticker = @ + 1,
                                       !.status = "active"])
  /\ word' = [word EXCEPT ![h].pin = pin, ![h].status = "active"]
  /\ Serve(r, [pc |-> "link", house |-> h, pin |-> pin])
  /\ UNCHANGED <<users, issued>>

\* A slip: the row is taken to name an account.
ResetLinkAnyway(r) ==
  /\ req[r].pc = "link" /\ Live(req[r].house)
  /\ Serve(r, [pc |-> "repin", user |-> houses[req[r].house].user,
               pin |-> req[r].pin])
  /\ UNCHANGED <<rows, users, issued>>

ResetLink(r) ==
  LET h == req[r].house
  IN  /\ req[r].pc = "link"
      /\ IF Live(h) /\ houses[h].user # Nobody
         THEN Serve(r, [pc |-> "repin", user |-> houses[h].user,
                        pin |-> req[r].pin])
         ELSE Finish(r)
      /\ UNCHANGED <<rows, users, issued>>

ResetAccount(r) ==
  /\ req[r].pc = "repin"
  /\ ChangeAccount(r, req[r].user, req[r].pin)
  /\ told' = [told EXCEPT ![req[r].user] = req[r].pin]
  /\ Finish(r)
  /\ UNCHANGED <<rows, issued>>

-----------------------------------------------------------------------------
DeleteHouse(h) ==
  /\ CanServe
  /\ Live(h)
  /\ houses' = [houses EXCEPT ![h].state = "deleted"]
  /\ UNCHANGED <<word, crossed, users, issued, req>>

(***************************************************************************)
(* UpdateProfile: the owner of an account edits its name or telephone      *)
(* number, or chooses a password; the whole row is written back.  An       *)
(* administrator's UpdateUser reads and writes the row in the same way.    *)
(***************************************************************************)
ProfileRead(r, a, chosen) ==
  /\ CanServe
  /\ req[r] = Idle
  /\ Exists(a)
  /\ Serve(r, [pc |-> "profile", user |-> a, chosen |-> chosen,
               password |-> IF chosen THEN Chosen ELSE accounts[a]])
  /\ UNCHANGED <<rows, users, issued>>

ProfileSave(r) ==
  LET a == req[r].user
  IN  /\ req[r].pc = "profile"
      /\ ChangeAccount(r, a, req[r].password)
      /\ told' = IF req[r].chosen THEN [told EXCEPT ![a] = Chosen] ELSE told
      /\ Finish(r)
      /\ UNCHANGED <<rows, issued>>

\* A request ends early: what it committed stays.
Fail(r) ==
  /\ Failures
  /\ req[r] # Idle
  /\ Finish(r)
  /\ UNCHANGED <<rows, users, issued>>

-----------------------------------------------------------------------------
Next ==
  \/ \E r \in Requests :
       \/ \E s \in Slugs, p \in Pins : CreateHouse(r, s, p)
       \/ \E h \in Houses :
            \/ \E s \in Slugs, ask \in Asks : EditRead(r, h, s, ask)
            \/ ClaimRead(r, h)
            \/ CreateSave(r, h)
            \/ \E p \in Pins : ResetPin(r, h, p) \/ RegenerateToken(r, h, p)
       \/ Ensure(r) \/ Sync(r) \/ Provision(r)
       \/ EditSave(r) \/ ClaimSave(r)
       \/ ResetLink(r) \/ ResetAccount(r)
       \/ \E a \in Slugs, c \in BOOLEAN : ProfileRead(r, a, c)
       \/ ProfileSave(r)
       \/ Fail(r)
  \/ \E h \in Houses : DeleteHouse(h)

Spec == Init /\ [][Next]_vars

-----------------------------------------------------------------------------
(***************************************************************************)
(* Properties.                                                             *)
(***************************************************************************)

\* A house keeps the block, the status and the PIN an administrator last
\* gave it, whatever claims and edits write back, unless its row changed
\* between the reading and the writing of one of them.
HouseWordHolds ==
  \A h \in Houses : Live(h) /\ h \notin crossed => WordOf(houses[h]) = word[h]

\* The password of an account is the one last chosen, reset or drawn for it,
\* unless it changed while a request that rewrites the account had read it.
AccountWordHolds == \A a \in Slugs \ mixed : accounts[a] = told[a]

\* In every interleaving, token_version tells sessions of a replaced sticker
\* from those of the current one: no write-back ever restores it.
VersionTellsSticker ==
  \A s \in issued :
    s.sticker # houses[s.house].sticker => s.version < houses[s.house].version
=============================================================================
