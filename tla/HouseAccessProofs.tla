-------------------------- MODULE HouseAccessProofs --------------------------
(***************************************************************************)
(* Theorems about HouseAccess, for every number of houses, blocks, PINs    *)
(* and concurrent requests, failures included.                             *)
(***************************************************************************)
EXTENDS HouseAccess, TLAPS

InHand(r) == req[r].pc \in {"ensure", "provision", "sync", "save"}

\* A request that edits or claims works on a house that is stored, one that
\* creates on none yet; an account about to be written back is known.
Named ==
  \A r \in Requests :
    /\ InHand(r) => \/ req[r].op = "create" /\ req[r].house = Nobody
                    \/ /\ req[r].op # "create"
                       /\ req[r].house \in Houses
                       /\ houses[req[r].house] # Nobody
    /\ req[r].pc = "sync" => req[r].image.user \in Slugs

\* Something was decided about every house that is stored.
Decided == \A h \in Houses : houses[h] # Nobody => word[h] # Nobody

Shaped == TypeOK /\ Named /\ Decided

\* Every sticker in use was read no later than the version that replaced it.
Known(table, h, sticker, version) ==
  /\ table[h] # Nobody
  /\ version <= table[h].version
  /\ sticker # table[h].sticker => version < table[h].version

Dated ==
  /\ \A s \in issued : Known(houses, s.house, s.sticker, s.version)
  /\ \A r \in Requests :
       InHand(r) /\ req[r].op # "create"
         => Known(houses, req[r].house, req[r].image.sticker,
                  req[r].image.version)

\* What a request read of a house is what the house still carries, unless the
\* house was crossed.
Fresh ==
  \A r \in Requests :
    InHand(r) /\ req[r].op # "create" /\ req[r].house \notin crossed
      => WordOf(req[r].image)
           = WordOf(WithAsked(houses[req[r].house], req[r].image.slug,
                              req[r].asked))

Unasked ==
  \A r \in Requests :
    InHand(r) /\ req[r].op = "claim"
      => /\ req[r].asked = Plain
         /\ req[r].house \notin crossed
              => req[r].image.slug = houses[req[r].house].slug

Kept == \A h \in Houses :
          houses[h] # Nobody /\ h \notin crossed => WordOf(houses[h]) = word[h]

\* The same of passwords.
Meant(record, table) ==
  IF record.chosen THEN Chosen ELSE table[record.user]

FreshAccount ==
  \A r \in Requests :
    /\ req[r].pc = "sync" /\ req[r].image.user \notin mixed
         => req[r].password = accounts[req[r].image.user]
    /\ req[r].pc = "profile" /\ req[r].user \notin mixed
         => req[r].password = Meant(req[r], accounts)

-----------------------------------------------------------------------------
(***************************************************************************)
(* The shapes of requests and rows.                                        *)
(***************************************************************************)

LEMMA Shapes ==
  ASSUME TypeOK, NEW r \in Requests
  PROVE  /\ req[r].pc \in {"ensure", "provision", "save"} => req[r] \in Reading
         /\ req[r].pc = "sync" => req[r] \in Syncing
         /\ req[r].pc = "link" => req[r].house \in Houses /\ req[r].pin \in Pins
         /\ req[r].pc = "repin" => req[r].user \in Slugs /\ req[r].pin \in Pins
         /\ req[r].pc = "profile" => /\ req[r].user \in Slugs
                                     /\ req[r].password \in Passwords
         /\ req[r].pc \in {"idle", "ensure", "provision", "save", "sync",
                           "link", "repin", "profile"}
  <1>1. req[r] \in Request
    BY DEF TypeOK
  <1>2. CASE req[r] \in Reading
    BY <1>2 DEF Reading
  <1>3. CASE req[r] \in Syncing
    BY <1>3 DEF Syncing
  <1>4. CASE req[r] \in [pc: {"link"}, house: Houses, pin: Pins]
    BY <1>4
  <1>5. CASE req[r] \in [pc: {"repin"}, user: Slugs, pin: Pins]
    BY <1>5
  <1>6. CASE req[r] \in [pc: {"profile"}, user: Slugs, password: Passwords,
                         chosen: BOOLEAN]
    <2>1. /\ req[r].pc = "profile" /\ req[r].user \in Slugs
          /\ req[r].password \in Passwords
      BY <1>6, Zenon
    <2> QED BY <2>1
  <1>7. CASE req[r] = Idle
    BY <1>7 DEF Idle
  <1> QED BY <1>1, <1>2, <1>3, <1>4, <1>5, <1>6, <1>7 DEF Request

LEMMA Fields ==
  ASSUME TypeOK, NEW r \in Requests, InHand(r)
  PROVE  /\ req[r].op \in {"create", "edit", "claim"}
         /\ req[r].house \in Houses \union {Nobody}
         /\ req[r].image \in Row
         /\ req[r].asked \in Ask
         /\ req[r].pc = "sync" => req[r].password \in Passwords
  <1>1. CASE req[r].pc = "sync"
    <2>1. req[r] \in Syncing
      BY <1>1, Shapes
    <2> QED BY <2>1 DEF Syncing
  <1>2. CASE req[r].pc # "sync"
    <2>1. req[r] \in Reading
      BY <1>2, Shapes DEF InHand
    <2> QED BY <1>2, <2>1 DEF Reading
  <1> QED BY <1>1, <1>2

LEMMA Images ==
  ASSUME NEW row \in Row, NEW image \in Row, NEW user \in Slugs \union {Nobody},
         NEW slug \in Slugs, NEW asked \in Ask
  PROVE  /\ [row EXCEPT !.user = user] \in Row
         /\ EditImage(row, slug, asked) \in Row
         /\ WithImage(row, image) \in Row
         /\ WordOf(row) \in Word
  <1>1. [row EXCEPT !.user = user] \in Row
    BY DEF Row
  <1>2. EditImage(row, slug, asked) \in Row
    BY DEF EditImage, WithAsked, Row, Ask
  <1>3. WithImage(row, image) \in Row
    BY DEF WithImage, Row
  <1>4. WordOf(row) \in Word
    BY DEF WordOf, Row, Word
  <1> QED BY <1>1, <1>2, <1>3, <1>4

\* What ready-to-save leaves of a request.
LEMMA Saved ==
  ASSUME TypeOK, NEW r \in Requests, InHand(r),
         NEW user \in Slugs \union {Nobody}, ReadyToSave(r, user)
  PROVE  req' \in [Requests -> Request]
  <1>1. [pc |-> "save", op |-> req[r].op, house |-> req[r].house,
         image |-> [req[r].image EXCEPT !.user = user],
         asked |-> req[r].asked] \in Reading
    <2>1. [req[r].image EXCEPT !.user = user] \in Row
      BY Fields DEF Row
    <2> QED BY <2>1, Fields DEF Reading
  <1> QED BY <1>1 DEF TypeOK, ReadyToSave, Serve, Request

LEMMA SavedShape ==
  ASSUME Shaped, NEW r \in Requests, InHand(r),
         NEW user \in Slugs \union {Nobody}, ReadyToSave(r, user)
  PROVE  \A q \in Requests :
           /\ q # r => req'[q] = req[q]
           /\ q = r => /\ req'[q].pc = "save"
                       /\ req'[q].op = req[r].op
                       /\ req'[q].house = req[r].house
                       /\ req'[q].image = [req[r].image EXCEPT !.user = user]
                       /\ req'[q].asked = req[r].asked
  BY DEF ReadyToSave, Serve, Shaped, TypeOK

\* A reset leaves a row.
LEMMA ResetRow ==
  ASSUME NEW row \in Row, NEW pin \in Pins
  PROVE  /\ [row EXCEPT !.pin = pin, !.version = @ + 1] \in Row
         /\ [row EXCEPT !.pin = pin, !.version = @ + 1, !.sticker = @ + 1,
                        !.status = "active"] \in Row
  <1>1. row.version + 1 \in Nat /\ row.sticker + 1 \in Nat
    BY DEF Row
  <1>2. [row EXCEPT !.pin = pin, !.version = @ + 1] \in Row
    <2> DEFINE v == row.version + 1
    <2>1. v \in Nat
      BY <1>1
    <2> HIDE DEF v
    <2>2. [row EXCEPT !.pin = pin, !.version = v] \in Row
      BY <2>1 DEF Row
    <2> QED BY <2>2 DEF v
  <1>3. [row EXCEPT !.pin = pin, !.version = @ + 1, !.sticker = @ + 1,
                    !.status = "active"] \in Row
    <2> DEFINE v == row.version + 1
               s == row.sticker + 1
    <2>1. v \in Nat /\ s \in Nat
      BY <1>1
    <2> HIDE DEF v, s
    <2>2. [row EXCEPT !.pin = pin, !.version = v, !.sticker = s,
                      !.status = "active"] \in Row
      BY <2>1 DEF Row, Statuses
    <2> QED BY <2>2 DEF v, s
  <1> QED BY <1>2, <1>3

LEMMA RowChange ==
  ASSUME TypeOK, NEW r \in Requests, NEW h \in Houses, NEW row \in Row,
         ChangeRow(r, h, row)
  PROVE  /\ houses' \in [Houses -> Row \union {Nobody}]
         /\ crossed' \in SUBSET Houses
         /\ crossed \subseteq crossed'
         /\ houses'[h] = row
         /\ \A k \in Houses \ {h} : houses'[k] = houses[k]
         /\ \A q \in Requests \ {r} :
              Holding(q, h) /\ row # houses[h] => h \in crossed'
         /\ \A k \in crossed' : k # h => k \in crossed
  <1>1. houses' = [houses EXCEPT ![h] = row]
    BY DEF ChangeRow
  <1>2. crossed' = IF row # houses[h] /\ \E q \in Requests \ {r} : Holding(q, h)
                   THEN crossed \union {h} ELSE crossed
    BY DEF ChangeRow
  <1>3. /\ houses' \in [Houses -> Row \union {Nobody}]
        /\ houses'[h] = row
        /\ \A k \in Houses \ {h} : houses'[k] = houses[k]
    BY <1>1 DEF TypeOK
  <1> HIDE DEF Holding
  <1>4. crossed \subseteq crossed' /\ \A k \in crossed' : k # h => k \in crossed
    BY <1>2
  <1>5. \A q \in Requests \ {r} :
          Holding(q, h) /\ row # houses[h] => h \in crossed'
    BY <1>2
  <1>6. crossed' \in SUBSET Houses
    BY <1>2 DEF TypeOK
  <1> QED BY <1>3, <1>4, <1>5, <1>6

LEMMA AccountChange ==
  ASSUME TypeOK, NEW r \in Requests, NEW a \in Slugs, NEW password \in Passwords,
         ChangeAccount(r, a, password)
  PROVE  /\ accounts' \in [Slugs -> Passwords \union {Nobody}]
         /\ mixed' \in SUBSET Slugs
         /\ mixed \subseteq mixed'
         /\ accounts'[a] = password
         /\ \A b \in Slugs \ {a} : accounts'[b] = accounts[b]
         /\ \A q \in Requests \ {r} :
              HoldingAccount(q, a) /\ password # accounts[a] => a \in mixed'
         /\ \A b \in mixed' : b # a => b \in mixed
  <1>1. accounts' = [accounts EXCEPT ![a] = password]
    BY DEF ChangeAccount
  <1>2. mixed' = IF /\ password # accounts[a]
                    /\ \E q \in Requests \ {r} : HoldingAccount(q, a)
                 THEN mixed \union {a} ELSE mixed
    BY DEF ChangeAccount
  <1>3. /\ accounts' \in [Slugs -> Passwords \union {Nobody}]
        /\ accounts'[a] = password
        /\ \A b \in Slugs \ {a} : accounts'[b] = accounts[b]
    BY <1>1 DEF TypeOK
  <1> HIDE DEF HoldingAccount
  <1>4. mixed \subseteq mixed' /\ \A b \in mixed' : b # a => b \in mixed
    BY <1>2
  <1>5. \A q \in Requests \ {r} :
          HoldingAccount(q, a) /\ password # accounts[a] => a \in mixed'
    BY <1>2
  <1>6. mixed' \in SUBSET Slugs
    BY <1>2 DEF TypeOK
  <1> QED BY <1>3, <1>4, <1>5, <1>6

LEMMA Words ==
  ASSUME Shaped, NEW h \in Houses, houses[h] # Nobody
  PROVE  houses[h] \in Row /\ word[h] \in Word
  BY DEF Shaped, TypeOK, Decided

-----------------------------------------------------------------------------
(***************************************************************************)
(* The shape is kept, action by action.                                    *)
(***************************************************************************)

\* Answering a request that changed nothing, or is now idle.
LEMMA ServeShape ==
  ASSUME Shaped, NEW r \in Requests, NEW record \in Request, Serve(r, record),
         record = Idle \/ record.pc \in {"link", "repin", "profile"},
         UNCHANGED houses
  PROVE  Named' /\ req' \in [Requests -> Request]
  <1>1. req' \in [Requests -> Request]
    BY DEF Serve, Shaped, TypeOK
  <1>2. \A q \in Requests : q # r => req'[q] = req[q]
    BY DEF Serve, Shaped, TypeOK
  <1>3. req'[r].pc \in {"idle", "link", "repin", "profile"}
    BY DEF Serve, Shaped, TypeOK, Idle
  <1>4. Named'
    BY <1>2, <1>3 DEF Shaped, Named, InHand
  <1> QED BY <1>1, <1>4

LEMMA ReadShape ==
  ASSUME Shaped, NEW r \in Requests, NEW record \in Reading, Serve(r, record),
         record.pc = "ensure",
         \/ record.op = "create" /\ record.house = Nobody
         \/ record.op # "create" /\ record.house \in Houses
              /\ houses[record.house] # Nobody,
         UNCHANGED <<rows, users, issued>>
  PROVE  Shaped'
  <1>1. record \in Request
    BY DEF Request
  <1>2. req' \in [Requests -> Request]
    BY <1>1 DEF Serve, Shaped, TypeOK
  <1>3. TypeOK' /\ Decided'
    BY <1>2 DEF Shaped, TypeOK, Decided, rows, users
  <1>4. \A q \in Requests : q # r => req'[q] = req[q]
    BY DEF Serve, Shaped, TypeOK
  <1>5. req'[r] = record
    BY DEF Serve, Shaped, TypeOK
  <1>6. houses' = houses
    BY DEF rows
  <1>7. Named'
    BY <1>4, <1>5, <1>6 DEF Shaped, Named, InHand
  <1> QED BY <1>3, <1>7 DEF Shaped

LEMMA ReadySteps ==
  ASSUME Shaped, NEW r \in Requests, InHand(r),
         NEW user \in Slugs \union {Nobody}, ReadyToSave(r, user),
         UNCHANGED houses
  PROVE  Named' /\ req' \in [Requests -> Request]
  <1>1. req' \in [Requests -> Request]
    BY Saved DEF Shaped
  <1>2. \A q \in Requests : q # r => req'[q] = req[q]
    BY SavedShape
  <1>3. /\ req'[r].pc = "save"
        /\ req'[r].op = req[r].op
        /\ req'[r].house = req[r].house
    BY SavedShape
  <1>4. Named'
    BY <1>2, <1>3 DEF Shaped, Named, InHand
  <1> QED BY <1>1, <1>4

LEMMA EnsureShape ==
  ASSUME Shaped, NEW r \in Requests, Ensure(r)
  PROVE  Shaped'
  <1>1. InHand(r) /\ req[r] \in Reading
    BY Shapes DEF Ensure, InHand, Shaped
  <1>2. UNCHANGED <<rows, users, issued>>
    BY DEF Ensure
  <1>3. req[r].image \in Row
    BY <1>1, Fields DEF Shaped
  <1>4. SUFFICES Named' /\ req' \in [Requests -> Request]
    BY <1>2, <1>4 DEF Shaped, TypeOK, Decided, rows, users
  <1>5. ASSUME NEW a \in Looked(req[r].image), Exists(a), Found(r, a)
        PROVE  Named' /\ req' \in [Requests -> Request]
    <2>1. a \in Slugs
      BY <1>3, <1>5 DEF Looked, Row
    <2>2. CASE ReadyToSave(r, a)
      BY <1>1, <1>2, <2>1, <2>2, ReadySteps DEF rows
    <2>3. CASE Serve(r, [pc |-> "sync", op |-> req[r].op,
                         house |-> req[r].house,
                         image |-> [req[r].image EXCEPT !.user = a],
                         asked |-> req[r].asked, password |-> accounts[a]])
      <3> DEFINE record == [pc |-> "sync", op |-> req[r].op,
                            house |-> req[r].house,
                            image |-> [req[r].image EXCEPT !.user = a],
                            asked |-> req[r].asked, password |-> accounts[a]]
      <3>1. [req[r].image EXCEPT !.user = a] \in Row
        BY <1>3, <2>1, Images DEF Row
      <3>2. accounts[a] \in Passwords
        BY <1>5, <2>1 DEF Exists, Shaped, TypeOK
      <3>3. record \in Syncing
        BY <1>1, <3>1, <3>2, Fields DEF Syncing, Shaped
      <3>4. /\ record.pc = "sync" /\ record.op = req[r].op
            /\ record.house = req[r].house /\ record.image.user = a
        BY <1>3 DEF Row
      <3> HIDE DEF record
      <3>5. req' \in [Requests -> Request]
        BY <2>3, <3>3 DEF Serve, Request, Shaped, TypeOK, record
      <3>6. req'[r] = record
        BY <2>3 DEF Serve, Shaped, TypeOK, record
      <3>7. \A q \in Requests : q # r => req'[q] = req[q]
        BY <2>3 DEF Serve, Shaped, TypeOK
      <3>8. houses' = houses
        BY <1>2 DEF rows
      <3>9. Named'
        BY <1>1, <2>1, <3>4, <3>6, <3>7, <3>8 DEF Shaped, Named, InHand
      <3> QED BY <3>5, <3>9
    <2> QED BY <1>5, <2>2, <2>3 DEF Found
  <1>6. ASSUME Serve(r, [req[r] EXCEPT !.pc = "provision"])
        PROVE  Named' /\ req' \in [Requests -> Request]
    <2>1. [req[r] EXCEPT !.pc = "provision"] \in Reading
      BY <1>1 DEF Reading
    <2>2. req' \in [Requests -> Request]
      BY <1>6, <2>1 DEF Serve, Request, Shaped, TypeOK
    <2>3. req'[r] = [req[r] EXCEPT !.pc = "provision"]
      BY <1>6 DEF Serve, Shaped, TypeOK
    <2>4. /\ req'[r].pc = "provision" /\ req'[r].op = req[r].op
          /\ req'[r].house = req[r].house
      BY <1>1, <2>3 DEF Reading
    <2>5. \A q \in Requests : q # r => req'[q] = req[q]
      BY <1>6 DEF Serve, Shaped, TypeOK
    <2>6. houses' = houses
      BY <1>2 DEF rows
    <2>7. Named'
      BY <1>1, <2>4, <2>5, <2>6 DEF Shaped, Named, InHand
    <2> QED BY <2>2, <2>7
  <1>7. ASSUME ReadyToSave(r, req[r].image.user)
        PROVE  Named' /\ req' \in [Requests -> Request]
    <2>1. req[r].image.user \in Slugs \union {Nobody}
      BY <1>3 DEF Row
    <2> QED BY <1>1, <1>2, <1>7, <2>1, ReadySteps DEF rows
  <1> QED BY <1>5, <1>6, <1>7 DEF Ensure

LEMMA SyncShape ==
  ASSUME Shaped, NEW r \in Requests, Sync(r)
  PROVE  Shaped'
  <1>1. InHand(r) /\ req[r].image.user \in Slugs /\ req[r].password \in Passwords
    BY Fields DEF Sync, InHand, Shaped, Named
  <1>2. Named' /\ req' \in [Requests -> Request]
    BY <1>1, ReadySteps DEF Sync, rows
  <1>3. /\ accounts' \in [Slugs -> Passwords \union {Nobody}]
        /\ mixed' \in SUBSET Slugs
    BY <1>1, AccountChange DEF Sync, Shaped, TypeOK
  <1> QED BY <1>2, <1>3 DEF Sync, Shaped, TypeOK, Decided, rows

LEMMA ProvisionShape ==
  ASSUME Shaped, NEW r \in Requests, Provision(r)
  PROVE  Shaped'
  <1> DEFINE a == req[r].image.slug
  <1>1. InHand(r)
    BY DEF Provision, InHand
  <1>2. /\ a \in Slugs /\ req[r].image.pin \in Pins
        /\ req[r].image.user \in Slugs \union {Nobody}
    BY <1>1, Fields DEF Shaped, Row
  <1>3. houses' = houses /\ word' = word /\ crossed' = crossed /\ issued' = issued
    BY DEF Provision, rows
  <1>4. CASE /\ ChangeAccount(r, a, req[r].image.pin)
             /\ told' = [told EXCEPT ![a] = req[r].image.pin]
             /\ ReadyToSave(r, a)
    <2>1. Named' /\ req' \in [Requests -> Request]
      BY <1>1, <1>2, <1>3, <1>4, ReadySteps
    <2>2. /\ accounts' \in [Slugs -> Passwords \union {Nobody}]
          /\ mixed' \in SUBSET Slugs
      BY <1>2, <1>4, AccountChange DEF Shaped, Passwords
    <2>3. told' \in [Slugs -> Passwords \union {Nobody}]
      BY <1>2, <1>4 DEF Shaped, TypeOK, Passwords
    <2> QED BY <1>3, <2>1, <2>2, <2>3 DEF Shaped, TypeOK, Decided
  <1>5. CASE /\ \/ Finish(r)
                \/ ReadyToSave(r, req[r].image.user)
             /\ UNCHANGED users
    <2>1. CASE Finish(r)
      <3>1. Idle \in Request
        BY DEF Request
      <3>2. Named' /\ req' \in [Requests -> Request]
        BY <1>3, <2>1, <3>1, ServeShape DEF Finish
      <3> QED BY <1>3, <1>5, <3>2 DEF Shaped, TypeOK, Decided, users
    <2>2. CASE ReadyToSave(r, req[r].image.user)
      <3>1. Named' /\ req' \in [Requests -> Request]
        BY <1>1, <1>2, <1>3, <2>2, ReadySteps
      <3> QED BY <1>3, <1>5, <3>1 DEF Shaped, TypeOK, Decided, users
    <2> QED BY <1>5, <2>1, <2>2
  <1> QED BY <1>4, <1>5 DEF Provision

\* The statements that write a row.
Writes(r, h, row, decided, record) ==
  /\ row \in Row /\ ChangeRow(r, h, row)
  /\ decided \in Word /\ word' = [word EXCEPT ![h] = decided]
  /\ record \in Request /\ Serve(r, record)
  /\ record = Idle \/ record.pc = "link"
  /\ issued' \in SUBSET Session
  /\ UNCHANGED users

LEMMA WriteShape ==
  ASSUME Shaped, NEW r \in Requests, NEW h \in Houses,
         NEW row, NEW decided, NEW record, Writes(r, h, row, decided, record)
  PROVE  Shaped'
  <1>1. /\ row \in Row /\ ChangeRow(r, h, row)
        /\ decided \in Word /\ word' = [word EXCEPT ![h] = decided]
        /\ record \in Request /\ Serve(r, record)
        /\ issued' \in SUBSET Session
        /\ UNCHANGED users
    BY DEF Writes
  <1>2. /\ houses' \in [Houses -> Row \union {Nobody}]
        /\ crossed' \in SUBSET Houses
        /\ houses'[h] = row
        /\ \A k \in Houses \ {h} : houses'[k] = houses[k]
    BY <1>1, RowChange DEF Shaped
  <1>3. row # Nobody /\ decided # Nobody
    BY <1>1, MarksAssumption
  <1>4. req' \in [Requests -> Request]
    BY <1>1 DEF Serve, Shaped, TypeOK
  <1>5. TypeOK'
    BY <1>1, <1>2, <1>4 DEF Shaped, TypeOK, users
  <1>6. Decided'
    BY <1>1, <1>2, <1>3 DEF Shaped, TypeOK, Decided
  <1>7. \A q \in Requests : q # r => req'[q] = req[q]
    BY <1>1 DEF Serve, Shaped, TypeOK
  <1>8. req'[r].pc \in {"idle", "link"}
    <2>1. req'[r] = record
      BY <1>1 DEF Serve, Shaped, TypeOK
    <2> QED BY <2>1 DEF Writes, Idle
  <1>9. Named'
    BY <1>2, <1>3, <1>7, <1>8 DEF Shaped, Named, InHand
  <1> QED BY <1>5, <1>6, <1>9 DEF Shaped

LEMMA CreateSaveShape ==
  ASSUME Shaped, NEW r \in Requests, NEW h \in Houses, CreateSave(r, h)
  PROVE  Shaped'
  <1>1. InHand(r)
    BY DEF CreateSave, InHand
  <1>2. req[r].image \in Row
    BY <1>1, Fields DEF Shaped
  <1>3. WordOf(req[r].image) \in Word
    BY <1>2 DEF WordOf, Row, Word
  <1>4. issued' \in SUBSET Session
    BY DEF CreateSave, Shaped, TypeOK
  <1>5. Idle \in Request
    BY DEF Request
  <1>6. Writes(r, h, req[r].image, WordOf(req[r].image), Idle)
    BY <1>2, <1>3, <1>4, <1>5 DEF CreateSave, Finish, Writes
  <1> QED BY <1>6, WriteShape

LEMMA EditSaveShape ==
  ASSUME Shaped, NEW r \in Requests, EditSave(r)
  PROVE  Shaped'
  <1> DEFINE h == req[r].house
             image == req[r].image
  <1>1. InHand(r) /\ h \in Houses
    BY DEF EditSave, InHand, Shaped, Named
  <1>2. image \in Row /\ req[r].asked \in Ask
    BY <1>1, Fields DEF Shaped
  <1>3. Idle \in Request /\ issued' \in SUBSET Session
    BY DEF Request, EditSave, Shaped, TypeOK
  <1>4. CASE Live(h)
    <2>1. houses[h] \in Row /\ word[h] \in Word
      BY <1>1, <1>4, Words DEF Live
    <2>2. WithImage(houses[h], image) \in Row
      BY <1>2, <2>1 DEF WithImage, Row
    <2>3. image.slug \in Slugs
      BY <1>2 DEF Row
    <2>4. WithAsked(word[h], image.slug, req[r].asked) \in Word
      BY <1>2, <2>1, <2>3 DEF WithAsked, Word, Ask
    <2>5. word' = [word EXCEPT ![h] = WithAsked(word[h], image.slug, req[r].asked)]
      BY <1>4 DEF EditSave
    <2>6. ChangeRow(r, h, WithImage(houses[h], image))
      BY <1>4 DEF EditSave
    <2>7. Writes(r, h, WithImage(houses[h], image),
                 WithAsked(word[h], image.slug, req[r].asked), Idle)
      BY <1>3, <2>2, <2>4, <2>5, <2>6 DEF EditSave, Finish, Writes
    <2> QED BY <1>1, <2>7, WriteShape
  <1>5. CASE ~Live(h)
    <2>1. UNCHANGED <<rows, users, issued>>
      BY <1>5 DEF EditSave
    <2>2. Named' /\ req' \in [Requests -> Request]
      BY <1>3, <2>1, ServeShape DEF EditSave, Finish, rows
    <2> QED BY <2>1, <2>2 DEF Shaped, TypeOK, Decided, rows, users
  <1> QED BY <1>4, <1>5

LEMMA ClaimSaveShape ==
  ASSUME Shaped, NEW r \in Requests, ClaimSave(r)
  PROVE  Shaped'
  <1> DEFINE h == req[r].house
             image == req[r].image
  <1>1. InHand(r) /\ h \in Houses
    BY DEF ClaimSave, InHand, Shaped, Named
  <1>2. image \in Row
    BY <1>1, Fields DEF Shaped
  <1>3. issued' \in SUBSET Session
    BY <1>1, <1>2 DEF ClaimSave, Shaped, TypeOK, Session, Row
  <1>4. Idle \in Request
    BY DEF Request
  <1>5. UNCHANGED <<users, word>>
    BY DEF ClaimSave
  <1>6. CASE Live(h) /\ ChangeRow(r, h, WithImage(houses[h], image))
    <2>1. houses[h] \in Row /\ word[h] \in Word /\ houses[h] # Nobody
      BY <1>1, <1>6, Words DEF Live
    <2>2. WithImage(houses[h], image) \in Row
      BY <1>2, <2>1 DEF WithImage, Row
    <2>3. word' = [word EXCEPT ![h] = word[h]]
      BY <1>1, <1>5 DEF Shaped, TypeOK
    <2>4. Writes(r, h, WithImage(houses[h], image), word[h], Idle)
      BY <1>3, <1>4, <1>5, <1>6, <2>1, <2>2, <2>3 DEF ClaimSave, Finish, Writes
    <2> QED BY <1>1, <2>4, WriteShape
  <1>7. CASE UNCHANGED <<houses, crossed>>
    <2>1. Named' /\ req' \in [Requests -> Request]
      BY <1>4, <1>7, ServeShape DEF ClaimSave, Finish
    <2> QED BY <1>3, <1>5, <1>7, <2>1 DEF Shaped, TypeOK, Decided, users
  <1> QED BY <1>6, <1>7 DEF ClaimSave

LEMMA ResetShape ==
  ASSUME Shaped, NEW r \in Requests, NEW h \in Houses, NEW pin \in Pins,
         ResetPin(r, h, pin) \/ RegenerateToken(r, h, pin)
  PROVE  Shaped'
  <1>1. houses[h] # Nobody
    BY DEF ResetPin, RegenerateToken, Live
  <1>2. houses[h] \in Row /\ word[h] \in Word
    BY <1>1, Words
  <1>3. [pc |-> "link", house |-> h, pin |-> pin] \in Request
    BY DEF Request
  <1>4. issued' \in SUBSET Session
    BY DEF ResetPin, RegenerateToken, Shaped, TypeOK
  <1>5. CASE ResetPin(r, h, pin)
    <2>1. [houses[h] EXCEPT !.pin = pin, !.version = @ + 1] \in Row
      BY <1>2, ResetRow
    <2>2. [word[h] EXCEPT !.pin = pin] \in Word
      BY <1>2 DEF Word
    <2>3. word' = [word EXCEPT ![h] = [word[h] EXCEPT !.pin = pin]]
      BY <1>5 DEF ResetPin
    <2>4. Writes(r, h, [houses[h] EXCEPT !.pin = pin, !.version = @ + 1],
                 [word[h] EXCEPT !.pin = pin],
                 [pc |-> "link", house |-> h, pin |-> pin])
      BY <1>3, <1>4, <1>5, <2>1, <2>2, <2>3 DEF ResetPin, Writes
    <2> QED BY <2>4, WriteShape
  <1>6. CASE RegenerateToken(r, h, pin)
    <2>1. [houses[h] EXCEPT !.pin = pin, !.version = @ + 1, !.sticker = @ + 1,
                            !.status = "active"] \in Row
      BY <1>2, ResetRow
    <2>2. [word[h] EXCEPT !.pin = pin, !.status = "active"] \in Word
      BY <1>2 DEF Word, Statuses
    <2>3. word' = [word EXCEPT ![h] = [word[h] EXCEPT !.pin = pin,
                                                      !.status = "active"]]
      BY <1>6 DEF RegenerateToken, Shaped, TypeOK
    <2>4. Writes(r, h, [houses[h] EXCEPT !.pin = pin, !.version = @ + 1,
                                         !.sticker = @ + 1, !.status = "active"],
                 [word[h] EXCEPT !.pin = pin, !.status = "active"],
                 [pc |-> "link", house |-> h, pin |-> pin])
      BY <1>3, <1>4, <1>6, <2>1, <2>2, <2>3 DEF RegenerateToken, Writes
    <2> QED BY <2>4, WriteShape
  <1> QED BY <1>5, <1>6

LEMMA FirstReads ==
  ASSUME Shaped, NEW r \in Requests
  PROVE  /\ \A slug \in Slugs, pin \in Pins : CreateHouse(r, slug, pin) => Shaped'
         /\ \A h \in Houses, slug \in Slugs, ask \in Asks :
              EditRead(r, h, slug, ask) => Shaped'
         /\ \A h \in Houses : ClaimRead(r, h) => Shaped'
  <1>1. Plain \in Ask
    BY DEF Plain, Ask
  <1>2. ASSUME NEW slug \in Slugs, NEW pin \in Pins, CreateHouse(r, slug, pin)
        PROVE  Shaped'
    <2> DEFINE record == [pc |-> "ensure", op |-> "create", house |-> Nobody,
                          image |-> Legacy(slug, pin), asked |-> Plain]
    <2>1. Legacy(slug, pin) \in Row
      BY DEF Legacy, Row, Statuses
    <2>2. record \in Reading
      BY <1>1, <2>1 DEF Reading
    <2>3. record.pc = "ensure" /\ record.op = "create" /\ record.house = Nobody
      OBVIOUS
    <2>4. Serve(r, record) /\ UNCHANGED <<rows, users, issued>>
      BY <1>2 DEF CreateHouse
    <2> HIDE DEF record
    <2> QED BY <2>2, <2>3, <2>4, ReadShape
  <1>3. ASSUME NEW h \in Houses, NEW slug \in Slugs, NEW ask \in Asks,
               EditRead(r, h, slug, ask)
        PROVE  Shaped'
    <2> DEFINE record == [pc |-> "ensure", op |-> "edit", house |-> h,
                          image |-> EditImage(houses[h], slug, ask),
                          asked |-> ask]
    <2>1. houses[h] # Nobody /\ houses[h] \in Row
      BY <1>3, Words DEF EditRead, Live
    <2>2. ask \in Ask
      BY BoundsAssumption
    <2>3. EditImage(houses[h], slug, ask) \in Row
      BY <2>1, <2>2 DEF EditImage, WithAsked, Row, Ask
    <2>4. record \in Reading
      BY <2>2, <2>3 DEF Reading
    <2>5. record.pc = "ensure" /\ record.op # "create" /\ record.house = h
      OBVIOUS
    <2>6. Serve(r, record) /\ UNCHANGED <<rows, users, issued>>
      BY <1>3 DEF EditRead
    <2> HIDE DEF record
    <2> QED BY <2>1, <2>4, <2>5, <2>6, ReadShape
  <1>4. ASSUME NEW h \in Houses, ClaimRead(r, h)
        PROVE  Shaped'
    <2> DEFINE record == [pc |-> "ensure", op |-> "claim", house |-> h,
                          image |-> houses[h], asked |-> Plain]
    <2>1. houses[h] # Nobody /\ houses[h] \in Row
      BY <1>4, Words DEF ClaimRead, Live
    <2>2. record \in Reading
      BY <1>1, <2>1 DEF Reading
    <2>3. record.pc = "ensure" /\ record.op # "create" /\ record.house = h
      OBVIOUS
    <2>4. Serve(r, record) /\ UNCHANGED <<rows, users, issued>>
      BY <1>4 DEF ClaimRead
    <2> HIDE DEF record
    <2> QED BY <2>1, <2>2, <2>3, <2>4, ReadShape
  <1> QED BY <1>2, <1>3, <1>4

\* Steps that answer, or go on, without writing a house.
LEMMA OtherSteps ==
  ASSUME Shaped, NEW r \in Requests
  PROVE  /\ ResetLink(r) => Shaped'
         /\ ResetAccount(r) => Shaped'
         /\ \A a \in Slugs, c \in BOOLEAN : ProfileRead(r, a, c) => Shaped'
         /\ ProfileSave(r) => Shaped'
         /\ Fail(r) => Shaped'
  <1>1. Idle \in Request
    BY DEF Request
  <1>2. ASSUME NEW record \in Request, Serve(r, record),
               record = Idle \/ record.pc \in {"link", "repin", "profile"},
               UNCHANGED <<rows, users, issued>>
        PROVE  Shaped'
    <2>1. Named' /\ req' \in [Requests -> Request]
      BY <1>2, ServeShape DEF rows
    <2> QED BY <1>2, <2>1 DEF Shaped, TypeOK, Decided, rows, users
  <1>3. ASSUME ResetLink(r)
        PROVE  Shaped'
    <2> DEFINE h == req[r].house
    <2>1. h \in Houses /\ req[r].pin \in Pins
      BY <1>3, Shapes DEF ResetLink, Shaped
    <2>2. UNCHANGED <<rows, users, issued>>
      BY <1>3 DEF ResetLink
    <2>3. CASE Live(h) /\ houses[h].user # Nobody
      <3> DEFINE record == [pc |-> "repin", user |-> houses[h].user,
                            pin |-> req[r].pin]
      <3>1. houses[h].user \in Slugs
        BY <2>1, <2>3, Words DEF Live, Row
      <3>2. record \in Request
        BY <2>1, <3>1 DEF Request
      <3>3. record.pc = "repin"
        OBVIOUS
      <3>4. Serve(r, record)
        BY <1>3, <2>3 DEF ResetLink
      <3> HIDE DEF record
      <3> QED BY <1>2, <2>2, <3>2, <3>3, <3>4
    <2>4. CASE ~(Live(h) /\ houses[h].user # Nobody)
      BY <1>1, <1>2, <1>3, <2>2, <2>4 DEF ResetLink, Finish
    <2> QED BY <2>3, <2>4
  <1>4. ASSUME ResetAccount(r)
        PROVE  Shaped'
    <2>1. req[r].user \in Slugs /\ req[r].pin \in Pins
      BY <1>4, Shapes DEF ResetAccount, Shaped
    <2>2. /\ accounts' \in [Slugs -> Passwords \union {Nobody}]
          /\ mixed' \in SUBSET Slugs
      BY <1>4, <2>1, AccountChange DEF ResetAccount, Shaped, Passwords
    <2>3. told' \in [Slugs -> Passwords \union {Nobody}]
      BY <1>4, <2>1 DEF ResetAccount, Shaped, TypeOK, Passwords
    <2>4. UNCHANGED <<rows, issued>> /\ Serve(r, Idle)
      BY <1>4 DEF ResetAccount, Finish
    <2>5. Named' /\ req' \in [Requests -> Request]
      BY <1>1, <2>4, ServeShape DEF rows
    <2> QED BY <2>2, <2>3, <2>4, <2>5 DEF Shaped, TypeOK, Decided, rows
  <1>5. ASSUME NEW a \in Slugs, NEW c \in BOOLEAN, ProfileRead(r, a, c)
        PROVE  Shaped'
    <2> DEFINE record == [pc |-> "profile", user |-> a, chosen |-> c,
                          password |-> IF c THEN Chosen ELSE accounts[a]]
    <2>1. (IF c THEN Chosen ELSE accounts[a]) \in Passwords
      BY <1>5 DEF ProfileRead, Exists, Shaped, TypeOK, Passwords
    <2>2. record \in [pc: {"profile"}, user: Slugs, password: Passwords,
                      chosen: BOOLEAN]
      BY <2>1, Zenon
    <2>3. record \in Request
      BY <2>2 DEF Request
    <2>4. record.pc = "profile"
      OBVIOUS
    <2>5. Serve(r, record) /\ UNCHANGED <<rows, users, issued>>
      BY <1>5 DEF ProfileRead
    <2> HIDE DEF record
    <2> QED BY <1>2, <2>3, <2>4, <2>5
  <1>6. ASSUME ProfileSave(r)
        PROVE  Shaped'
    <2>1. req[r].user \in Slugs /\ req[r].password \in Passwords
      BY <1>6, Shapes DEF ProfileSave, Shaped
    <2>2. /\ accounts' \in [Slugs -> Passwords \union {Nobody}]
          /\ mixed' \in SUBSET Slugs
      BY <1>6, <2>1, AccountChange DEF ProfileSave, Shaped
    <2>3. told' = told \/ told' = [told EXCEPT ![req[r].user] = Chosen]
      BY <1>6 DEF ProfileSave
    <2>4. told' \in [Slugs -> Passwords \union {Nobody}]
      BY <2>3 DEF Shaped, TypeOK, Passwords
    <2>5. UNCHANGED <<rows, issued>> /\ Serve(r, Idle)
      BY <1>6 DEF ProfileSave, Finish
    <2>6. Named' /\ req' \in [Requests -> Request]
      BY <1>1, <2>5, ServeShape DEF rows
    <2> QED BY <2>2, <2>4, <2>5, <2>6 DEF Shaped, TypeOK, Decided, rows
  <1>7. Fail(r) => Shaped'
    BY <1>1, <1>2 DEF Fail, Finish
  <1> QED BY <1>3, <1>4, <1>5, <1>6, <1>7

LEMMA DeleteShape ==
  ASSUME Shaped, NEW h \in Houses, DeleteHouse(h)
  PROVE  Shaped'
  <1>1. houses[h] # Nobody /\ houses[h] \in Row
    BY Words DEF DeleteHouse, Live
  <1>2. [houses[h] EXCEPT !.state = "deleted"] \in Row
    BY <1>1 DEF Row
  <1>3. [houses[h] EXCEPT !.state = "deleted"] # Nobody
    BY <1>2, MarksAssumption
  <1>4. houses' = [houses EXCEPT ![h] = [houses[h] EXCEPT !.state = "deleted"]]
    BY DEF DeleteHouse
  <1>5. TypeOK'
    BY <1>2, <1>4 DEF DeleteHouse, Shaped, TypeOK, users
  <1>6. \A k \in Houses : houses'[k] # Nobody <=> houses[k] # Nobody
    BY <1>1, <1>3, <1>4 DEF Shaped, TypeOK
  <1>7. UNCHANGED <<word, req>>
    BY DEF DeleteHouse
  <1> QED BY <1>5, <1>6, <1>7 DEF Shaped, Named, Decided, InHand

LEMMA InitShape == Init => Shaped
  <1> SUFFICES ASSUME Init PROVE Shaped
    OBVIOUS
  <1>1. \A s \in Slugs, p \in Pins : Legacy(s, p) \in Row
    BY DEF Legacy, Row, Statuses
  <1>2. \A row \in Row : WordOf(row) \in Word
    BY DEF WordOf, Row, Word
  <1>3. houses \in [Houses -> Row \union {Nobody}]
    BY <1>1 DEF Init
  <1>4. \A h \in Houses : houses[h] # Nobody => word[h] = WordOf(houses[h])
    BY DEF Init
  <1>5. Decided
    BY <1>2, <1>3, <1>4, MarksAssumption DEF Decided
  <1>6. word \in [Houses -> Word \union {Nobody}]
    BY <1>2, <1>3 DEF Init
  <1>7. TypeOK
    BY <1>3, <1>6 DEF Init, TypeOK, Request
  <1>8. Named
    BY DEF Init, Named, InHand, Idle
  <1> QED BY <1>5, <1>7, <1>8 DEF Shaped

LEMMA StepShape == Shaped /\ [Next]_vars => Shaped'
  <1> SUFFICES ASSUME Shaped, [Next]_vars PROVE Shaped'
    OBVIOUS
  <1>1. CASE UNCHANGED vars
    BY <1>1 DEF vars, rows, users, Shaped, TypeOK, Named, Decided, InHand
  <1>2. ASSUME NEW h \in Houses, DeleteHouse(h)
        PROVE  Shaped'
    BY <1>2, DeleteShape
  <1>3. ASSUME NEW r \in Requests, Ensure(r) \/ Sync(r) \/ Provision(r)
        PROVE  Shaped'
    BY <1>3, EnsureShape, SyncShape, ProvisionShape
  <1>4. ASSUME NEW r \in Requests, EditSave(r) \/ ClaimSave(r)
        PROVE  Shaped'
    BY <1>4, EditSaveShape, ClaimSaveShape
  <1>5. ASSUME NEW r \in Requests, NEW h \in Houses,
               \/ CreateSave(r, h)
               \/ \E p \in Pins : ResetPin(r, h, p) \/ RegenerateToken(r, h, p)
        PROVE  Shaped'
    BY <1>5, CreateSaveShape, ResetShape
  <1>6. ASSUME NEW r \in Requests,
               \/ \E s \in Slugs, p \in Pins : CreateHouse(r, s, p)
               \/ \E h \in Houses, s \in Slugs, ask \in Asks : EditRead(r, h, s, ask)
               \/ \E h \in Houses : ClaimRead(r, h)
        PROVE  Shaped'
    BY <1>6, FirstReads
  <1>7. ASSUME NEW r \in Requests,
               \/ ResetLink(r) \/ ResetAccount(r) \/ ProfileSave(r) \/ Fail(r)
               \/ \E a \in Slugs, c \in BOOLEAN : ProfileRead(r, a, c)
        PROVE  Shaped'
    BY <1>7, OtherSteps
  <1> QED BY <1>1, <1>2, <1>3, <1>4, <1>5, <1>6, <1>7 DEF Next

\* The tables and the requests always have their shape: in particular nobody
\* is ever asked to write back an account that does not exist.
THEOREM TypeCorrect == Spec => []TypeOK
  <1>1. Shaped => TypeOK
    BY DEF Shaped
  <1> QED BY InitShape, StepShape, <1>1, PTL DEF Spec

-----------------------------------------------------------------------------
(***************************************************************************)
(* What a step does to the readings in hand, and to the rows.              *)
(***************************************************************************)

\* Request q goes on with the reading it has: only the account may change.
GoesOn(q) ==
  /\ InHand(q)
  /\ req'[q].op = req[q].op /\ req'[q].house = req[q].house
  /\ req'[q].asked = req[q].asked
  /\ req'[q].image.slug = req[q].image.slug
  /\ req'[q].image.status = req[q].image.status
  /\ req'[q].image.pin = req[q].image.pin
  /\ req'[q].image.sticker = req[q].image.sticker
  /\ req'[q].image.version = req[q].image.version

\* Request q has just read the house it works on.
JustRead(q) ==
  /\ req'[q].house \in Houses /\ houses[req'[q].house] \in Row
  /\ \E slug \in Slugs, ask \in Ask :
       /\ req'[q].asked = ask
       /\ req'[q].image = EditImage(houses[req'[q].house], slug, ask)
       /\ req'[q].op = "claim" => /\ ask = Plain
                                  /\ slug = houses[req'[q].house].slug
  /\ UNCHANGED <<rows, issued>>

Hand(q) == InHand(q)' => \/ GoesOn(q)
                         \/ req'[q].op = "create"
                         \/ JustRead(q)

LEMMA SameHand ==
  ASSUME NEW q \in Requests, req'[q] = req[q]
  PROVE  Hand(q)
  BY DEF Hand, GoesOn, InHand

LEMMA OtherHands ==
  ASSUME Shaped, NEW r \in Requests, NEW record, Serve(r, record)
  PROVE  /\ req'[r] = record
         /\ \A q \in Requests \ {r} : Hand(q) /\ req'[q] = req[q]
  BY SameHand DEF Serve, Shaped, TypeOK

LEMMA PlainImage ==
  ASSUME NEW row \in Row
  PROVE  EditImage(row, row.slug, Plain) = row
  BY DEF EditImage, WithAsked, Plain, Row

LEMMA ReadyHand ==
  ASSUME Shaped, NEW r \in Requests, InHand(r), NEW user, ReadyToSave(r, user)
  PROVE  \A q \in Requests : Hand(q)
  <1> DEFINE record == [pc |-> "save", op |-> req[r].op, house |-> req[r].house,
                        image |-> [req[r].image EXCEPT !.user = user],
                        asked |-> req[r].asked]
  <1>1. Serve(r, record)
    BY DEF ReadyToSave
  <1>2. req[r].image \in Row
    BY Fields DEF Shaped
  <1>3. /\ record.op = req[r].op /\ record.house = req[r].house
        /\ record.asked = req[r].asked
        /\ record.image = [req[r].image EXCEPT !.user = user]
    OBVIOUS
  <1> HIDE DEF record
  <1>4. /\ record.image.slug = req[r].image.slug
        /\ record.image.status = req[r].image.status
        /\ record.image.pin = req[r].image.pin
        /\ record.image.sticker = req[r].image.sticker
        /\ record.image.version = req[r].image.version
    BY <1>2, <1>3 DEF Row
  <1>5. req'[r] = record
    BY <1>1, OtherHands
  <1>6. Hand(r)
    BY <1>3, <1>4, <1>5 DEF Hand, GoesOn
  <1> QED BY <1>1, <1>6, OtherHands

LEMMA EnsureHand ==
  ASSUME Shaped, NEW r \in Requests, Ensure(r)
  PROVE  \A q \in Requests : Hand(q)
  <1>1. InHand(r) /\ req[r] \in Reading
    BY Shapes DEF Ensure, InHand, Shaped
  <1>2. req[r].image \in Row
    BY <1>1, Fields DEF Shaped
  <1>3. ASSUME NEW a \in Looked(req[r].image), Found(r, a)
        PROVE  \A q \in Requests : Hand(q)
    <2>1. CASE ReadyToSave(r, a)
      BY <1>1, <2>1, ReadyHand
    <2>2. CASE Serve(r, [pc |-> "sync", op |-> req[r].op,
                         house |-> req[r].house,
                         image |-> [req[r].image EXCEPT !.user = a],
                         asked |-> req[r].asked, password |-> accounts[a]])
      <3> DEFINE record == [pc |-> "sync", op |-> req[r].op,
                            house |-> req[r].house,
                            image |-> [req[r].image EXCEPT !.user = a],
                            asked |-> req[r].asked, password |-> accounts[a]]
      <3>1. Serve(r, record)
        BY <2>2
      <3>2. /\ record.op = req[r].op /\ record.house = req[r].house
            /\ record.asked = req[r].asked
            /\ record.image = [req[r].image EXCEPT !.user = a]
        OBVIOUS
      <3> HIDE DEF record
      <3>3. /\ record.image.slug = req[r].image.slug
            /\ record.image.status = req[r].image.status
            /\ record.image.pin = req[r].image.pin
            /\ record.image.sticker = req[r].image.sticker
            /\ record.image.version = req[r].image.version
        BY <1>2, <3>2 DEF Row
      <3>4. req'[r] = record
        BY <3>1, OtherHands
      <3>5. Hand(r)
        BY <1>1, <3>2, <3>3, <3>4 DEF Hand, GoesOn
      <3> QED BY <3>1, <3>5, OtherHands
    <2> QED BY <1>3, <2>1, <2>2 DEF Found
  <1>4. ASSUME Serve(r, [req[r] EXCEPT !.pc = "provision"])
        PROVE  \A q \in Requests : Hand(q)
    <2>1. req'[r] = [req[r] EXCEPT !.pc = "provision"]
      BY <1>4, OtherHands
    <2>2. /\ req'[r].op = req[r].op /\ req'[r].house = req[r].house
          /\ req'[r].asked = req[r].asked /\ req'[r].image = req[r].image
      BY <1>1, <2>1 DEF Reading
    <2>3. Hand(r)
      BY <1>1, <2>2 DEF Hand, GoesOn
    <2> QED BY <1>4, <2>3, OtherHands
  <1>5. ASSUME ReadyToSave(r, req[r].image.user)
        PROVE  \A q \in Requests : Hand(q)
    BY <1>1, <1>5, ReadyHand
  <1> QED BY <1>3, <1>4, <1>5 DEF Ensure

LEMMA ReadHand ==
  ASSUME Shaped, NEW r \in Requests
  PROVE  /\ \A slug \in Slugs, pin \in Pins :
              CreateHouse(r, slug, pin) => \A q \in Requests : Hand(q)
         /\ \A h \in Houses, slug \in Slugs, ask \in Asks :
              EditRead(r, h, slug, ask) => \A q \in Requests : Hand(q)
         /\ \A h \in Houses : ClaimRead(r, h) => \A q \in Requests : Hand(q)
  <1>1. ASSUME NEW slug \in Slugs, NEW pin \in Pins, CreateHouse(r, slug, pin)
        PROVE  \A q \in Requests : Hand(q)
    <2> DEFINE record == [pc |-> "ensure", op |-> "create", house |-> Nobody,
                          image |-> Legacy(slug, pin), asked |-> Plain]
    <2>1. Serve(r, record) /\ record.op = "create"
      BY <1>1 DEF CreateHouse
    <2> HIDE DEF record
    <2> QED BY <2>1, OtherHands DEF Hand
  <1>2. ASSUME NEW h \in Houses, NEW slug \in Slugs, NEW ask \in Asks,
               EditRead(r, h, slug, ask)
        PROVE  \A q \in Requests : Hand(q)
    <2> DEFINE record == [pc |-> "ensure", op |-> "edit", house |-> h,
                          image |-> EditImage(houses[h], slug, ask),
                          asked |-> ask]
    <2>1. /\ Serve(r, record)
          /\ record.op = "edit" /\ record.house = h /\ record.asked = ask
          /\ record.image = EditImage(houses[h], slug, ask)
          /\ UNCHANGED <<rows, issued>>
      BY <1>2 DEF EditRead
    <2> HIDE DEF record
    <2>2. houses[h] \in Row /\ ask \in Ask
      BY <1>2, Words, BoundsAssumption DEF EditRead, Live
    <2>3. req'[r] = record
      BY <2>1, OtherHands
    <2>4. JustRead(r)
      BY <2>1, <2>2, <2>3 DEF JustRead
    <2> QED BY <2>1, <2>4, OtherHands DEF Hand
  <1>3. ASSUME NEW h \in Houses, ClaimRead(r, h)
        PROVE  \A q \in Requests : Hand(q)
    <2> DEFINE record == [pc |-> "ensure", op |-> "claim", house |-> h,
                          image |-> houses[h], asked |-> Plain]
    <2>1. /\ Serve(r, record)
          /\ record.house = h /\ record.asked = Plain
          /\ record.image = houses[h]
          /\ UNCHANGED <<rows, issued>>
      BY <1>3 DEF ClaimRead
    <2> HIDE DEF record
    <2>2. houses[h] \in Row /\ Plain \in Ask
      BY <1>3, Words DEF ClaimRead, Live, Plain, Ask
    <2>3. houses[h].slug \in Slugs
      BY <2>2 DEF Row
    <2>4. req'[r] = record
      BY <2>1, OtherHands
    <2>5. JustRead(r)
      BY <2>1, <2>2, <2>3, <2>4, PlainImage DEF JustRead
    <2> QED BY <2>1, <2>5, OtherHands DEF Hand
  <1> QED BY <1>1, <1>2, <1>3

LEMMA NoHand ==
  ASSUME Shaped, NEW r \in Requests, NEW record, Serve(r, record),
         record.pc \notin {"ensure", "provision", "sync", "save"}
  PROVE  (\A q \in Requests : Hand(q)) /\ ~InHand(r)'
  <1>1. req'[r] = record
    BY OtherHands
  <1>2. ~InHand(r)'
    BY <1>1 DEF InHand
  <1> QED BY <1>2, OtherHands DEF Hand

LEMMA FinishHand ==
  ASSUME Shaped, NEW r \in Requests, Finish(r)
  PROVE  (\A q \in Requests : Hand(q)) /\ ~InHand(r)'
  <1>1. Idle.pc \notin {"ensure", "provision", "sync", "save"}
    BY DEF Idle
  <1> QED BY <1>1, NoHand DEF Finish

LEMMA ResetHand ==
  ASSUME Shaped, NEW r \in Requests, NEW h \in Houses, NEW pin \in Pins,
         ResetPin(r, h, pin) \/ RegenerateToken(r, h, pin)
  PROVE  (\A q \in Requests : Hand(q)) /\ ~InHand(r)'
  <1> DEFINE record == [pc |-> "link", house |-> h, pin |-> pin]
  <1>1. Serve(r, record) /\ record.pc = "link"
    BY DEF ResetPin, RegenerateToken
  <1> HIDE DEF record
  <1> QED BY <1>1, NoHand

LEMMA StepHand ==
  ASSUME Shaped, [Next]_vars
  PROVE  \A q \in Requests : Hand(q)
  <1>1. CASE UNCHANGED vars
    BY <1>1, SameHand DEF vars
  <1>2. ASSUME NEW h \in Houses, DeleteHouse(h)
        PROVE  \A q \in Requests : Hand(q)
    BY <1>2, SameHand DEF DeleteHouse
  <1>3. ASSUME NEW r \in Requests, Sync(r) \/ Provision(r)
        PROVE  \A q \in Requests : Hand(q)
    <2>1. InHand(r)
      BY <1>3 DEF Sync, Provision, InHand
    <2>2. \/ ReadyToSave(r, req[r].image.user)
          \/ ReadyToSave(r, req[r].image.slug)
          \/ Finish(r)
      BY <1>3 DEF Sync, Provision
    <2> QED BY <2>1, <2>2, ReadyHand, FinishHand
  <1>4. ASSUME NEW r \in Requests,
               \/ EditSave(r) \/ ClaimSave(r) \/ ResetAccount(r)
               \/ ProfileSave(r) \/ Fail(r)
               \/ \E h \in Houses : CreateSave(r, h)
        PROVE  \A q \in Requests : Hand(q)
    <2>1. Finish(r)
      BY <1>4 DEF EditSave, ClaimSave, ResetAccount, ProfileSave, Fail,
                  CreateSave
    <2> QED BY <2>1, FinishHand
  <1>5. ASSUME NEW r \in Requests, ResetLink(r)
        PROVE  \A q \in Requests : Hand(q)
    <2> DEFINE record == [pc |-> "repin", user |-> houses[req[r].house].user,
                          pin |-> req[r].pin]
    <2>1. Finish(r) \/ Serve(r, record)
      BY <1>5 DEF ResetLink
    <2>2. record.pc = "repin"
      OBVIOUS
    <2> HIDE DEF record
    <2> QED BY <2>1, <2>2, FinishHand, NoHand
  <1>6. ASSUME NEW r \in Requests, NEW a \in Slugs, NEW c \in BOOLEAN,
               ProfileRead(r, a, c)
        PROVE  \A q \in Requests : Hand(q)
    <2> DEFINE record == [pc |-> "profile", user |-> a, chosen |-> c,
                          password |-> IF c THEN Chosen ELSE accounts[a]]
    <2>1. Serve(r, record)
      BY <1>6 DEF ProfileRead
    <2>2. record.pc = "profile"
      OBVIOUS
    <2> HIDE DEF record
    <2> QED BY <2>1, <2>2, NoHand
  <1> QED BY <1>1, <1>2, <1>3, <1>4, <1>5, <1>6, EnsureHand, ReadHand, ResetHand
          DEF Next

-----------------------------------------------------------------------------
\* Rows never go away, and a row that gets a new sticker gets a new version.
Advance ==
  \A h \in Houses :
    houses[h] # Nobody
      => /\ houses'[h] # Nobody
         /\ houses'[h].version >= houses[h].version
         /\ houses'[h].sticker # houses[h].sticker
              => houses'[h].version > houses[h].version

\* A request that goes on with its reading of a house that is not crossed
\* finds block, status and PIN as it read them.
Steady(q) ==
  LET h == req[q].house
  IN  /\ GoesOn(q) /\ InHand(q)' /\ req[q].op # "create" /\ h \notin crossed'
        => h \notin crossed /\ WordOf(houses'[h]) = WordOf(houses[h])

\* A step that writes no row.
LEMMA NoWrite ==
  ASSUME Shaped, UNCHANGED <<houses, crossed>>
  PROVE  Advance /\ \A q \in Requests : Steady(q)
  <1>1. Advance
    BY DEF Advance, Shaped, TypeOK, Row
  <1> QED BY <1>1 DEF Steady

\* A step of request r that writes a row and lets go of its own reading.
LEMMA OneWrite ==
  ASSUME Shaped, NEW r \in Requests, NEW h \in Houses, NEW row \in Row,
         ChangeRow(r, h, row), ~InHand(r)',
         houses[h] # Nobody
           => /\ row.version >= houses[h].version
              /\ row.sticker # houses[h].sticker
                   => row.version > houses[h].version
  PROVE  Advance /\ \A q \in Requests : Steady(q)
  <1>1. /\ houses'[h] = row
        /\ \A k \in Houses \ {h} : houses'[k] = houses[k]
        /\ crossed \subseteq crossed'
        /\ \A q \in Requests \ {r} :
             Holding(q, h) /\ row # houses[h] => h \in crossed'
    BY RowChange DEF Shaped
  <1>2. row # Nobody
    BY MarksAssumption
  <1>3. \A k \in Houses : houses[k] # Nobody => houses[k].version \in Nat
    BY DEF Shaped, TypeOK, Row
  <1>4. Advance
    BY <1>1, <1>2, <1>3 DEF Advance
  <1>5. ASSUME NEW q \in Requests,
               GoesOn(q), InHand(q)', req[q].op # "create",
               req[q].house \notin crossed'
        PROVE  /\ req[q].house \notin crossed
               /\ WordOf(houses'[req[q].house]) = WordOf(houses[req[q].house])
    <2>1. q # r
      BY <1>5
    <2>2. req[q].house \in Houses
      BY <1>5 DEF Shaped, Named, GoesOn
    <2>3. CASE req[q].house = h
      <3>1. Holding(q, h)
        BY <1>5, <2>3 DEF GoesOn, InHand, Holding
      <3>2. houses'[h] = houses[h]
        BY <1>1, <1>5, <2>1, <2>3, <3>1
      <3> QED BY <1>1, <1>5, <2>3, <3>2
    <2>4. CASE req[q].house # h
      BY <1>1, <1>5, <2>2, <2>4
    <2> QED BY <2>3, <2>4
  <1>6. \A q \in Requests : Steady(q)
    BY <1>5 DEF Steady
  <1> QED BY <1>4, <1>6

LEMMA ImageOver ==
  ASSUME NEW row \in Row, NEW image \in Row
  PROVE  /\ WithImage(row, image) \in Row
         /\ WithImage(row, image).version = row.version
         /\ WithImage(row, image).sticker = row.sticker
         /\ WordOf(WithImage(row, image)) = WordOf(image)
  BY DEF WithImage, WordOf, Row

LEMMA ResetWord ==
  ASSUME NEW row \in Row, NEW pin \in Pins
  PROVE  LET pinned == [row EXCEPT !.pin = pin, !.version = @ + 1]
             renewed == [row EXCEPT !.pin = pin, !.version = @ + 1,
                                    !.sticker = @ + 1, !.status = "active"]
         IN  /\ pinned.version = row.version + 1
             /\ renewed.version = row.version + 1
             /\ WordOf(pinned) = [WordOf(row) EXCEPT !.pin = pin]
             /\ WordOf(renewed)
                  = [WordOf(row) EXCEPT !.pin = pin, !.status = "active"]
  <1> DEFINE v == row.version + 1
             s == row.sticker + 1
  <1> HIDE DEF v, s
  <1> DEFINE pinned == [row EXCEPT !.pin = pin, !.version = v]
             renewed == [row EXCEPT !.pin = pin, !.version = v, !.sticker = s,
                                    !.status = "active"]
  <1>1. /\ pinned.version = v /\ pinned.slug = row.slug
        /\ pinned.status = row.status /\ pinned.pin = pin
    BY DEF Row
  <1>2. /\ renewed.version = v /\ renewed.slug = row.slug
        /\ renewed.status = "active" /\ renewed.pin = pin
    BY DEF Row
  <1> HIDE DEF pinned, renewed
  <1>3. WordOf(pinned) = [WordOf(row) EXCEPT !.pin = pin]
    BY <1>1 DEF WordOf
  <1>4. WordOf(renewed) = [WordOf(row) EXCEPT !.pin = pin, !.status = "active"]
    <2>1. WordOf(renewed) = [slug |-> row.slug, status |-> "active", pin |-> pin]
      BY <1>2 DEF WordOf
    <2>2. [WordOf(row) EXCEPT !.pin = pin]
            = [slug |-> row.slug, status |-> row.status, pin |-> pin]
      BY DEF WordOf
    <2>3. [[slug |-> row.slug, status |-> row.status, pin |-> pin]
             EXCEPT !.status = "active"]
            = [slug |-> row.slug, status |-> "active", pin |-> pin]
      OBVIOUS
    <2> QED BY <2>1, <2>2, <2>3
  <1> QED BY <1>1, <1>2, <1>3, <1>4 DEF v, s, pinned, renewed

LEMMA StepRows ==
  ASSUME Shaped, [Next]_vars
  PROVE  Advance /\ \A q \in Requests : Steady(q)
  <1>1. CASE UNCHANGED <<houses, crossed>>
    BY <1>1, NoWrite
  <1>2. ASSUME NEW h \in Houses, DeleteHouse(h)
        PROVE  Advance /\ \A q \in Requests : Steady(q)
    <2> DEFINE gone == [houses[h] EXCEPT !.state = "deleted"]
    <2>1. houses[h] \in Row /\ houses[h] # Nobody
      BY <1>2, Words DEF DeleteHouse, Live
    <2>2. gone \in Row
      BY <2>1 DEF Row
    <2>3. /\ gone.version = houses[h].version /\ gone.sticker = houses[h].sticker
          /\ WordOf(gone) = WordOf(houses[h])
      BY <2>1 DEF Row, WordOf
    <2>4. houses' = [houses EXCEPT ![h] = gone] /\ crossed' = crossed
      BY <1>2 DEF DeleteHouse
    <2> HIDE DEF gone
    <2>5. /\ houses'[h] = gone
          /\ \A k \in Houses \ {h} : houses'[k] = houses[k]
      BY <2>4 DEF Shaped, TypeOK
    <2>6. gone # Nobody
      BY <2>2, MarksAssumption
    <2>7. Advance
      BY <2>3, <2>5, <2>6 DEF Advance, Shaped, TypeOK, Row
    <2>8. \A q \in Requests : InHand(q) /\ req[q].op # "create"
                                => req[q].house \in Houses
      BY DEF Shaped, Named
    <2>9. \A q \in Requests : Steady(q)
      BY <2>3, <2>4, <2>5, <2>8 DEF Steady, GoesOn
    <2> QED BY <2>7, <2>9
  <1>3. ASSUME NEW r \in Requests, NEW h \in Houses, CreateSave(r, h)
        PROVE  Advance /\ \A q \in Requests : Steady(q)
    <2>1. req[r].image \in Row
      BY <1>3, Fields DEF CreateSave, InHand, Shaped
    <2>2. ~InHand(r)' /\ houses[h] = Nobody /\ ChangeRow(r, h, req[r].image)
      BY <1>3, FinishHand DEF CreateSave
    <2> QED BY <2>1, <2>2, OneWrite
  <1>4. ASSUME NEW r \in Requests, EditSave(r) \/ ClaimSave(r)
        PROVE  Advance /\ \A q \in Requests : Steady(q)
    <2> DEFINE h == req[r].house
               row == WithImage(houses[h], req[r].image)
    <2>1. h \in Houses /\ req[r].image \in Row /\ ~InHand(r)'
      BY <1>4, Fields, FinishHand
         DEF EditSave, ClaimSave, InHand, Shaped, Named
    <2>2. CASE Live(h) /\ ChangeRow(r, h, row)
      <3>1. houses[h] \in Row
        BY <2>1, <2>2, Words DEF Live
      <3>2. /\ row \in Row /\ row.version = houses[h].version
            /\ row.sticker = houses[h].sticker
        BY <2>1, <3>1, ImageOver
      <3>3. houses[h].version \in Nat
        BY <3>1 DEF Row
      <3> HIDE DEF row
      <3>4. row.version >= houses[h].version
        BY <3>2, <3>3
      <3> QED BY <2>1, <2>2, <3>2, <3>4, OneWrite
    <2>3. CASE UNCHANGED <<houses, crossed>>
      BY <2>3, NoWrite
    <2> QED BY <1>4, <2>2, <2>3 DEF EditSave, ClaimSave, rows
  <1>5. ASSUME NEW r \in Requests, NEW h \in Houses, NEW pin \in Pins,
               ResetPin(r, h, pin) \/ RegenerateToken(r, h, pin)
        PROVE  Advance /\ \A q \in Requests : Steady(q)
    <2> DEFINE pinned == [houses[h] EXCEPT !.pin = pin, !.version = @ + 1]
               renewed == [houses[h] EXCEPT !.pin = pin, !.version = @ + 1,
                                            !.sticker = @ + 1,
                                            !.status = "active"]
    <2>1. houses[h] \in Row /\ ~InHand(r)'
      BY <1>5, Words, ResetHand DEF ResetPin, RegenerateToken, Live
    <2>2. /\ pinned \in Row /\ renewed \in Row
          /\ pinned.version = houses[h].version + 1
          /\ renewed.version = houses[h].version + 1
      BY <2>1, ResetRow, ResetWord
    <2>3. ChangeRow(r, h, pinned) \/ ChangeRow(r, h, renewed)
      BY <1>5 DEF ResetPin, RegenerateToken
    <2>4. houses[h].version \in Nat
      BY <2>1 DEF Row
    <2> HIDE DEF pinned, renewed
    <2>5. /\ pinned.version >= houses[h].version
          /\ pinned.version > houses[h].version
          /\ renewed.version >= houses[h].version
          /\ renewed.version > houses[h].version
      BY <2>2, <2>4
    <2>6. CASE ChangeRow(r, h, pinned)
      BY <2>1, <2>2, <2>5, <2>6, OneWrite
    <2>7. CASE ChangeRow(r, h, renewed)
      BY <2>1, <2>2, <2>5, <2>7, OneWrite
    <2> QED BY <2>3, <2>6, <2>7
  <1>6. ASSUME NEW r \in Requests,
               \/ \E s \in Slugs, p \in Pins : CreateHouse(r, s, p)
               \/ \E h \in Houses, s \in Slugs, ask \in Asks : EditRead(r, h, s, ask)
               \/ \E h \in Houses : ClaimRead(r, h)
               \/ Ensure(r) \/ Sync(r) \/ Provision(r)
               \/ ResetLink(r) \/ ResetAccount(r)
               \/ \E a \in Slugs, c \in BOOLEAN : ProfileRead(r, a, c)
               \/ ProfileSave(r) \/ Fail(r)
        PROVE  UNCHANGED <<houses, crossed>>
    BY <1>6 DEF CreateHouse, EditRead, ClaimRead, Ensure, Sync, Provision,
                ResetLink, ResetAccount, ProfileRead, ProfileSave, Fail, rows
  <1>7. UNCHANGED vars => UNCHANGED <<houses, crossed>>
    BY DEF vars, rows
  <1> QED BY <1>1, <1>2, <1>3, <1>4, <1>5, <1>6, <1>7 DEF Next

-----------------------------------------------------------------------------
(***************************************************************************)
(* Versions tell stickers apart.                                           *)
(***************************************************************************)


\* What is known of a sticker stays known.
LEMMA StillKnown ==
  ASSUME Shaped, Shaped', Advance, NEW h \in Houses, NEW sticker \in Nat,
         NEW version \in Nat, Known(houses, h, sticker, version)
  PROVE  Known(houses', h, sticker, version)
  <1>1. houses[h] \in Row /\ houses'[h] \in Row
    BY DEF Known, Advance, Shaped, TypeOK
  <1>2. /\ houses[h].version \in Nat /\ houses'[h].version \in Nat
        /\ houses[h].sticker \in Nat /\ houses'[h].sticker \in Nat
    BY <1>1 DEF Row
  <1>3. houses'[h] # Nobody
    BY DEF Known, Advance
  <1> QED BY <1>2, <1>3 DEF Known, Advance

LEMMA OnlyClaims ==
  ASSUME [Next]_vars
  PROVE  issued' = issued \/ \E r \in Requests : ClaimSave(r)
  <1>1. ASSUME NEW h \in Houses, DeleteHouse(h)
        PROVE  issued' = issued
    BY <1>1 DEF DeleteHouse
  <1>2. ASSUME NEW r \in Requests, NEW h \in Houses,
               \/ ClaimRead(r, h) \/ CreateSave(r, h)
               \/ \E s \in Slugs, ask \in Asks : EditRead(r, h, s, ask)
               \/ \E p \in Pins : ResetPin(r, h, p) \/ RegenerateToken(r, h, p)
        PROVE  issued' = issued
    BY <1>2 DEF ClaimRead, CreateSave, EditRead, ResetPin, RegenerateToken
  <1>3. ASSUME NEW r \in Requests,
               \/ \E s \in Slugs, p \in Pins : CreateHouse(r, s, p)
               \/ Ensure(r) \/ Sync(r) \/ Provision(r) \/ EditSave(r)
               \/ ResetLink(r) \/ ResetAccount(r) \/ ProfileSave(r) \/ Fail(r)
               \/ \E a \in Slugs, c \in BOOLEAN : ProfileRead(r, a, c)
        PROVE  issued' = issued
    BY <1>3 DEF CreateHouse, Ensure, Sync, Provision, EditSave, ResetLink,
                ResetAccount, ProfileSave, Fail, ProfileRead
  <1> QED BY <1>1, <1>2, <1>3 DEF Next, vars

LEMMA StepDated ==
  ASSUME Shaped, Shaped', Dated, [Next]_vars
  PROVE  Dated'
  <1>1. Advance /\ \A q \in Requests : Hand(q)
    BY StepRows, StepHand
  <1>2. ASSUME NEW s \in issued'
        PROVE  Known(houses', s.house, s.sticker, s.version)
    <2>1. /\ s.house \in Houses /\ s.sticker \in Nat /\ s.version \in Nat
      BY DEF Shaped, TypeOK, Session
    <2>2. CASE s \in issued
      BY <1>1, <2>1, <2>2, StillKnown DEF Dated
    <2>3. CASE s \notin issued
      <3>1. PICK r \in Requests : ClaimSave(r)
        BY <2>3, OnlyClaims
      <3>2. InHand(r) /\ req[r].op = "claim"
        BY <3>1 DEF ClaimSave, InHand
      <3>3. s = [house |-> req[r].house, sticker |-> req[r].image.sticker,
                 version |-> req[r].image.version]
        BY <2>3, <3>1 DEF ClaimSave
      <3>4. Known(houses, s.house, s.sticker, s.version)
        BY <3>2, <3>3 DEF Dated
      <3> QED BY <1>1, <2>1, <3>4, StillKnown
    <2> QED BY <2>2, <2>3
  <1>3. ASSUME NEW q \in Requests, InHand(q)', req'[q].op # "create"
        PROVE  Known(houses', req'[q].house, req'[q].image.sticker,
                     req'[q].image.version)
    <2>1. CASE GoesOn(q)
      <3>1. /\ req'[q].house = req[q].house /\ req[q].op # "create" /\ InHand(q)
            /\ req'[q].image.sticker = req[q].image.sticker
            /\ req'[q].image.version = req[q].image.version
        BY <1>3, <2>1 DEF GoesOn
      <3>2. /\ req[q].house \in Houses
            /\ req[q].image.sticker \in Nat /\ req[q].image.version \in Nat
        BY <3>1, Fields DEF Shaped, Named, Row
      <3>3. Known(houses, req[q].house, req[q].image.sticker,
                  req[q].image.version)
        BY <3>1 DEF Dated
      <3>4. Known(houses', req[q].house, req[q].image.sticker,
                  req[q].image.version)
        BY <1>1, <3>2, <3>3, StillKnown
      <3> QED BY <3>1, <3>4
    <2>2. CASE JustRead(q)
      <3>1. PICK slug \in Slugs, ask \in Ask :
              req'[q].image = EditImage(houses[req'[q].house], slug, ask)
        BY <2>2 DEF JustRead
      <3>2. houses[req'[q].house] \in Row /\ houses' = houses
        BY <2>2 DEF JustRead, rows
      <3>3. /\ req'[q].image.sticker = houses[req'[q].house].sticker
            /\ req'[q].image.version = houses[req'[q].house].version
        BY <3>1, <3>2 DEF EditImage, WithAsked, Row
      <3>4. houses[req'[q].house].version \in Nat
        BY <3>2 DEF Row
      <3>5. houses[req'[q].house] # Nobody
        BY <3>2, MarksAssumption
      <3>6. Known(houses, req'[q].house, req'[q].image.sticker,
                  req'[q].image.version)
        BY <3>3, <3>4, <3>5 DEF Known
      <3> QED BY <3>2, <3>6
    <2> QED BY <1>1, <1>3, <2>1, <2>2 DEF Hand
  <1>4. \A q \in Requests :
          InHand(q)' /\ req'[q].op # "create"
            => Known(houses', req'[q].house, req'[q].image.sticker,
                     req'[q].image.version)
    BY <1>3
  <1> QED BY <1>2, <1>4 DEF Dated, InHand

\* Whatever is read early and written late, a session of a replaced sticker
\* carries a version older than the one the house has.
THEOREM StickersTold == Spec => []VersionTellsSticker
  <1>1. Init => Shaped /\ Dated
    <2>1. Init => Dated
      BY DEF Init, Dated, InHand, Idle
    <2> QED BY <2>1, InitShape
  <1>2. Shaped /\ Dated /\ [Next]_vars => Shaped' /\ Dated'
    BY StepShape, StepDated
  <1>3. Shaped /\ Dated => VersionTellsSticker
    BY DEF Dated, Known, VersionTellsSticker
  <1> QED BY <1>1, <1>2, <1>3, PTL DEF Spec

-----------------------------------------------------------------------------
(***************************************************************************)
(* A house that was not crossed carries what was decided about it.         *)
(***************************************************************************)

LEMMA AskedWord ==
  ASSUME NEW row \in Row, NEW slug \in Slugs, NEW ask \in Ask
  PROVE  /\ WordOf(WithAsked(row, slug, ask)) = WithAsked(WordOf(row), slug, ask)
         /\ WithAsked(row, slug, ask).slug = slug
  <1> DEFINE given == WithAsked(row, slug, ask)
             status == IF ask.status = Nobody THEN row.status ELSE ask.status
             pin == IF ask.pin = Nobody THEN row.pin ELSE ask.pin
  <1>1. given.slug = slug /\ given.status = status /\ given.pin = pin
    BY DEF WithAsked, Row
  <1> HIDE DEF given
  <1>2. WordOf(given) = [slug |-> slug, status |-> status, pin |-> pin]
    BY <1>1 DEF WordOf
  <1>3. WithAsked(WordOf(row), slug, ask)
          = [slug |-> slug, status |-> status, pin |-> pin]
    <2> DEFINE first == [WordOf(row) EXCEPT !.slug = slug]
               second == [first EXCEPT !.status = status]
    <2>1. first = [slug |-> slug, status |-> row.status, pin |-> row.pin]
      BY DEF WordOf
    <2> HIDE DEF first
    <2>2. second = [slug |-> slug, status |-> status, pin |-> row.pin]
      BY <2>1
    <2> HIDE DEF second
    <2>3. [second EXCEPT !.pin = pin]
            = [slug |-> slug, status |-> status, pin |-> pin]
      BY <2>2
    <2>4. WordOf(row).status = row.status /\ WordOf(row).pin = row.pin
      BY DEF WordOf
    <2>5. WithAsked(WordOf(row), slug, ask) = [second EXCEPT !.pin = pin]
      BY <2>4 DEF WithAsked, second, first
    <2> QED BY <2>3, <2>5
  <1> QED BY <1>1, <1>2, <1>3 DEF given

\* What an edit or a claim is about to write is the word of its administrator.
LEMMA SavedWord ==
  ASSUME Shaped, Fresh, Unasked, Kept, NEW r \in Requests, InHand(r),
         req[r].op # "create", req[r].house \notin crossed
  PROVE  /\ WordOf(req[r].image)
              = WithAsked(word[req[r].house], req[r].image.slug, req[r].asked)
         /\ req[r].op = "claim"
              => WordOf(req[r].image) = word[req[r].house]
  <1> DEFINE h == req[r].house
  <1>1. h \in Houses /\ houses[h] # Nobody
    BY DEF Shaped, Named
  <1>2. houses[h] \in Row /\ word[h] = WordOf(houses[h])
    BY <1>1, Words DEF Kept
  <1>3. req[r].image.slug \in Slugs /\ req[r].asked \in Ask
    BY Fields DEF Shaped, Row
  <1>4. WordOf(req[r].image) = WordOf(WithAsked(houses[h], req[r].image.slug,
                                                req[r].asked))
    BY DEF Fresh
  <1>5. WordOf(req[r].image) = WithAsked(word[h], req[r].image.slug, req[r].asked)
    BY <1>2, <1>3, <1>4, AskedWord
  <1>6. ASSUME req[r].op = "claim"
        PROVE  WordOf(req[r].image) = word[h]
    <2>1. req[r].asked = Plain /\ req[r].image.slug = houses[h].slug
      BY <1>6 DEF Unasked
    <2>2. WithAsked(houses[h], houses[h].slug, Plain) = houses[h]
      BY <1>2, PlainImage DEF EditImage
    <2> QED BY <1>2, <1>4, <2>1, <2>2
  <1> QED BY <1>5, <1>6

LEMMA StepFresh ==
  ASSUME Shaped, Shaped', Fresh, Unasked, [Next]_vars
  PROVE  Fresh' /\ Unasked'
  <1>1. \A q \in Requests : Hand(q) /\ Steady(q)
    BY StepRows, StepHand
  <1>2. ASSUME NEW q \in Requests, InHand(q)', req'[q].op # "create",
               req'[q].house \notin crossed'
        PROVE  /\ WordOf(req'[q].image)
                    = WordOf(WithAsked(houses'[req'[q].house],
                                       req'[q].image.slug, req'[q].asked))
               /\ req'[q].op = "claim"
                    => req'[q].image.slug = houses'[req'[q].house].slug
    <2>1. CASE GoesOn(q)
      <3> DEFINE h == req[q].house
                 slug == req[q].image.slug
                 ask == req[q].asked
      <3>1. /\ req'[q].house = h /\ req'[q].op = req[q].op /\ InHand(q)
            /\ req'[q].asked = ask /\ req'[q].image.slug = slug
            /\ WordOf(req'[q].image) = WordOf(req[q].image)
        BY <2>1 DEF GoesOn, WordOf
      <3>2. h \notin crossed /\ WordOf(houses'[h]) = WordOf(houses[h])
        BY <1>1, <1>2, <2>1, <3>1 DEF Steady
      <3>3. h \in Houses /\ houses[h] \in Row
        BY <1>2, <3>1 DEF Shaped, Named, TypeOK
      <3>4. houses'[h] \in Row
        BY <1>2, <3>1, <3>3, StepRows DEF Advance, Shaped, Named, TypeOK
      <3>5. slug \in Slugs /\ ask \in Ask
        BY <3>1, Fields DEF Shaped, Row
      <3>6. WordOf(WithAsked(houses'[h], slug, ask))
              = WordOf(WithAsked(houses[h], slug, ask))
        BY <3>2, <3>3, <3>4, <3>5, AskedWord
      <3>7. WordOf(req[q].image) = WordOf(WithAsked(houses[h], slug, ask))
        BY <1>2, <3>1, <3>2 DEF Fresh
      <3>8. houses'[h].slug = houses[h].slug
        BY <3>2 DEF WordOf
      <3>9. req[q].op = "claim" => slug = houses[h].slug
        BY <3>1, <3>2 DEF Unasked
      <3> QED BY <3>1, <3>6, <3>7, <3>8, <3>9
    <2>2. CASE JustRead(q)
      <3> DEFINE h == req'[q].house
      <3>1. PICK slug \in Slugs, ask \in Ask :
              /\ req'[q].asked = ask
              /\ req'[q].image = EditImage(houses[h], slug, ask)
              /\ req'[q].op = "claim" => slug = houses[h].slug
        BY <2>2 DEF JustRead
      <3>2. houses[h] \in Row /\ houses' = houses
        BY <2>2 DEF JustRead, rows
      <3>3. req'[q].image.slug = slug
        BY <3>1, <3>2, AskedWord DEF EditImage
      <3> QED BY <3>1, <3>2, <3>3 DEF EditImage
    <2> QED BY <1>1, <1>2, <2>1, <2>2 DEF Hand
  <1>3. ASSUME NEW q \in Requests, InHand(q)', req'[q].op = "claim"
        PROVE  req'[q].asked = Plain
    <2>1. CASE GoesOn(q)
      BY <1>3, <2>1 DEF GoesOn, Unasked
    <2>2. CASE JustRead(q)
      BY <1>3, <2>2 DEF JustRead
    <2> QED BY <1>1, <1>3, <2>1, <2>2 DEF Hand
  <1>4. \A q \in Requests :
          InHand(q)' /\ req'[q].op # "create" /\ req'[q].house \notin crossed'
            => /\ WordOf(req'[q].image)
                    = WordOf(WithAsked(houses'[req'[q].house],
                                       req'[q].image.slug, req'[q].asked))
               /\ req'[q].op = "claim"
                    => req'[q].image.slug = houses'[req'[q].house].slug
    BY <1>2
  <1>5. Fresh'
    BY <1>4 DEF Fresh, InHand, WordOf, WithAsked
  <1>6. Unasked'
    BY <1>3, <1>4 DEF Unasked, InHand, Plain
  <1> QED BY <1>5, <1>6

\* One row and its word change together.
LEMMA KeptWrite ==
  ASSUME Shaped, Kept, NEW r \in Requests, NEW h \in Houses, NEW row \in Row,
         ChangeRow(r, h, row),
         \A k \in Houses \ {h} : word'[k] = word[k],
         h \notin crossed => WordOf(row) = word'[h]
  PROVE  Kept'
  <1>1. /\ houses'[h] = row
        /\ \A k \in Houses \ {h} : houses'[k] = houses[k]
        /\ crossed \subseteq crossed'
    BY RowChange DEF Shaped
  <1>2. ASSUME NEW k \in Houses, houses'[k] # Nobody, k \notin crossed'
        PROVE  WordOf(houses'[k]) = word'[k]
    BY <1>1, <1>2 DEF Kept
  <1> QED BY <1>2 DEF Kept, WordOf

LEMMA StepKept ==
  ASSUME Shaped, Shaped', Fresh, Unasked, Kept, [Next]_vars
  PROVE  Kept'
  <1>1. CASE UNCHANGED rows
    BY <1>1 DEF rows, Kept, WordOf
  <1>2. ASSUME NEW h \in Houses, DeleteHouse(h)
        PROVE  Kept'
    <2> DEFINE gone == [houses[h] EXCEPT !.state = "deleted"]
    <2>1. houses[h] \in Row /\ houses[h] # Nobody
      BY <1>2, Words DEF DeleteHouse, Live
    <2>2. WordOf(gone) = WordOf(houses[h])
      BY <2>1 DEF Row, WordOf
    <2>3. /\ houses' = [houses EXCEPT ![h] = gone]
          /\ crossed' = crossed /\ word' = word
      BY <1>2 DEF DeleteHouse
    <2> HIDE DEF gone
    <2>4. /\ houses'[h] = gone
          /\ \A k \in Houses \ {h} : houses'[k] = houses[k]
      BY <2>3 DEF Shaped, TypeOK
    <2>5. \A k \in Houses : houses'[k] # Nobody /\ k \notin crossed'
                              => WordOf(houses'[k]) = word'[k]
      BY <2>1, <2>2, <2>3, <2>4 DEF Kept
    <2> QED BY <2>5 DEF Kept, WordOf
  <1>3. ASSUME NEW r \in Requests, NEW h \in Houses, CreateSave(r, h)
        PROVE  Kept'
    <2>1. req[r].image \in Row
      BY <1>3, Fields DEF CreateSave, InHand, Shaped
    <2>2. /\ ChangeRow(r, h, req[r].image)
          /\ word' = [word EXCEPT ![h] = WordOf(req[r].image)]
      BY <1>3 DEF CreateSave
    <2>3. /\ word'[h] = WordOf(req[r].image)
          /\ \A k \in Houses \ {h} : word'[k] = word[k]
      BY <2>2 DEF Shaped, TypeOK
    <2> QED BY <2>1, <2>2, <2>3, KeptWrite
  <1>4. ASSUME NEW r \in Requests, EditSave(r) \/ ClaimSave(r)
        PROVE  Kept'
    <2> DEFINE h == req[r].house
               image == req[r].image
               row == WithImage(houses[h], image)
    <2>1. /\ InHand(r) /\ h \in Houses /\ image \in Row
          /\ req[r].op # "create"
      BY <1>4, Fields DEF EditSave, ClaimSave, InHand, Shaped, Named
    <2>2. CASE EditSave(r) /\ Live(h)
      <3>1. houses[h] \in Row /\ row \in Row /\ WordOf(row) = WordOf(image)
        BY <2>1, <2>2, Words, ImageOver DEF Live
      <3>2. /\ ChangeRow(r, h, row)
            /\ word' = [word EXCEPT ![h] =
                          WithAsked(word[h], image.slug, req[r].asked)]
        BY <2>2 DEF EditSave
      <3>3. /\ word'[h] = WithAsked(word[h], image.slug, req[r].asked)
            /\ \A k \in Houses \ {h} : word'[k] = word[k]
        BY <2>1, <3>2 DEF Shaped, TypeOK
      <3>4. h \notin crossed => WordOf(row) = word'[h]
        BY <2>1, <3>1, <3>3, SavedWord
      <3> HIDE DEF row
      <3> QED BY <2>1, <3>1, <3>2, <3>3, <3>4, KeptWrite
    <2>3. CASE ClaimSave(r) /\ Live(h) /\ ChangeRow(r, h, row)
      <3>1. houses[h] \in Row /\ row \in Row /\ WordOf(row) = WordOf(image)
        BY <2>1, <2>3, Words, ImageOver DEF Live
      <3>2. word' = word /\ req[r].op = "claim"
        BY <2>3 DEF ClaimSave
      <3>3. h \notin crossed => WordOf(row) = word'[h]
        BY <2>1, <3>1, <3>2, SavedWord
      <3> HIDE DEF row
      <3> QED BY <2>1, <2>3, <3>1, <3>2, <3>3, KeptWrite
    <2>4. CASE UNCHANGED <<houses, crossed, word>>
      BY <2>4 DEF Kept, WordOf
    <2> QED BY <1>4, <2>2, <2>3, <2>4 DEF EditSave, ClaimSave, rows
  <1>5. ASSUME NEW r \in Requests, NEW h \in Houses, NEW pin \in Pins,
               ResetPin(r, h, pin)
        PROVE  Kept'
    <2> DEFINE pinned == [houses[h] EXCEPT !.pin = pin, !.version = @ + 1]
    <2>1. houses[h] \in Row /\ houses[h] # Nobody
      BY <1>5, Words DEF ResetPin, Live
    <2>2. pinned \in Row /\ WordOf(pinned) = [WordOf(houses[h]) EXCEPT !.pin = pin]
      BY <2>1, ResetRow, ResetWord
    <2>3. /\ ChangeRow(r, h, pinned)
          /\ word' = [word EXCEPT ![h] = [word[h] EXCEPT !.pin = pin]]
      BY <1>5 DEF ResetPin
    <2> HIDE DEF pinned
    <2>4. /\ word'[h] = [word[h] EXCEPT !.pin = pin]
          /\ \A k \in Houses \ {h} : word'[k] = word[k]
      BY <2>3 DEF Shaped, TypeOK
    <2>5. h \notin crossed => WordOf(pinned) = word'[h]
      <3>1. h \notin crossed => word[h] = WordOf(houses[h])
        BY <2>1 DEF Kept
      <3> QED BY <2>2, <2>4, <3>1
    <2> QED BY <2>2, <2>3, <2>4, <2>5, KeptWrite
  <1>6. ASSUME NEW r \in Requests, NEW h \in Houses, NEW pin \in Pins,
               RegenerateToken(r, h, pin)
        PROVE  Kept'
    <2> DEFINE renewed == [houses[h] EXCEPT !.pin = pin, !.version = @ + 1,
                                            !.sticker = @ + 1,
                                            !.status = "active"]
               decided == [word[h] EXCEPT !.pin = pin, !.status = "active"]
    <2>1. houses[h] \in Row /\ houses[h] # Nobody
      BY <1>6, Words DEF RegenerateToken, Live
    <2>2. /\ renewed \in Row
          /\ WordOf(renewed)
               = [WordOf(houses[h]) EXCEPT !.pin = pin, !.status = "active"]
      BY <2>1, ResetRow, ResetWord
    <2>3. ChangeRow(r, h, renewed) /\ word' = [word EXCEPT ![h] = decided]
      BY <1>6 DEF RegenerateToken, Shaped, TypeOK
    <2>4. h \notin crossed => WordOf(renewed) = decided
      <3>1. h \notin crossed => word[h] = WordOf(houses[h])
        BY <2>1 DEF Kept
      <3> QED BY <2>2, <3>1
    <2> HIDE DEF renewed, decided
    <2>5. word'[h] = decided /\ \A k \in Houses \ {h} : word'[k] = word[k]
      BY <2>3 DEF Shaped, TypeOK
    <2> QED BY <2>2, <2>3, <2>4, <2>5, KeptWrite
  <1>7. ASSUME NEW r \in Requests,
               \/ \E s \in Slugs, p \in Pins : CreateHouse(r, s, p)
               \/ \E h \in Houses, s \in Slugs, ask \in Asks : EditRead(r, h, s, ask)
               \/ \E h \in Houses : ClaimRead(r, h)
               \/ Ensure(r) \/ Sync(r) \/ Provision(r)
               \/ ResetLink(r) \/ ResetAccount(r)
               \/ \E a \in Slugs, c \in BOOLEAN : ProfileRead(r, a, c)
               \/ ProfileSave(r) \/ Fail(r)
        PROVE  UNCHANGED rows
    BY <1>7 DEF CreateHouse, EditRead, ClaimRead, Ensure, Sync, Provision,
                ResetLink, ResetAccount, ProfileRead, ProfileSave, Fail
  <1>8. UNCHANGED vars => UNCHANGED rows
    BY DEF vars
  <1> QED BY <1>1, <1>2, <1>3, <1>4, <1>5, <1>6, <1>7, <1>8 DEF Next

\* In every interleaving and with every failure, a house whose row did not
\* change between a reading and a writing carries the block, the status and
\* the PIN that were last decided for it.
THEOREM WordsHold == Spec => []HouseWordHolds
  <1>1. Init => Shaped /\ Fresh /\ Unasked /\ Kept
    <2>1. Init => Fresh /\ Unasked
      BY DEF Init, Fresh, Unasked, InHand, Idle
    <2>2. Init => Kept
      BY DEF Init, Kept
    <2> QED BY <2>1, <2>2, InitShape
  <1>2. Shaped /\ Fresh /\ Unasked /\ Kept /\ [Next]_vars
          => Shaped' /\ Fresh' /\ Unasked' /\ Kept'
    BY StepShape, StepFresh, StepKept
  <1>3. Kept => HouseWordHolds
    BY DEF Kept, HouseWordHolds, Live
  <1> QED BY <1>1, <1>2, <1>3, PTL DEF Spec

-----------------------------------------------------------------------------
(***************************************************************************)
(* An account that was not mixed up has the password last decided.         *)
(***************************************************************************)

\* A request reads, or goes on, and no account changes.
Leaves(r, record) ==
  /\ Serve(r, record)
  /\ record.pc = "sync" => record.password = accounts[record.image.user]
  /\ record.pc = "profile" => record.password = Meant(record, accounts)
  /\ UNCHANGED users

LEMMA AccountsLeft ==
  ASSUME Shaped, FreshAccount, AccountWordHolds, NEW r \in Requests,
         NEW record, Leaves(r, record)
  PROVE  FreshAccount' /\ AccountWordHolds'
  <1>1. accounts' = accounts /\ told' = told /\ mixed' = mixed
    BY DEF Leaves, users
  <1>2. AccountWordHolds'
    BY <1>1 DEF AccountWordHolds
  <1>3. req'[r] = record /\ \A q \in Requests \ {r} : req'[q] = req[q]
    BY OtherHands DEF Leaves
  <1>4. FreshAccount'
    BY <1>1, <1>3 DEF Leaves, FreshAccount, Meant
  <1> QED BY <1>2, <1>4

\* A request changes an account, and holds none any more.
Rewrites(r, a, password, record) ==
  /\ Serve(r, record) /\ record.pc \notin {"sync", "profile"}
  /\ password \in Passwords /\ ChangeAccount(r, a, password)
  /\ \A b \in Slugs \ {a} : told'[b] = told[b]
  /\ a \notin mixed => told'[a] = password

LEMMA AccountRewritten ==
  ASSUME Shaped, FreshAccount, AccountWordHolds, NEW r \in Requests,
         NEW a \in Slugs, NEW password, NEW record,
         Rewrites(r, a, password, record)
  PROVE  FreshAccount' /\ AccountWordHolds'
  <1>1. /\ mixed \subseteq mixed'
        /\ accounts'[a] = password
        /\ \A b \in Slugs \ {a} : accounts'[b] = accounts[b]
        /\ \A q \in Requests \ {r} :
             HoldingAccount(q, a) /\ password # accounts[a] => a \in mixed'
    BY AccountChange DEF Rewrites, Shaped
  <1>2. AccountWordHolds'
    <2>1. \A b \in Slugs : b \notin mixed' => accounts'[b] = told'[b]
      BY <1>1 DEF Rewrites, AccountWordHolds
    <2> QED BY <2>1 DEF AccountWordHolds
  <1>3. /\ req'[r] = record /\ record.pc \notin {"sync", "profile"}
        /\ \A q \in Requests \ {r} : req'[q] = req[q]
    BY OtherHands DEF Rewrites
  <1>4. ASSUME NEW q \in Requests \ {r}, req[q].pc = "sync",
               req[q].image.user \notin mixed'
        PROVE  req[q].password = accounts'[req[q].image.user]
    <2>1. req[q].image.user \in Slugs
      BY <1>4 DEF Shaped, Named
    <2>2. req[q].password = accounts[req[q].image.user]
      BY <1>1, <1>4 DEF FreshAccount
    <2>3. CASE req[q].image.user = a
      BY <1>1, <1>4, <2>2, <2>3 DEF HoldingAccount
    <2> QED BY <1>1, <2>1, <2>2, <2>3
  <1>5. ASSUME NEW q \in Requests \ {r}, req[q].pc = "profile",
               req[q].user \notin mixed'
        PROVE  req[q].password = Meant(req[q], accounts')
    <2>1. req[q].user \in Slugs
      BY <1>5, Shapes DEF Shaped
    <2>2. req[q].password = Meant(req[q], accounts)
      BY <1>1, <1>5 DEF FreshAccount
    <2>3. accounts'[req[q].user] = accounts[req[q].user]
      <3>1. CASE req[q].user = a
        BY <1>1, <1>5, <3>1 DEF HoldingAccount
      <3> QED BY <1>1, <2>1, <3>1
    <2> QED BY <2>2, <2>3 DEF Meant
  <1>6. FreshAccount'
    <2>1. \A q \in Requests :
            req'[q].pc \in {"sync", "profile"} => q # r /\ req'[q] = req[q]
      BY <1>3
    <2>2. ASSUME NEW q \in Requests, req'[q].pc = "sync",
                 req'[q].image.user \notin mixed'
          PROVE  req'[q].password = accounts'[req'[q].image.user]
      BY <1>4, <2>1, <2>2
    <2>3. ASSUME NEW q \in Requests, req'[q].pc = "profile",
                 req'[q].user \notin mixed'
          PROVE  req'[q].password = Meant(req'[q], accounts')
      <3>1. q # r /\ req'[q] = req[q]
        BY <2>1, <2>3
      <3> QED BY <1>5, <2>3, <3>1
    <2> QED BY <2>2, <2>3 DEF FreshAccount, Meant
  <1> QED BY <1>2, <1>6

LEMMA ReadyLeaves ==
  ASSUME NEW r \in Requests, NEW user, ReadyToSave(r, user), UNCHANGED users
  PROVE  \E record : Leaves(r, record)
  <1> DEFINE record == [pc |-> "save", op |-> req[r].op, house |-> req[r].house,
                        image |-> [req[r].image EXCEPT !.user = user],
                        asked |-> req[r].asked]
  <1>1. Serve(r, record) /\ record.pc = "save"
    BY DEF ReadyToSave
  <1> HIDE DEF record
  <1> QED BY <1>1 DEF Leaves

LEMMA FinishLeaves ==
  ASSUME NEW r \in Requests, Finish(r), UNCHANGED users
  PROVE  \E record : Leaves(r, record)
  <1>1. Leaves(r, Idle)
    BY DEF Leaves, Finish, Idle
  <1> QED BY <1>1

LEMMA StepLeaves ==
  ASSUME Shaped, NEW r \in Requests
  PROVE  /\ Ensure(r) \/ ResetLink(r) \/ Fail(r) => \E record : Leaves(r, record)
         /\ EditSave(r) \/ ClaimSave(r) => \E record : Leaves(r, record)
         /\ \A a \in Slugs, c \in BOOLEAN :
              ProfileRead(r, a, c) => \E record : Leaves(r, record)
         /\ \A h \in Houses, p \in Pins :
              ResetPin(r, h, p) \/ RegenerateToken(r, h, p)
                => \E record : Leaves(r, record)
         /\ \A s \in Slugs, p \in Pins :
              CreateHouse(r, s, p) => \E record : Leaves(r, record)
         /\ \A h \in Houses, s \in Slugs, ask \in Asks :
              EditRead(r, h, s, ask) => \E record : Leaves(r, record)
         /\ \A h \in Houses : ClaimRead(r, h) \/ CreateSave(r, h)
                                => \E record : Leaves(r, record)
  <1>1. ASSUME Ensure(r)
        PROVE  \E record : Leaves(r, record)
    <2>1. req[r] \in Reading /\ req[r].image \in Row /\ UNCHANGED users
      BY <1>1, Shapes, Fields DEF Ensure, InHand, Shaped
    <2>2. ASSUME NEW user, ReadyToSave(r, user)
          PROVE  \E record : Leaves(r, record)
      BY <2>1, <2>2, ReadyLeaves
    <2>3. ASSUME NEW a \in Looked(req[r].image),
                 Serve(r, [pc |-> "sync", op |-> req[r].op,
                           house |-> req[r].house,
                           image |-> [req[r].image EXCEPT !.user = a],
                           asked |-> req[r].asked, password |-> accounts[a]])
          PROVE  \E record : Leaves(r, record)
      <3> DEFINE image == [req[r].image EXCEPT !.user = a]
                 record == [pc |-> "sync", op |-> req[r].op,
                            house |-> req[r].house, image |-> image,
                            asked |-> req[r].asked, password |-> accounts[a]]
      <3>1. image.user = a
        BY <2>1 DEF Row
      <3> HIDE DEF image
      <3>2. /\ record.pc = "sync" /\ record.image.user = a
            /\ record.password = accounts[a]
        BY <3>1
      <3>3. Serve(r, record)
        BY <2>3 DEF image
      <3> HIDE DEF record
      <3> QED BY <2>1, <3>2, <3>3 DEF Leaves
    <2>4. ASSUME Serve(r, [req[r] EXCEPT !.pc = "provision"])
          PROVE  \E record : Leaves(r, record)
      <3> DEFINE record == [req[r] EXCEPT !.pc = "provision"]
      <3>1. record.pc = "provision"
        BY <2>1 DEF Reading
      <3>2. Serve(r, record)
        BY <2>4
      <3> HIDE DEF record
      <3> QED BY <2>1, <3>1, <3>2 DEF Leaves
    <2> QED BY <1>1, <2>2, <2>3, <2>4 DEF Ensure, Found
  <1>2. ASSUME ResetLink(r)
        PROVE  \E record : Leaves(r, record)
    <2> DEFINE record == [pc |-> "repin", user |-> houses[req[r].house].user,
                          pin |-> req[r].pin]
    <2>1. Finish(r) \/ Serve(r, record)
      BY <1>2 DEF ResetLink
    <2>2. UNCHANGED users /\ record.pc = "repin"
      BY <1>2 DEF ResetLink
    <2> HIDE DEF record
    <2> QED BY <2>1, <2>2, FinishLeaves DEF Leaves
  <1>3. Fail(r) \/ EditSave(r) \/ ClaimSave(r) => \E record : Leaves(r, record)
    BY FinishLeaves DEF Fail, EditSave, ClaimSave
  <1>4. ASSUME NEW a \in Slugs, NEW c \in BOOLEAN, ProfileRead(r, a, c)
        PROVE  \E record : Leaves(r, record)
    <2> DEFINE password == IF c THEN Chosen ELSE accounts[a]
               record == [pc |-> "profile", user |-> a, chosen |-> c,
                          password |-> password]
    <2>1. Serve(r, record) /\ UNCHANGED users
      BY <1>4 DEF ProfileRead
    <2>2. record.pc = "profile" /\ record.user = a
      OBVIOUS
    <2>3. record.password = Meant(record, accounts)
      <3> HIDE DEF password
      <3>1. record.password = password /\ record.user = a
        OBVIOUS
      <3>2. record.chosen = c
        BY Zenon
      <3>3. Meant(record, accounts) = password
        <4>1. CASE c = TRUE
          BY <3>1, <3>2, <4>1, Zenon DEF Meant, password
        <4>2. CASE c = FALSE
          BY <3>1, <3>2, <4>2, Zenon DEF Meant, password
        <4> QED BY <4>1, <4>2
      <3> QED BY <3>1, <3>3
    <2> HIDE DEF record
    <2> QED BY <2>1, <2>2, <2>3 DEF Leaves
  <1>5. ASSUME NEW h \in Houses, NEW p \in Pins,
               ResetPin(r, h, p) \/ RegenerateToken(r, h, p)
        PROVE  \E record : Leaves(r, record)
    <2> DEFINE record == [pc |-> "link", house |-> h, pin |-> p]
    <2>1. Serve(r, record) /\ record.pc = "link" /\ UNCHANGED users
      BY <1>5 DEF ResetPin, RegenerateToken
    <2> HIDE DEF record
    <2> QED BY <2>1 DEF Leaves
  <1>6. ASSUME NEW s \in Slugs, NEW p \in Pins, CreateHouse(r, s, p)
        PROVE  \E record : Leaves(r, record)
    <2> DEFINE record == [pc |-> "ensure", op |-> "create", house |-> Nobody,
                          image |-> Legacy(s, p), asked |-> Plain]
    <2>1. Serve(r, record) /\ record.pc = "ensure" /\ UNCHANGED users
      BY <1>6 DEF CreateHouse
    <2> HIDE DEF record
    <2> QED BY <2>1 DEF Leaves
  <1>7. ASSUME NEW h \in Houses, NEW s \in Slugs, NEW ask \in Asks,
               EditRead(r, h, s, ask)
        PROVE  \E record : Leaves(r, record)
    <2> DEFINE record == [pc |-> "ensure", op |-> "edit", house |-> h,
                          image |-> EditImage(houses[h], s, ask),
                          asked |-> ask]
    <2>1. Serve(r, record) /\ record.pc = "ensure" /\ UNCHANGED users
      BY <1>7 DEF EditRead
    <2> HIDE DEF record
    <2> QED BY <2>1 DEF Leaves
  <1>8. ASSUME NEW h \in Houses, ClaimRead(r, h)
        PROVE  \E record : Leaves(r, record)
    <2> DEFINE record == [pc |-> "ensure", op |-> "claim", house |-> h,
                          image |-> houses[h], asked |-> Plain]
    <2>1. Serve(r, record) /\ record.pc = "ensure" /\ UNCHANGED users
      BY <1>8 DEF ClaimRead
    <2> HIDE DEF record
    <2> QED BY <2>1 DEF Leaves
  <1>9. \A h \in Houses : CreateSave(r, h) => \E record : Leaves(r, record)
    BY FinishLeaves DEF CreateSave
  <1> QED BY <1>1, <1>2, <1>3, <1>4, <1>5, <1>6, <1>7, <1>8, <1>9

LEMMA ReadyRewrites ==
  ASSUME NEW r \in Requests, NEW user, NEW a \in Slugs, NEW password \in Passwords,
         ReadyToSave(r, user), ChangeAccount(r, a, password),
         \A b \in Slugs \ {a} : told'[b] = told[b],
         a \notin mixed => told'[a] = password
  PROVE  \E record : Rewrites(r, a, password, record)
  <1> DEFINE record == [pc |-> "save", op |-> req[r].op, house |-> req[r].house,
                        image |-> [req[r].image EXCEPT !.user = user],
                        asked |-> req[r].asked]
  <1>1. Serve(r, record) /\ record.pc = "save"
    BY DEF ReadyToSave
  <1> HIDE DEF record
  <1> QED BY <1>1 DEF Rewrites

LEMMA FinishRewrites ==
  ASSUME NEW r \in Requests, NEW a \in Slugs, NEW password \in Passwords,
         Finish(r), ChangeAccount(r, a, password),
         \A b \in Slugs \ {a} : told'[b] = told[b],
         a \notin mixed => told'[a] = password
  PROVE  \E record : Rewrites(r, a, password, record)
  <1>1. Rewrites(r, a, password, Idle)
    BY DEF Rewrites, Finish, Idle
  <1> QED BY <1>1

\* The actions that touch accounts.
Touches(r) == Sync(r) \/ Provision(r) \/ ResetAccount(r) \/ ProfileSave(r)

LEMMA StepRewrites ==
  ASSUME Shaped, FreshAccount, AccountWordHolds, NEW r \in Requests, Touches(r)
  PROVE  \/ \E record : Leaves(r, record)
         \/ \E a \in Slugs, password \in Passwords : \E record :
              Rewrites(r, a, password, record)
  <1>1. ASSUME Sync(r)
        PROVE  \/ \E record : Leaves(r, record)
               \/ \E a \in Slugs, password \in Passwords : \E record :
                    Rewrites(r, a, password, record)
    <2> DEFINE a == req[r].image.user
    <2>1. a \in Slugs /\ req[r].password \in Passwords /\ req[r].pc = "sync"
      BY <1>1, Fields DEF Sync, InHand, Shaped, Named
    <2>2. told' = told /\ ReadyToSave(r, a)
      BY <1>1 DEF Sync
    <2>3. a \notin mixed => told'[a] = req[r].password
      BY <2>1, <2>2 DEF FreshAccount, AccountWordHolds
    <2>4. CASE ChangeAccount(r, a, req[r].password)
      BY <2>1, <2>2, <2>3, <2>4, ReadyRewrites
    <2>5. CASE UNCHANGED <<accounts, mixed>>
      <3>1. UNCHANGED users
        BY <2>2, <2>5 DEF users
      <3> QED BY <2>2, <3>1, ReadyLeaves
    <2> QED BY <1>1, <2>4, <2>5 DEF Sync
  <1>2. ASSUME Provision(r)
        PROVE  \/ \E record : Leaves(r, record)
               \/ \E a \in Slugs, password \in Passwords : \E record :
                    Rewrites(r, a, password, record)
    <2> DEFINE a == req[r].image.slug
               pin == req[r].image.pin
    <2>1. a \in Slugs /\ pin \in Passwords
      BY <1>2, Fields DEF Provision, InHand, Shaped, Row, Passwords
    <2>2. CASE /\ ChangeAccount(r, a, pin)
               /\ told' = [told EXCEPT ![a] = pin]
               /\ ReadyToSave(r, a)
      <3>1. told'[a] = pin /\ \A b \in Slugs \ {a} : told'[b] = told[b]
        BY <2>1, <2>2 DEF Shaped, TypeOK
      <3> QED BY <2>1, <2>2, <3>1, ReadyRewrites
    <2>3. CASE /\ UNCHANGED users
               /\ Finish(r) \/ ReadyToSave(r, req[r].image.user)
      BY <2>3, FinishLeaves, ReadyLeaves
    <2> QED BY <1>2, <2>2, <2>3 DEF Provision
  <1>3. ASSUME ResetAccount(r)
        PROVE  \E a \in Slugs, password \in Passwords : \E record :
                 Rewrites(r, a, password, record)
    <2> DEFINE a == req[r].user
               pin == req[r].pin
    <2>1. a \in Slugs /\ pin \in Passwords
      BY <1>3, Shapes DEF ResetAccount, Shaped, Passwords
    <2>2. /\ ChangeAccount(r, a, pin) /\ Finish(r)
          /\ told' = [told EXCEPT ![a] = pin]
      BY <1>3 DEF ResetAccount
    <2>3. told'[a] = pin /\ \A b \in Slugs \ {a} : told'[b] = told[b]
      BY <2>1, <2>2 DEF Shaped, TypeOK
    <2> QED BY <2>1, <2>2, <2>3, FinishRewrites
  <1>4. ASSUME ProfileSave(r)
        PROVE  \E a \in Slugs, password \in Passwords : \E record :
                 Rewrites(r, a, password, record)
    <2> DEFINE a == req[r].user
               password == req[r].password
    <2>1. a \in Slugs /\ password \in Passwords /\ req[r].pc = "profile"
      BY <1>4, Shapes DEF ProfileSave, Shaped
    <2>2. ChangeAccount(r, a, password) /\ Finish(r)
      BY <1>4 DEF ProfileSave
    <2>3. /\ a \notin mixed => told'[a] = password
          /\ \A b \in Slugs \ {a} : told'[b] = told[b]
      <3>1. a \notin mixed => password = Meant(req[r], accounts)
        BY <2>1 DEF FreshAccount
      <3>2. CASE req[r].chosen
        <4>1. told' = [told EXCEPT ![a] = Chosen]
          BY <1>4, <3>2 DEF ProfileSave
        <4>2. Meant(req[r], accounts) = Chosen
          BY <3>2, Zenon DEF Meant
        <4> QED BY <2>1, <3>1, <4>1, <4>2 DEF Shaped, TypeOK
      <3>3. CASE ~req[r].chosen
        <4>1. told' = told
          BY <1>4, <3>3 DEF ProfileSave
        <4>2. Meant(req[r], accounts) = accounts[a]
          BY <3>3, Zenon DEF Meant
        <4> QED BY <2>1, <3>1, <4>1, <4>2 DEF AccountWordHolds
      <3> QED BY <3>2, <3>3
    <2> QED BY <2>1, <2>2, <2>3, FinishRewrites
  <1> QED BY <1>1, <1>2, <1>3, <1>4 DEF Touches

LEMMA StepAccounts ==
  ASSUME Shaped, FreshAccount, AccountWordHolds, [Next]_vars
  PROVE  FreshAccount' /\ AccountWordHolds'
  <1>1. CASE UNCHANGED <<users, req>>
    BY <1>1 DEF users, FreshAccount, AccountWordHolds, Meant
  <1>2. ASSUME NEW r \in Requests, Touches(r)
        PROVE  FreshAccount' /\ AccountWordHolds'
    BY <1>2, StepRewrites, AccountsLeft, AccountRewritten
  <1>3. ASSUME NEW r \in Requests, \E record : Leaves(r, record)
        PROVE  FreshAccount' /\ AccountWordHolds'
    BY <1>3, AccountsLeft
  <1>4. \A h \in Houses : DeleteHouse(h) => UNCHANGED <<users, req>>
    BY DEF DeleteHouse
  <1>5. UNCHANGED vars => UNCHANGED <<users, req>>
    BY DEF vars
  <1> QED BY <1>1, <1>2, <1>3, <1>4, <1>5, StepLeaves DEF Next, Touches

\* In every interleaving and with every failure, an account that did not
\* change under a reading has the password last chosen, reset or drawn.
THEOREM PasswordsHold == Spec => []AccountWordHolds
  <1>1. Init => Shaped /\ FreshAccount /\ AccountWordHolds
    <2>1. Init => FreshAccount
      BY DEF Init, FreshAccount, Idle
    <2>2. Init => AccountWordHolds
      BY DEF Init, AccountWordHolds
    <2> QED BY <2>1, <2>2, InitShape
  <1>2. Shaped /\ FreshAccount /\ AccountWordHolds /\ [Next]_vars
          => Shaped' /\ FreshAccount' /\ AccountWordHolds'
    BY StepShape, StepAccounts
  <1> QED BY <1>1, <1>2, PTL DEF Spec
=============================================================================
