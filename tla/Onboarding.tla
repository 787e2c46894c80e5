----------------------------- MODULE Onboarding -----------------------------
(***************************************************************************)
(* From sign-up to a running business: users.service.ts mails a code and   *)
(* verifies it, subscribtion.service.ts sells the package, and             *)
(* entity.service.ts opens the entity with its warehouse and its guest.    *)
(*                                                                         *)
(* The status of an owner is written by all three, each from what it read  *)
(* before.  A code serves verify-email and reset-password alike.  Prices,  *)
(* passwords and the text of a mail are left out.                          *)
(***************************************************************************)
EXTENDS Integers, FiniteSets

CONSTANTS
  Requests,  \* the requests being served; each is followed by another
  Emails,    \* the users who may sign up, by email
  Codes,     \* the codes that may be mailed (a bound); drawn at random, so distinct
  Names,     \* the names of entities
  None,
  Loads      \* what may be asked of the service, see Load

AllKinds == {"SIGNUP", "REVERIFY", "FORGOT", "VERIFY", "RESET", "PACKAGE", "ENTITY"}
Types == {"CUSTOMER", "BUSINESS"}

\* The handlers in use, how many requests are served at a time (a bound), and
\* who signs up.
Load == [kinds: SUBSET AllKinds, atOnce: Nat \ {0}, types: SUBSET Types]
ASSUME LoadsAssumption == Loads \subseteq Load
ASSUME NoneAssumption == None \notin Emails \union Names
ASSUME RequestsAssumption == IsFiniteSet(Requests) /\ IsFiniteSet(Codes) /\ IsFiniteSet(Names)

VARIABLES
  load,       \* the load of this behaviour
  users,      \* the users' documents
  tokens,     \* whose code it is, whether it is stored, and its five minutes
  carts,      \* how many carts a user has
  packages,   \* how many packages an owner has
  documents,  \* what was created for an owner on the way to an entity
  entities,   \* the owner of an entity, and whether its guest knows the entity
  pc,         \* the next step of a request
  call,       \* what was requested, with req.user
  lost        \* whether the process has exited under a request

docs == <<users, tokens, carts, packages, documents, entities>>
vars == <<load, docs, pc, call, lost>>

NoCall == [kind |-> "none"]
NoUser == [type |-> "none", verified |-> FALSE, status |-> "INITIAL", entity |-> None]
Working(r) == pc[r] # "idle"

Init ==
  /\ load \in Loads
  /\ users = [e \in Emails |-> NoUser]
  /\ tokens = [c \in Codes |-> [user |-> None, stored |-> FALSE, valid |-> TRUE]]
  /\ carts = [e \in Emails |-> 0]
  /\ packages = [e \in Emails |-> 0]
  /\ documents = [e \in Emails |-> {}]
  /\ entities = [n \in Names |-> [owner |-> None, guest |-> FALSE]]
  /\ pc = [r \in Requests |-> "idle"]
  /\ call = [r \in Requests |-> NoCall]
  /\ lost = FALSE

-----------------------------------------------------------------------------
(* Requests *)

Serves(r, kinds, at) == pc[r] = at /\ call[r].kind \in kinds
Goto(r, at) == pc' = [pc EXCEPT ![r] = at] /\ UNCHANGED <<load, call, lost>>
Move(r, at) == Goto(r, at) /\ UNCHANGED docs

\* The request is answered, with an exception when there is one.
Answer(r) ==
  /\ pc' = [pc EXCEPT ![r] = "idle"]
  /\ call' = [call EXCEPT ![r] = NoCall]
  /\ UNCHANGED <<load, lost>>
Fail(r) == Answer(r) /\ UNCHANGED docs

me(r) == call[r].user
email(r) == call[r].dto.email
code(r) == call[r].dto.code
name(r) == call[r].dto.name
Exists(e) == users[e].type # "none"

Dtos ==
  [kind: {"SIGNUP"}, email: Emails, type: load.types]
    \union [kind: {"REVERIFY", "FORGOT"}, email: Emails]
    \union [kind: {"VERIFY", "RESET"}, code: Codes]
    \union [kind: {"PACKAGE"}, email: Emails]
    \union [kind: {"ENTITY"}, email: Emails, name: Names]

\* PACKAGE and ENTITY are for owners; JwtStrategy.validate reads the document,
\* which the handler keeps as req.user.
Arrive(r) ==
  /\ pc[r] = "idle"
  /\ Cardinality({o \in Requests : Working(o)}) < load.atOnce
  /\ \E dto \in Dtos :
       /\ dto.kind \in load.kinds
       /\ dto.kind \in {"PACKAGE", "ENTITY"} => users[dto.email].type = "BUSINESS"
       /\ call' = [call EXCEPT ![r] =
            [kind |-> dto.kind, dto |-> dto,
             user |-> IF dto.kind \in {"PACKAGE", "ENTITY"} THEN users[dto.email] ELSE NoUser]]
  /\ pc' = [pc EXCEPT ![r] = "find"]
  /\ UNCHANGED <<load, docs, lost>>

-----------------------------------------------------------------------------
(* createWithPassword, sendReverifyEmail, sendResetPasswordEmail *)

\* '001' when the email is taken.
SignUpFind(r) ==
  /\ Serves(r, {"SIGNUP"}, "find")
  /\ IF Exists(email(r)) THEN Fail(r) ELSE Move(r, "create")

\* The indexes on email and phoneNumber may refuse it; the rest are defaults.
SignUpCreate(r) ==
  /\ Serves(r, {"SIGNUP"}, "create")
  /\ \/ Fail(r)
     \/ /\ ~Exists(email(r))
        /\ users' = [users EXCEPT ![email(r)] = [NoUser EXCEPT !.type = call[r].dto.type]]
        /\ Goto(r, "token")
        /\ UNCHANGED <<tokens, carts, packages, documents, entities>>

\* '002' without a user; '080' when verified, '081' for FORGOT when not.
MailFind(r) ==
  /\ Serves(r, {"REVERIFY", "FORGOT"}, "find")
  /\ IF ~Exists(email(r)) \/ users[email(r)].verified # (call[r].kind = "FORGOT")
     THEN Fail(r) ELSE Move(r, "token")

\* The type of the token is stored and never read.
CreateToken(r) ==
  /\ Serves(r, {"SIGNUP", "REVERIFY", "FORGOT"}, "token")
  /\ \E c \in Codes :
       /\ tokens[c].user = None
       /\ tokens' = [tokens EXCEPT ![c] = [user |-> email(r), stored |-> TRUE, valid |-> TRUE]]
  /\ Answer(r)
  /\ UNCHANGED <<users, carts, packages, documents, entities>>

\* Five minutes have passed, for a code that is stored or was just found.
TokenExpires(c) ==
  /\ tokens[c].stored \/ \E r \in Requests : pc[r] = "check" /\ code(r) = c
  /\ tokens[c].valid
  /\ tokens' = [tokens EXCEPT ![c].valid = FALSE]
  /\ UNCHANGED <<load, users, carts, packages, documents, entities, pc, call, lost>>

-----------------------------------------------------------------------------
(* verifyEmailToken, and verifyCode with resetPassword *)

\* '003' unless the code is stored.
FindToken(r) ==
  /\ Serves(r, {"VERIFY", "RESET"}, "find")
  /\ IF tokens[code(r)].stored THEN Move(r, "check") ELSE Fail(r)

verifying(r) == tokens[code(r)].user

\* Mutation: only an expired token is removed.
KeepToken(r) ==
  /\ Serves(r, {"VERIFY", "RESET"}, "check")
  /\ IF tokens[code(r)].valid
     THEN Move(r, IF call[r].kind = "RESET" THEN "save"
                  ELSE IF users[verifying(r)].type = "CUSTOMER" THEN "cart" ELSE "update")
     ELSE /\ tokens' = [tokens EXCEPT ![code(r)].stored = FALSE]
          /\ Answer(r)
          /\ UNCHANGED <<users, carts, packages, documents, entities>>

\* Mutation: the user is verified first, and then gets the cart.
RemoveTokenAndVerify(r) ==
  /\ Serves(r, {"VERIFY", "RESET"}, "check")
  /\ tokens' = [tokens EXCEPT ![code(r)].stored = FALSE]
  /\ IF tokens[code(r)].valid /\ call[r].kind = "VERIFY"
     THEN /\ users' = [users EXCEPT ![verifying(r)].verified = TRUE]
          /\ Goto(r, IF users[verifying(r)].type = "CUSTOMER" THEN "cart" ELSE "update")
     ELSE Answer(r) /\ UNCHANGED users
  /\ UNCHANGED <<carts, packages, documents, entities>>

\* The token is removed, valid or not, and removed already or not; expired is
\* 410.
RemoveToken(r) ==
  /\ Serves(r, {"VERIFY", "RESET"}, "check")
  /\ tokens' = [tokens EXCEPT ![code(r)].stored = FALSE]
  /\ IF ~tokens[code(r)].valid THEN Answer(r)
     ELSE Goto(r, IF call[r].kind = "RESET" THEN "save"
                  ELSE IF users[verifying(r)].type = "CUSTOMER" THEN "cart" ELSE "update")
  /\ UNCHANGED <<users, carts, packages, documents, entities>>

CreateCart(r) ==
  /\ Serves(r, {"VERIFY"}, "cart")
  /\ carts' = [carts EXCEPT ![verifying(r)] = carts[verifying(r)] + 1]
  /\ Goto(r, "update")
  /\ UNCHANGED <<users, tokens, packages, documents, entities>>

\* An owner is PENDING, whatever the status was.
VerifyUser(r) ==
  /\ Serves(r, {"VERIFY"}, "update")
  /\ users' = [users EXCEPT ![verifying(r)] =
       [users[verifying(r)] EXCEPT
          !.verified = TRUE,
          !.status = IF users[verifying(r)].type = "BUSINESS" THEN "PENDING"
                     ELSE users[verifying(r)].status]]
  /\ Answer(r)
  /\ UNCHANGED <<tokens, carts, packages, documents, entities>>

\* save writes the password and nothing else.
SavePassword(r) == Serves(r, {"RESET"}, "save") /\ Fail(r)

-----------------------------------------------------------------------------
(* createPackage *)

\* '082' when there is a package, '043' unless the owner was PENDING on arrival.
PackageFind(r) ==
  /\ Serves(r, {"PACKAGE"}, "find")
  /\ IF packages[email(r)] > 0 \/ me(r).status # "PENDING" THEN Fail(r) ELSE Move(r, "create")

CreatePackage(r) ==
  /\ Serves(r, {"PACKAGE"}, "create")
  /\ packages' = [packages EXCEPT ![email(r)] = packages[email(r)] + 1]
  /\ Goto(r, "owner")
  /\ UNCHANGED <<users, tokens, carts, documents, entities>>

\* Mutation: packageId and price without the status.
PackageKeepsStatus(r) == Serves(r, {"PACKAGE"}, "owner") /\ Fail(r)

PackageUpdateOwner(r) ==
  /\ Serves(r, {"PACKAGE"}, "owner")
  /\ users' = [users EXCEPT ![email(r)].status = "PAID"]
  /\ Answer(r)
  /\ UNCHANGED <<tokens, carts, packages, documents, entities>>

-----------------------------------------------------------------------------
(* createEntities: the session is passed to create, which does not use it, so
   what was created before an error stays *)

\* Mutation: the status on arrival is not looked at.
EntityFindAnyStatus(r) ==
  /\ Serves(r, {"ENTITY"}, "find")
  /\ IF entities[name(r)].owner = email(r) THEN Fail(r) ELSE Move(r, "warehouse")

\* '054' unless PAID on arrival, '053' when the owner has an entity of the name.
EntityFind(r) ==
  /\ Serves(r, {"ENTITY"}, "find")
  /\ IF me(r).status # "PAID" \/ entities[name(r)].owner = email(r)
     THEN Fail(r) ELSE Move(r, "warehouse")

\* The warehouse, the guest as a customer, and the guest as a user, in turn.
After == [warehouse |-> "customer", customer |-> "guest", guest |-> "entity"]

\* An index may refuse a code drawn at random: the answer is 029.
CreateDocument(r) ==
  /\ pc[r] \in DOMAIN After
  /\ \/ Fail(r)
     \/ /\ documents' = [documents EXCEPT ![email(r)] = documents[email(r)] \union {pc[r]}]
        /\ Goto(r, After[pc[r]])
        /\ UNCHANGED <<users, tokens, carts, packages, entities>>

\* The index on name refuses a name in use, and the one on sku may refuse any.
CreateEntity(r) ==
  /\ Serves(r, {"ENTITY"}, "entity")
  /\ \/ Fail(r)
     \/ /\ entities[name(r)].owner = None
        /\ entities' = [entities EXCEPT ![name(r)].owner = email(r)]
        /\ Goto(r, "link")
        /\ UNCHANGED <<users, tokens, carts, packages, documents>>

\* Mutation: a guest keeps the entityGuestId it was created with.
SkipLink(r) == Serves(r, {"ENTITY"}, "link") /\ Move(r, "owner")

LinkGuest(r) ==
  /\ Serves(r, {"ENTITY"}, "link")
  /\ entities' = [entities EXCEPT ![name(r)].guest = TRUE]
  /\ Goto(r, "owner")
  /\ UNCHANGED <<users, tokens, carts, packages, documents>>

EntityUpdateOwner(r) ==
  /\ Serves(r, {"ENTITY"}, "owner")
  /\ users' = [users EXCEPT ![email(r)] =
       [users[email(r)] EXCEPT !.status = "COMPLETED", !.entity = name(r)]]
  /\ Answer(r)
  /\ UNCHANGED <<tokens, carts, packages, documents, entities>>

-----------------------------------------------------------------------------

\* The process exits, loses the requests at work, and is started again.
ProcessExit ==
  /\ \E r \in Requests : Working(r)
  /\ pc' = [r \in Requests |-> "idle"]
  /\ call' = [r \in Requests |-> NoCall]
  /\ lost' = TRUE
  /\ UNCHANGED <<load, docs>>

Handler(r) ==
  \/ SignUpFind(r) \/ SignUpCreate(r) \/ MailFind(r) \/ CreateToken(r)
  \/ FindToken(r) \/ RemoveToken(r) \/ CreateCart(r) \/ VerifyUser(r) \/ SavePassword(r)
  \/ PackageFind(r) \/ CreatePackage(r) \/ PackageUpdateOwner(r)
  \/ EntityFind(r) \/ CreateDocument(r) \/ CreateEntity(r) \/ LinkGuest(r)
  \/ EntityUpdateOwner(r)

Next ==
  \/ \E r \in Requests : Arrive(r) \/ Handler(r)
  \/ \E c \in Codes : TokenExpires(c)
  \/ ProcessExit

Spec == Init /\ [][Next]_vars

-----------------------------------------------------------------------------
(* Properties *)

Statuses == {"INITIAL", "PENDING", "PAID", "COMPLETED"}
UserType == [type: Types \union {"none"}, verified: BOOLEAN, status: Statuses,
             entity: Names \union {None}]
TokenType == [user: Emails \union {None}, stored: BOOLEAN, valid: BOOLEAN]
EntityType == [owner: Emails \union {None}, guest: BOOLEAN]
CallType == [kind: AllKinds, dto: Dtos, user: UserType]
Steps == {"idle", "find", "create", "token", "check", "cart", "update", "save", "owner",
          "warehouse", "customer", "guest", "entity", "link"}

TypeOK ==
  /\ load \in Loads
  /\ users \in [Emails -> UserType]
  /\ tokens \in [Codes -> TokenType]
  /\ carts \in [Emails -> Nat]
  /\ packages \in [Emails -> Nat]
  /\ documents \in [Emails -> SUBSET DOMAIN After]
  /\ entities \in [Names -> EntityType]
  /\ pc \in [Requests -> Steps]
  /\ call \in [Requests -> CallType \union {NoCall}]
  /\ lost \in BOOLEAN

Spent(e) == {c \in Codes : tokens[c].user = e /\ ~tokens[c].stored}
Owned(e) == {n \in Names : entities[n].owner = e}

\* However requests interleave, and wherever the process exits, a customer whose
\* email is verified has a cart: addItemsToCart refuses a customer without one,
\* and nothing else creates it.
VerifiedHaveCarts ==
  \A e \in Emails : users[e].type = "CUSTOMER" /\ users[e].verified => carts[e] > 0

\* A code brings as many carts as there are requests at a time, at most: one
\* when they come one by one, even when the process exits in between.
CartsPerCode == \A e \in Emails : carts[e] <= load.atOnce * Cardinality(Spent(e))

\* In any interleaving, and through exits, who has paid has a package; who is
\* COMPLETED owns the entity in entityId, whose warehouse and guest exist and
\* whose guest knows it.
StatusHasDocuments ==
  \A e \in Emails :
    /\ users[e].status \in {"PAID", "COMPLETED"} \/ Owned(e) # {} => packages[e] > 0
    /\ Owned(e) # {} => documents[e] = DOMAIN After
    /\ users[e].status = "COMPLETED" =>
         users[e].entity \in Owned(e) /\ entities[users[e].entity].guest

OneCodeEach == load.kinds \intersect {"REVERIFY", "FORGOT"} = {}
Serial == load.atOnce = 1

\* One request at a time and at rest, when none was lost and a user was mailed
\* one code only, the status of an owner says what the owner has, so that there
\* is a next step: PENDING may buy a package, and PAID may open an entity.
StatusTellsWhenSerial ==
  (Serial /\ OneCodeEach /\ ~lost /\ \A r \in Requests : ~Working(r)) =>
    \A e \in Emails : users[e].type = "BUSINESS" =>
      users[e].status = CASE ~users[e].verified -> "INITIAL"
                          [] users[e].verified /\ packages[e] = 0 -> "PENDING"
                          [] packages[e] > 0 /\ Owned(e) = {} -> "PAID"
                          [] OTHER -> "COMPLETED"

Rank == [INITIAL |-> 1, PENDING |-> 2, PAID |-> 3, COMPLETED |-> 4]

\* When requests come one at a time, and a user was mailed one code only, no
\* step takes an owner's status back, exits included.
StatusAdvancesWhenSerial ==
  [][(Serial /\ OneCodeEach) =>
       \A e \in Emails : Rank[users'[e].status] >= Rank[users[e].status]]_vars
-----------------------------------------------------------------------------
(* What users are promised *)

Obtained(e, thing) ==
  \/ thing = "cart" /\ carts[e] > 0
  \/ thing = "package" /\ packages[e] > 0
  \/ thing = "papers" /\ documents[e] = DOMAIN After
  \/ thing = "entity" /\ \E n \in Owned(e) : entities[n].guest

Place(e) ==
  IF users[e].status \in {"PAID", "COMPLETED"} THEN users[e].status
  ELSE IF users[e].type = "CUSTOMER" /\ users[e].verified THEN "SHOPPING" ELSE "START"

Lifecycle == INSTANCE UserLifecycle WITH
  Users <- Emails,
  has <- [e \in Emails |-> {t \in {"cart", "package", "papers", "entity"} : Obtained(e, t)}],
  stands <- [e \in Emails |-> Place(e)]

\* The services together do what UserLifecycle promises, in any interleaving and
\* through exits: whatever one of them writes, the others have done what it
\* takes, and none takes away what another has given.
FollowsLifecycle == Lifecycle!Spec
=============================================================================
