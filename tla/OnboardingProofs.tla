-------------------------- MODULE OnboardingProofs --------------------------
(***************************************************************************)
(* Theorems about Onboarding, for any users, codes, names and requests:    *)
(* its types, that a status is backed by documents, that the services      *)
(* implement UserLifecycle, how many carts a code brings and, one request  *)
(* at a time, that a status says what an owner has and never goes back.    *)
(***************************************************************************)
EXTENDS Onboarding, FiniteSetTheorems, TLAPS

Mailers == {"SIGNUP", "REVERIFY", "FORGOT"}
Verifiers == {"VERIFY", "RESET"}
Buyers == {"PACKAGE", "ENTITY"}

\* What was requested is one of the handlers' dtos.
Asked(r) == Working(r) => call[r] \in CallType /\ call[r].dto.kind = call[r].kind

\* The steps of createEntities are taken for it alone.
Opening == {"warehouse", "customer", "guest", "entity", "link"}

TypeInv ==
  /\ TypeOK
  /\ \A r \in Requests :
       Asked(r) /\ (pc[r] \in Opening => call[r].kind = "ENTITY")

-----------------------------------------------------------------------------
(* Dtos *)

LEMMA LoadFacts ==
  ASSUME load \in Loads
  PROVE  load.types \subseteq Types /\ load.kinds \subseteq AllKinds
BY LoadsAssumption DEF Load

LEMMA DtoFields ==
  ASSUME load \in Loads, NEW dto \in Dtos
  PROVE  /\ dto.kind \in AllKinds
         /\ dto.kind \in Mailers \union Buyers => dto.email \in Emails
         /\ dto.kind \in Verifiers => dto.code \in Codes
         /\ dto.kind = "ENTITY" => dto.name \in Names
         /\ dto.kind = "SIGNUP" => dto.type \in Types
<1>1. CASE dto \in [kind: {"SIGNUP"}, email: Emails, type: load.types]
  BY <1>1, LoadFacts DEF AllKinds, Mailers, Verifiers, Buyers
<1>2. CASE dto \in [kind: {"REVERIFY", "FORGOT"}, email: Emails]
  BY <1>2 DEF AllKinds, Mailers, Verifiers, Buyers
<1>3. CASE dto \in [kind: {"VERIFY", "RESET"}, code: Codes]
  BY <1>3 DEF AllKinds, Mailers, Verifiers, Buyers
<1>4. CASE dto \in [kind: {"PACKAGE"}, email: Emails]
  BY <1>4 DEF AllKinds, Mailers, Verifiers, Buyers
<1>5. CASE dto \in [kind: {"ENTITY"}, email: Emails, name: Names]
  BY <1>5 DEF AllKinds, Mailers, Verifiers, Buyers
<1> QED
  BY <1>1, <1>2, <1>3, <1>4, <1>5 DEF Dtos

LEMMA CallFields ==
  ASSUME TypeInv, NEW r \in Requests, Working(r)
  PROVE  /\ call[r].kind \in AllKinds /\ call[r].user \in UserType
         /\ call[r].kind \in Mailers \union Buyers => email(r) \in Emails
         /\ call[r].kind \in Verifiers => code(r) \in Codes
         /\ call[r].kind = "ENTITY" => name(r) \in Names
         /\ call[r].kind = "SIGNUP" => call[r].dto.type \in Types
<1>1. load \in Loads /\ call[r] \in CallType /\ call[r].dto.kind = call[r].kind
  BY DEF TypeInv, TypeOK, Asked
<1>2. call[r].dto \in Dtos /\ call[r].kind \in AllKinds /\ call[r].user \in UserType
  BY <1>1 DEF CallType
<1> QED
  BY <1>1, <1>2, DtoFields DEF email, code, name

LEMMA NoUserType == NoUser \in UserType
BY DEF NoUser, UserType, Statuses

-----------------------------------------------------------------------------
(* Steps of one request *)

LEMMA GotoStep ==
  ASSUME TypeInv, NEW r \in Requests, NEW at \in Steps, Goto(r, at), Working(r),
         at \in Opening => call[r].kind = "ENTITY",
         users' \in [Emails -> UserType], tokens' \in [Codes -> TokenType],
         carts' \in [Emails -> Nat], packages' \in [Emails -> Nat],
         documents' \in [Emails -> SUBSET DOMAIN After], entities' \in [Names -> EntityType]
  PROVE  TypeInv'
<1>1. pc' \in [Requests -> Steps] /\ pc'[r] = at /\ \A o \in Requests \ {r} : pc'[o] = pc[o]
  BY DEF Goto, TypeInv, TypeOK
<1>2. UNCHANGED <<load, call, lost>>
  BY DEF Goto
<1>3. Dtos' = Dtos
  BY <1>2 DEF Dtos
<1>4. CallType' = CallType
  BY <1>3 DEF CallType
<1>5. TypeOK'
  BY <1>1, <1>2, <1>4 DEF TypeInv, TypeOK
<1>6. ASSUME NEW o \in Requests
      PROVE  (Asked(o) /\ (pc[o] \in Opening => call[o].kind = "ENTITY"))'
  BY <1>1, <1>2, <1>4 DEF TypeInv, Asked, Working
<1> QED
  BY <1>5, <1>6 DEF TypeInv

LEMMA AnswerStep ==
  ASSUME TypeInv, NEW r \in Requests, Answer(r),
         users' \in [Emails -> UserType], tokens' \in [Codes -> TokenType],
         carts' \in [Emails -> Nat], packages' \in [Emails -> Nat],
         documents' \in [Emails -> SUBSET DOMAIN After], entities' \in [Names -> EntityType]
  PROVE  TypeInv'
<1>1. /\ pc' \in [Requests -> Steps] /\ pc'[r] = "idle"
      /\ \A o \in Requests \ {r} : pc'[o] = pc[o]
  BY DEF Answer, TypeInv, TypeOK, Steps
<1>2. /\ call' \in [Requests -> CallType \union {NoCall}] /\ UNCHANGED <<load, lost>>
      /\ \A o \in Requests \ {r} : call'[o] = call[o]
  BY DEF Answer, TypeInv, TypeOK
<1>3. Dtos' = Dtos
  BY <1>2 DEF Dtos
<1>4. CallType' = CallType
  BY <1>3 DEF CallType
<1>5. TypeOK'
  BY <1>1, <1>2, <1>4 DEF TypeInv, TypeOK
<1>6. ASSUME NEW o \in Requests
      PROVE  (Asked(o) /\ (pc[o] \in Opening => call[o].kind = "ENTITY"))'
  BY <1>1, <1>2, <1>4 DEF TypeInv, Asked, Working, Opening
<1> QED
  BY <1>5, <1>6 DEF TypeInv

LEMMA MoveStep ==
  ASSUME TypeInv, NEW r \in Requests, NEW at \in Steps, Move(r, at), Working(r),
         at \in Opening => call[r].kind = "ENTITY"
  PROVE  TypeInv'
BY GotoStep DEF Move, docs, TypeInv, TypeOK

LEMMA FailStep ==
  ASSUME TypeInv, NEW r \in Requests, Fail(r)
  PROVE  TypeInv'
BY AnswerStep DEF Fail, docs, TypeInv, TypeOK

LEMMA ServesFacts ==
  ASSUME TypeInv, NEW r \in Requests, NEW kinds, NEW at \in Steps \ {"idle"}, Serves(r, kinds, at)
  PROVE  Working(r) /\ pc[r] = at /\ call[r].kind \in kinds
BY DEF Serves, Working

-----------------------------------------------------------------------------
(* Types *)

LEMMA TypeInit == Init => TypeInv
<1> SUFFICES ASSUME Init PROVE TypeInv
  OBVIOUS
<1>1. load \in Loads /\ lost \in BOOLEAN
  BY DEF Init
<1>2. users \in [Emails -> UserType]
  BY NoUserType DEF Init
<1>3. tokens \in [Codes -> TokenType]
  BY DEF Init, TokenType
<1>4. carts \in [Emails -> Nat] /\ packages \in [Emails -> Nat]
  BY DEF Init
<1>5. documents \in [Emails -> SUBSET DOMAIN After]
  BY DEF Init
<1>6. entities \in [Names -> EntityType]
  BY DEF Init, EntityType
<1>7. pc \in [Requests -> Steps] /\ call \in [Requests -> CallType \union {NoCall}]
  BY DEF Init, Steps
<1>8. \A r \in Requests : Asked(r) /\ (pc[r] \in Opening => call[r].kind = "ENTITY")
  BY DEF Init, Asked, Working, Opening
<1> QED
  BY <1>1, <1>2, <1>3, <1>4, <1>5, <1>6, <1>7, <1>8 DEF TypeInv, TypeOK

LEMMA ArriveTypes ==
  ASSUME TypeInv, NEW r \in Requests, Arrive(r)
  PROVE  TypeInv'
<1>1. PICK dto \in Dtos :
        call' = [call EXCEPT ![r] =
          [kind |-> dto.kind, dto |-> dto,
           user |-> IF dto.kind \in {"PACKAGE", "ENTITY"} THEN users[dto.email] ELSE NoUser]]
  BY DEF Arrive
<1> DEFINE me1 == IF dto.kind \in {"PACKAGE", "ENTITY"} THEN users[dto.email] ELSE NoUser
           call1 == [kind |-> dto.kind, dto |-> dto, user |-> me1]
<1>2. dto.kind \in AllKinds /\ (dto.kind \in {"PACKAGE", "ENTITY"} => dto.email \in Emails)
  BY DtoFields DEF TypeInv, TypeOK, Buyers
<1>3. me1 \in UserType
  BY <1>2, NoUserType DEF TypeInv, TypeOK
<1>4. call1 \in CallType /\ call1.dto.kind = call1.kind
  BY <1>2, <1>3 DEF CallType
<1>5. call' = [call EXCEPT ![r] = call1]
  BY <1>1
<1> HIDE DEF call1
<1>6. /\ call' \in [Requests -> CallType \union {NoCall}] /\ call'[r] = call1
      /\ \A o \in Requests \ {r} : call'[o] = call[o]
  BY <1>4, <1>5 DEF TypeInv, TypeOK
<1>7. /\ pc' \in [Requests -> Steps] /\ pc'[r] = "find"
      /\ \A o \in Requests \ {r} : pc'[o] = pc[o]
  BY DEF Arrive, TypeInv, TypeOK, Steps
<1>8. UNCHANGED <<load, docs, lost>> /\ Dtos' = Dtos
  BY DEF Arrive, Dtos
<1>9. CallType' = CallType
  BY <1>8 DEF CallType
<1>10. TypeOK'
  BY <1>6, <1>7, <1>8, <1>9 DEF TypeInv, TypeOK, docs
<1>11. ASSUME NEW o \in Requests
       PROVE  (Asked(o) /\ (pc[o] \in Opening => call[o].kind = "ENTITY"))'
  BY <1>4, <1>6, <1>7, <1>9 DEF TypeInv, Asked, Working, Opening
<1> QED
  BY <1>10, <1>11 DEF TypeInv

LEMMA SignUpCreateTypes ==
  ASSUME TypeInv, NEW r \in Requests, SignUpCreate(r)
  PROVE  TypeInv'
<1>1. Working(r) /\ call[r].kind = "SIGNUP"
  BY DEF SignUpCreate, Serves, Working
<1>2. email(r) \in Emails /\ call[r].dto.type \in Types
  BY <1>1, CallFields DEF Mailers
<1>3. CASE Fail(r)
  BY <1>3, FailStep
<1>4. CASE ~Fail(r)
  <2>1. /\ users' = [users EXCEPT ![email(r)] = [NoUser EXCEPT !.type = call[r].dto.type]]
        /\ Goto(r, "token") /\ UNCHANGED <<tokens, carts, packages, documents, entities>>
    BY <1>4 DEF SignUpCreate
  <2>2. [NoUser EXCEPT !.type = call[r].dto.type] \in UserType
    BY <1>2, NoUserType DEF UserType
  <2>3. users' \in [Emails -> UserType]
    BY <2>1, <2>2 DEF TypeInv, TypeOK
  <2> QED
    BY <1>1, <2>1, <2>3, GotoStep DEF Steps, Opening, TypeInv, TypeOK
<1> QED
  BY <1>3, <1>4

LEMMA CreateTokenTypes ==
  ASSUME TypeInv, NEW r \in Requests, CreateToken(r)
  PROVE  TypeInv'
<1>1. Working(r) /\ call[r].kind \in Mailers
  BY DEF CreateToken, Serves, Working, Mailers
<1>2. email(r) \in Emails
  BY <1>1, CallFields
<1>3. tokens' \in [Codes -> TokenType]
  BY <1>2 DEF CreateToken, TypeInv, TypeOK, TokenType
<1> QED
  BY <1>3, AnswerStep DEF CreateToken, TypeInv, TypeOK

LEMMA TokenExpiresTypes ==
  ASSUME TypeInv, NEW c \in Codes, TokenExpires(c)
  PROVE  TypeInv'
<1>1. tokens' \in [Codes -> TokenType]
  BY DEF TokenExpires, TypeInv, TypeOK, TokenType
<1>2. UNCHANGED <<load, users, carts, packages, documents, entities, pc, call, lost>>
  BY DEF TokenExpires
<1>3. CallType' = CallType
  BY <1>2 DEF CallType, Dtos
<1> QED
  BY <1>1, <1>2, <1>3 DEF TypeInv, TypeOK, Asked, Working

LEMMA RemoveTokenTypes ==
  ASSUME TypeInv, NEW r \in Requests, RemoveToken(r)
  PROVE  TypeInv'
<1>1. Working(r) /\ call[r].kind \in Verifiers
  BY DEF RemoveToken, Serves, Working, Verifiers
<1>2. tokens' \in [Codes -> TokenType]
  BY DEF RemoveToken, TypeInv, TypeOK, TokenType
<1>3. CASE Answer(r)
  BY <1>2, <1>3, AnswerStep DEF RemoveToken, TypeInv, TypeOK
<1>4. CASE \E at \in {"save", "cart", "update"} : Goto(r, at)
  BY <1>1, <1>2, <1>4, GotoStep DEF RemoveToken, TypeInv, TypeOK, Steps, Opening
<1> QED
  BY <1>3, <1>4 DEF RemoveToken

LEMMA OneMore ==
  ASSUME NEW S, NEW f \in [S -> Nat], NEW x
  PROVE  [f EXCEPT ![x] = f[x] + 1] \in [S -> Nat]
<1>1. CASE x \in S
  <2>1. f[x] + 1 \in Nat
    BY <1>1
  <2> QED
    BY <2>1
<1>2. CASE x \notin S
  BY <1>2
<1> QED
  BY <1>1, <1>2

LEMMA CreateCartTypes ==
  ASSUME TypeInv, NEW r \in Requests, CreateCart(r)
  PROVE  TypeInv'
<1>1. Working(r) /\ call[r].kind \in Verifiers
  BY DEF CreateCart, Serves, Working, Verifiers
<1>2. carts' \in [Emails -> Nat]
  BY OneMore DEF CreateCart, TypeInv, TypeOK
<1> QED
  BY <1>1, <1>2, GotoStep DEF CreateCart, TypeInv, TypeOK, Steps, Opening

LEMMA VerifyUserTypes ==
  ASSUME TypeInv, NEW r \in Requests, VerifyUser(r)
  PROVE  TypeInv'
<1> DEFINE v == verifying(r)
           status1 == IF users[v].type = "BUSINESS" THEN "PENDING" ELSE users[v].status
<1>1. v \in Emails => [users[v] EXCEPT !.verified = TRUE, !.status = status1] \in UserType
  <2> SUFFICES ASSUME v \in Emails
               PROVE  [users[v] EXCEPT !.verified = TRUE, !.status = status1] \in UserType
    OBVIOUS
  <2>1. users[v] \in UserType
    BY DEF TypeInv, TypeOK
  <2>2. status1 \in Statuses
    BY <2>1 DEF UserType, Statuses
  <2> HIDE DEF v, status1
  <2> QED
    BY <2>1, <2>2 DEF UserType
<1>2. users' = [users EXCEPT ![v] = [users[v] EXCEPT !.verified = TRUE, !.status = status1]]
  BY DEF VerifyUser
<1> HIDE DEF v, status1
<1>3. users' \in [Emails -> UserType]
  BY <1>1, <1>2 DEF TypeInv, TypeOK
<1> QED
  BY <1>3, AnswerStep DEF VerifyUser, TypeInv, TypeOK

LEMMA CreatePackageTypes ==
  ASSUME TypeInv, NEW r \in Requests, CreatePackage(r)
  PROVE  TypeInv'
<1>1. Working(r)
  BY DEF CreatePackage, Serves, Working
<1>2. packages' \in [Emails -> Nat]
  BY OneMore DEF CreatePackage, TypeInv, TypeOK
<1> QED
  BY <1>1, <1>2, GotoStep DEF CreatePackage, TypeInv, TypeOK, Steps, Opening

LEMMA PackageUpdateOwnerTypes ==
  ASSUME TypeInv, NEW r \in Requests, PackageUpdateOwner(r)
  PROVE  TypeInv'
<1>1. email(r) \in Emails
  BY CallFields DEF PackageUpdateOwner, Serves, Working, Buyers
<1>2. [users[email(r)] EXCEPT !.status = "PAID"] \in UserType
  BY <1>1 DEF TypeInv, TypeOK, UserType, Statuses
<1>3. users' \in [Emails -> UserType]
  BY <1>1, <1>2 DEF PackageUpdateOwner, TypeInv, TypeOK
<1> QED
  BY <1>3, AnswerStep DEF PackageUpdateOwner, TypeInv, TypeOK

LEMMA CreateDocumentTypes ==
  ASSUME TypeInv, NEW r \in Requests, CreateDocument(r)
  PROVE  TypeInv'
<1>1. pc[r] \in DOMAIN After /\ DOMAIN After = {"warehouse", "customer", "guest"}
  BY DEF CreateDocument, After
<1>2. Working(r) /\ call[r].kind = "ENTITY"
  BY <1>1 DEF TypeInv, Working, Opening
<1>3. CASE Fail(r)
  BY <1>3, FailStep
<1>4. CASE ~Fail(r)
  <2>1. documents' \in [Emails -> SUBSET DOMAIN After]
    BY <1>1, <1>4 DEF CreateDocument, TypeInv, TypeOK
  <2>2. After[pc[r]] \in {"customer", "guest", "entity"}
    BY <1>1 DEF After
  <2> QED
    BY <1>2, <1>4, <2>1, <2>2, GotoStep DEF CreateDocument, TypeInv, TypeOK, Steps
<1> QED
  BY <1>3, <1>4

LEMMA CreateEntityTypes ==
  ASSUME TypeInv, NEW r \in Requests, CreateEntity(r)
  PROVE  TypeInv'
<1>1. Working(r) /\ call[r].kind = "ENTITY"
  BY DEF CreateEntity, Serves, Working
<1>2. email(r) \in Emails
  BY <1>1, CallFields DEF Buyers
<1>3. CASE Fail(r)
  BY <1>3, FailStep
<1>4. CASE ~Fail(r)
  <2>1. entities' \in [Names -> EntityType]
    BY <1>2, <1>4 DEF CreateEntity, TypeInv, TypeOK, EntityType
  <2> QED
    BY <1>1, <1>4, <2>1, GotoStep DEF CreateEntity, TypeInv, TypeOK, Steps
<1> QED
  BY <1>3, <1>4

LEMMA LinkGuestTypes ==
  ASSUME TypeInv, NEW r \in Requests, LinkGuest(r)
  PROVE  TypeInv'
<1>1. Working(r)
  BY DEF LinkGuest, Serves, Working
<1>2. entities' \in [Names -> EntityType]
  BY DEF LinkGuest, TypeInv, TypeOK, EntityType
<1> QED
  BY <1>1, <1>2, GotoStep DEF LinkGuest, TypeInv, TypeOK, Steps, Opening

LEMMA EntityUpdateOwnerTypes ==
  ASSUME TypeInv, NEW r \in Requests, EntityUpdateOwner(r)
  PROVE  TypeInv'
<1>1. email(r) \in Emails /\ name(r) \in Names
  BY CallFields DEF EntityUpdateOwner, Serves, Working, Buyers
<1>2. [users[email(r)] EXCEPT !.status = "COMPLETED", !.entity = name(r)] \in UserType
  <2> DEFINE user == users[email(r)]
  <2>1. user \in UserType
    BY <1>1 DEF TypeInv, TypeOK
  <2> HIDE DEF user
  <2>2. [user EXCEPT !.status = "COMPLETED", !.entity = name(r)] \in UserType
    BY <1>1, <2>1, Zenon DEF UserType, Statuses
  <2> QED
    BY <2>2 DEF user
<1>3. users' \in [Emails -> UserType]
  BY <1>1, <1>2 DEF EntityUpdateOwner, TypeInv, TypeOK
<1> QED
  BY <1>3, AnswerStep DEF EntityUpdateOwner, TypeInv, TypeOK

LEMMA ExitTypes ==
  ASSUME TypeInv, ProcessExit
  PROVE  TypeInv'
<1>1. UNCHANGED <<load, docs>> /\ lost' = TRUE /\ pc' = [r \in Requests |-> "idle"]
      /\ call' = [r \in Requests |-> NoCall]
  BY DEF ProcessExit
<1>2. Dtos' = Dtos
  BY <1>1 DEF Dtos
<1>3. CallType' = CallType
  BY <1>2 DEF CallType
<1>4. TypeOK'
  BY <1>1, <1>3 DEF TypeInv, TypeOK, docs, Steps
<1> QED
  BY <1>1, <1>4 DEF TypeInv, Asked, Working, Opening

\* The steps that only look something up.
LEMMA LookupTypes ==
  ASSUME TypeInv, NEW r \in Requests,
         \/ SignUpFind(r) \/ MailFind(r) \/ FindToken(r) \/ SavePassword(r)
         \/ PackageFind(r) \/ EntityFind(r)
  PROVE  TypeInv'
<1>1. CASE Fail(r)
  BY <1>1, FailStep
<1>2. CASE EntityFind(r) /\ ~Fail(r)
  BY <1>2, MoveStep DEF EntityFind, Serves, Working, Steps
<1>3. CASE ~EntityFind(r) /\ ~Fail(r)
  <2>1. Working(r)
    BY <1>3 DEF SignUpFind, MailFind, FindToken, SavePassword, PackageFind, Serves, Working
  <2>2. PICK at \in {"create", "token", "check"} : Move(r, at)
    BY <1>3 DEF SignUpFind, MailFind, FindToken, SavePassword, PackageFind
  <2> QED
    BY <2>1, <2>2, MoveStep DEF Steps, Opening
<1> QED
  BY <1>1, <1>2, <1>3

LEMMA TypeStep == TypeInv /\ [Next]_vars => TypeInv'
<1> SUFFICES ASSUME TypeInv, [Next]_vars PROVE TypeInv'
  OBVIOUS
<1>1. CASE UNCHANGED vars
  BY <1>1 DEF TypeInv, TypeOK, Asked, Working, CallType, Dtos, vars, docs
<1>2. CASE ProcessExit
  BY <1>2, ExitTypes
<1>3. ASSUME NEW c \in Codes, TokenExpires(c) PROVE TypeInv'
  BY <1>3, TokenExpiresTypes
<1>4. ASSUME NEW r \in Requests, Arrive(r) PROVE TypeInv'
  BY <1>4, ArriveTypes
<1>5. ASSUME NEW r \in Requests, Handler(r) PROVE TypeInv'
  BY <1>5, LookupTypes, SignUpCreateTypes, CreateTokenTypes, RemoveTokenTypes, CreateCartTypes,
     VerifyUserTypes, CreatePackageTypes, PackageUpdateOwnerTypes, CreateDocumentTypes,
     CreateEntityTypes, LinkGuestTypes, EntityUpdateOwnerTypes DEF Handler
<1> QED
  BY <1>1, <1>2, <1>3, <1>4, <1>5 DEF Next

\* The documents of users, codes and entities, and the requests at work, keep
\* their types.
THEOREM OnboardingTypes == Spec => []TypeOK
<1>1. TypeInv => TypeOK
  BY DEF TypeInv
<1> QED
  BY <1>1, TypeInit, TypeStep, PTL DEF Spec

LEMMA VerifyingType ==
  ASSUME TypeInv, NEW r \in Requests, Working(r), call[r].kind \in Verifiers
  PROVE  code(r) \in Codes /\ verifying(r) \in Emails \union {None}
BY CallFields DEF TypeInv, TypeOK, verifying, TokenType

-----------------------------------------------------------------------------
(* The inductive invariant *)

\* Codes are mailed to users who exist, and stay theirs.
KnownUsers ==
  /\ \A e \in Emails : ~Exists(e) => users[e] = NoUser
  /\ \A c \in Codes : /\ tokens[c].user # None => Exists(tokens[c].user)
                      /\ tokens[c].stored => tokens[c].user # None
  /\ \A n \in Names : entities[n].guest => entities[n].owner # None

DocsInv == KnownUsers /\ VerifiedHaveCarts /\ StatusHasDocuments

Linking(r) == pc[r] = "link" \/ (pc[r] = "owner" /\ call[r].kind = "ENTITY")

\* What a request has done, or has been told on arrival, by the time it stands
\* where it stands.
Backed(r) ==
  /\ pc[r] = "token" => call[r].kind \in Mailers /\ Exists(email(r))
  /\ pc[r] \in {"check", "cart", "update", "save"} =>
       call[r].kind \in Verifiers /\ verifying(r) # None
  /\ pc[r] = "update" => (users[verifying(r)].type = "CUSTOMER" => carts[verifying(r)] > 0)
  /\ Working(r) /\ call[r].kind \in Buyers =>
       /\ Exists(email(r))
       /\ me(r).status \in {"PAID", "COMPLETED"} \/ pc[r] \in Opening \union {"owner"} =>
            packages[email(r)] > 0
  /\ pc[r] = "customer" => "warehouse" \in documents[email(r)]
  /\ pc[r] = "guest" => {"warehouse", "customer"} \subseteq documents[email(r)]
  /\ pc[r] = "entity" \/ Linking(r) => documents[email(r)] = DOMAIN After
  /\ Linking(r) => entities[name(r)].owner = email(r)
  /\ Linking(r) /\ pc[r] = "owner" => entities[name(r)].guest

Inv ==
  /\ TypeInv
  /\ DocsInv
  /\ \A r \in Requests : Backed(r)

\* What no step takes away.
Grows ==
  /\ \A e \in Emails :
       /\ Exists(e) => users'[e].type = users[e].type
       /\ carts[e] > 0 => carts'[e] > 0
       /\ packages[e] > 0 => packages'[e] > 0
       /\ documents[e] \subseteq documents'[e]
  /\ \A c \in Codes : tokens[c].user # None => tokens'[c].user = tokens[c].user
  /\ \A n \in Names : /\ entities[n].owner # None => entities'[n].owner = entities[n].owner
                      /\ entities[n].guest => entities'[n].guest

LEMMA StillBacked ==
  ASSUME Inv, TypeInv', Grows, NEW q \in Requests, pc'[q] = pc[q], call'[q] = call[q]
  PROVE  Backed(q)'
<1>1. TypeInv /\ Backed(q)
  BY DEF Inv
<1>2. email(q)' = email(q) /\ code(q)' = code(q) /\ name(q)' = name(q) /\ me(q)' = me(q)
      /\ Working(q)' = Working(q) /\ Linking(q)' = Linking(q)
  BY DEF email, code, name, me, Working, Linking
<1>3. ASSUME pc[q] = "token" PROVE (call[q].kind \in Mailers /\ Exists(email(q)))'
  <2>1. call[q].kind \in Mailers /\ Exists(email(q)) /\ email(q) \in Emails
    BY <1>1, <1>3, CallFields DEF Backed, Working
  <2> QED
    BY <1>2, <2>1 DEF Grows, Exists
<1>4. ASSUME pc[q] \in {"check", "cart", "update", "save"}
      PROVE  /\ (call[q].kind \in Verifiers /\ verifying(q) # None)'
             /\ pc[q] = "update" =>
                  (users[verifying(q)].type = "CUSTOMER" => carts[verifying(q)] > 0)'
  <2>1. call[q].kind \in Verifiers /\ verifying(q) # None
    BY <1>1, <1>4 DEF Backed
  <2>2. code(q) \in Codes /\ verifying(q) \in Emails /\ Exists(verifying(q))
    BY <1>1, <1>4, <2>1, VerifyingType DEF Inv, DocsInv, KnownUsers, Working, verifying
  <2>3. verifying(q)' = verifying(q)
    BY <1>2, <2>1, <2>2 DEF Grows, verifying
  <2>4. users[verifying(q)]'.type = users[verifying(q)].type
        /\ (carts[verifying(q)] > 0 => carts'[verifying(q)] > 0)
    BY <2>2, <2>3 DEF Grows
  <2> QED
    BY <1>1, <2>1, <2>3, <2>4 DEF Backed
<1>5. ASSUME Working(q), call[q].kind \in Buyers
      PROVE  /\ Exists(email(q))'
             /\ (me(q).status \in {"PAID", "COMPLETED"} \/ pc[q] \in Opening \union {"owner"} =>
                   packages[email(q)] > 0)'
  <2>1. email(q) \in Emails /\ Exists(email(q))
    BY <1>1, <1>5, CallFields DEF Backed
  <2> QED
    BY <1>1, <1>2, <1>5, <2>1 DEF Backed, Grows, Exists
<1>6. ASSUME pc[q] \in Opening \/ Linking(q)
      PROVE  /\ (pc[q] = "customer" => "warehouse" \in documents[email(q)])'
             /\ (pc[q] = "guest" => {"warehouse", "customer"} \subseteq documents[email(q)])'
             /\ (pc[q] = "entity" \/ Linking(q) => documents[email(q)] = DOMAIN After)'
             /\ (Linking(q) => entities[name(q)].owner = email(q))'
             /\ (Linking(q) /\ pc[q] = "owner" => entities[name(q)].guest)'
  <2>1. Working(q) /\ call[q].kind = "ENTITY"
    BY <1>1, <1>6 DEF TypeInv, Opening, Linking, Working
  <2>2. email(q) \in Emails /\ name(q) \in Names /\ email(q) # None
    BY <1>1, <2>1, CallFields, NoneAssumption DEF Buyers
  <2>3. documents[email(q)] \subseteq documents'[email(q)]
        /\ documents'[email(q)] \subseteq DOMAIN After
    BY <2>2 DEF Grows, TypeInv, TypeOK
  <2>4. Linking(q) => /\ entities'[name(q)].owner = entities[name(q)].owner
                      /\ (entities[name(q)].guest => entities'[name(q)].guest)
    BY <1>1, <2>2 DEF Grows, Backed
  <2> QED
    BY <1>1, <1>2, <2>3, <2>4 DEF Backed
<1> QED
  BY <1>2, <1>3, <1>4, <1>5, <1>6 DEF Backed, Opening, Linking

\* Backed is about the request's own steps.
LEMMA OneStep ==
  ASSUME Inv, TypeInv', DocsInv', Grows, NEW r \in Requests, Backed(r)',
         \A q \in Requests \ {r} : pc'[q] = pc[q] /\ call'[q] = call[q]
  PROVE  Inv'
<1>1. ASSUME NEW q \in Requests PROVE Backed(q)'
  <2>1. CASE q = r
    BY <2>1
  <2>2. CASE q # r
    BY <2>2, StillBacked
  <2> QED
    BY <2>1, <2>2
<1> QED
  BY <1>1 DEF Inv

-----------------------------------------------------------------------------
(* Steps that change no document *)

LEMMA SameDocs ==
  ASSUME Inv, UNCHANGED docs
  PROVE  DocsInv' /\ Grows
<1>1. UNCHANGED <<users, tokens, carts, packages, documents, entities>>
  BY DEF docs
<1>2. Grows
  BY <1>1 DEF Grows
<1>3. KnownUsers' /\ VerifiedHaveCarts' /\ StatusHasDocuments'
  BY <1>1 DEF Inv, DocsInv, KnownUsers, Exists, VerifiedHaveCarts, StatusHasDocuments, Owned
<1> QED
  BY <1>2, <1>3 DEF DocsInv

LEMMA IdleIsBacked ==
  ASSUME NEW r, pc'[r] = "idle"
  PROVE  Backed(r)'
BY DEF Backed, Working, Linking, Opening

LEMMA GotoFrame ==
  ASSUME TypeInv, NEW r \in Requests, NEW at, Goto(r, at)
  PROVE  /\ pc'[r] = at /\ call' = call
         /\ \A q \in Requests \ {r} : pc'[q] = pc[q] /\ call'[q] = call[q]
         /\ email(r)' = email(r) /\ code(r)' = code(r) /\ name(r)' = name(r) /\ me(r)' = me(r)
BY DEF Goto, TypeInv, TypeOK, email, code, name, me

LEMMA AnswerFrame ==
  ASSUME TypeInv, NEW r \in Requests, Answer(r)
  PROVE  /\ pc'[r] = "idle"
         /\ \A q \in Requests \ {r} : pc'[q] = pc[q] /\ call'[q] = call[q]
BY DEF Answer, TypeInv, TypeOK

LEMMA FailInv ==
  ASSUME Inv, NEW r \in Requests, Fail(r)
  PROVE  Inv'
<1>1. TypeInv' /\ DocsInv' /\ Grows
  BY FailStep, SameDocs DEF Inv, Fail
<1> QED
  BY <1>1, AnswerFrame, IdleIsBacked, OneStep DEF Fail, Inv

\* Going on to a step that Backed asks nothing new of.
LEMMA MoveInv ==
  ASSUME Inv, TypeInv', NEW r \in Requests, Working(r), NEW at \in Steps \ {"idle"}, Move(r, at),
         (at = "token" => call[r].kind \in Mailers /\ Exists(email(r))),
         (at \in {"check", "save"} => call[r].kind \in Verifiers /\ verifying(r) # None),
         at \notin {"cart", "update", "customer", "guest", "entity", "link"},
         (call[r].kind \in Buyers /\ at \in Opening \union {"owner"} => packages[email(r)] > 0),
         (at = "owner" => call[r].kind # "ENTITY")
  PROVE  Inv'
<1>1. DocsInv' /\ Grows /\ UNCHANGED docs
  BY SameDocs DEF Move
<1>2. /\ pc'[r] = at /\ call' = call
      /\ \A q \in Requests \ {r} : pc'[q] = pc[q] /\ call'[q] = call[q]
      /\ email(r)' = email(r) /\ code(r)' = code(r) /\ name(r)' = name(r) /\ me(r)' = me(r)
  BY GotoFrame DEF Move, Inv
<1>3. Backed(r)
  BY DEF Inv
<1>4. Backed(r)'
  BY <1>1, <1>2, <1>3 DEF Backed, Working, Linking, docs, Exists, verifying, Opening
<1> QED
  BY <1>1, <1>2, <1>4, OneStep

LEMMA LookupInv ==
  ASSUME Inv, TypeInv', NEW r \in Requests,
         \/ SignUpFind(r) \/ MailFind(r) \/ FindToken(r) \/ SavePassword(r)
         \/ PackageFind(r) \/ EntityFind(r)
  PROVE  Inv'
<1>1. CASE Fail(r)
  BY <1>1, FailInv
<1> SUFFICES ASSUME ~Fail(r) PROVE Inv'
  BY <1>1
<1>2. CASE SignUpFind(r)
  BY <1>2, MoveInv DEF SignUpFind, Serves, Working, Steps, Opening
<1>3. CASE MailFind(r)
  <2>1. Working(r) /\ call[r].kind \in Mailers /\ Exists(email(r)) /\ Move(r, "token")
    BY <1>3 DEF MailFind, Serves, Working, Mailers
  <2> QED
    BY <2>1, MoveInv DEF Steps, Opening
<1>4. CASE FindToken(r)
  <2>1. Working(r) /\ call[r].kind \in Verifiers /\ tokens[code(r)].stored /\ Move(r, "check")
    BY <1>4 DEF FindToken, Serves, Working, Verifiers
  <2>2. verifying(r) # None
    BY <2>1, CallFields DEF Inv, DocsInv, KnownUsers, verifying
  <2> QED
    BY <2>1, <2>2, MoveInv DEF Steps, Opening
<1>5. CASE SavePassword(r)
  BY <1>5 DEF SavePassword
<1>6. CASE PackageFind(r)
  BY <1>6, MoveInv DEF PackageFind, Serves, Working, Steps, Opening
<1>7. CASE EntityFind(r)
  <2>1. Working(r) /\ call[r].kind = "ENTITY" /\ me(r).status = "PAID" /\ Move(r, "warehouse")
    BY <1>7 DEF EntityFind, Serves, Working
  <2>2. packages[email(r)] > 0
    BY <2>1 DEF Inv, Backed, Buyers
  <2> QED
    BY <2>1, <2>2, MoveInv DEF Steps, Opening
<1> QED
  BY <1>2, <1>3, <1>4, <1>5, <1>6, <1>7

LEMMA ArriveInv ==
  ASSUME Inv, TypeInv', NEW r \in Requests, Arrive(r)
  PROVE  Inv'
<1>1. DocsInv' /\ Grows /\ UNCHANGED docs
  BY SameDocs DEF Arrive
<1>2. PICK dto \in Dtos :
        /\ dto.kind \in {"PACKAGE", "ENTITY"} => users[dto.email].type = "BUSINESS"
        /\ call' = [call EXCEPT ![r] =
          [kind |-> dto.kind, dto |-> dto,
           user |-> IF dto.kind \in {"PACKAGE", "ENTITY"} THEN users[dto.email] ELSE NoUser]]
  BY DEF Arrive
<1>3. pc'[r] = "find" /\ \A q \in Requests \ {r} : pc'[q] = pc[q] /\ call'[q] = call[q]
  BY <1>2 DEF Arrive, Inv, TypeInv, TypeOK
<1>4. /\ call[r]'.kind = dto.kind /\ email(r)' = dto.email
      /\ dto.kind \in Buyers => me(r)' = users[dto.email] /\ dto.email \in Emails
  BY <1>2, DtoFields DEF Inv, TypeInv, TypeOK, email, me, Buyers
<1>5. dto.kind \in Buyers => Exists(dto.email)
  BY <1>2 DEF Buyers, Exists
<1>6. Backed(r)'
  BY <1>1, <1>3, <1>4, <1>5
  DEF Backed, Working, Linking, Opening, Exists, Inv, DocsInv, StatusHasDocuments, docs
<1> QED
  BY <1>1, <1>3, <1>6, OneStep

LEMMA ExitInv ==
  ASSUME Inv, TypeInv', ProcessExit
  PROVE  Inv'
<1>1. DocsInv'
  BY SameDocs DEF ProcessExit
<1>2. ASSUME NEW q \in Requests PROVE Backed(q)'
  BY IdleIsBacked DEF ProcessExit
<1> QED
  BY <1>1, <1>2 DEF Inv

-----------------------------------------------------------------------------
(* Steps that change documents *)

LEMMA SignUpCreateInv ==
  ASSUME Inv, TypeInv', NEW r \in Requests, SignUpCreate(r)
  PROVE  Inv'
<1>1. CASE Fail(r)
  BY <1>1, FailInv
<1> SUFFICES ASSUME ~Fail(r) PROVE Inv'
  BY <1>1
<1>2. /\ Working(r) /\ call[r].kind = "SIGNUP" /\ ~Exists(email(r))
      /\ users' = [users EXCEPT ![email(r)] = [NoUser EXCEPT !.type = call[r].dto.type]]
      /\ Goto(r, "token") /\ UNCHANGED <<tokens, carts, packages, documents, entities>>
  BY DEF SignUpCreate, Serves, Working
<1>3. email(r) \in Emails /\ call[r].dto.type \in Types
  BY <1>2, CallFields DEF Inv, Mailers
<1>4. /\ users'[email(r)] = [NoUser EXCEPT !.type = call[r].dto.type]
      /\ \A e \in Emails \ {email(r)} : users'[e] = users[e]
  BY <1>2, <1>3 DEF Inv, TypeInv, TypeOK
<1>5. /\ users'[email(r)].type \in Types /\ users'[email(r)].verified = FALSE
      /\ users'[email(r)].status = "INITIAL"
  BY <1>4, <1>3 DEF NoUser
<1>6. Grows
  BY <1>2, <1>4 DEF Grows
<1>7. DocsInv'
  <2>1. Exists(email(r))'
    BY <1>5, <1>2, <1>3, GotoFrame DEF Inv, Exists, Types
  <2>2. \A e \in Emails : Exists(e) => Exists(e)'
    BY <1>4, <2>1, <1>2, GotoFrame DEF Inv, Exists
  <2>3. KnownUsers'
    <3>1. \A e \in Emails : ~Exists(e)' => users'[e] = NoUser
      BY <1>2, <1>4, <2>1, GotoFrame DEF Inv, DocsInv, KnownUsers, Exists
    <3>2. \A c \in Codes : tokens[c].user # None => tokens[c].user \in Emails
      BY DEF Inv, TypeInv, TypeOK, TokenType
    <3>3. \A c \in Codes : tokens'[c].user # None => Exists(tokens[c].user)'
      BY <1>2, <2>2, <3>2 DEF Inv, DocsInv, KnownUsers, Exists
    <3> QED
      BY <1>2, <3>1, <3>3 DEF Inv, DocsInv, KnownUsers, Exists
  <2>4. VerifiedHaveCarts'
    BY <1>2, <1>4, <1>5 DEF Inv, DocsInv, VerifiedHaveCarts
  <2>5. StatusHasDocuments'
    BY <1>2, <1>4, <1>5 DEF Inv, DocsInv, StatusHasDocuments, Owned
  <2> QED
    BY <2>3, <2>4, <2>5 DEF DocsInv
<1>8. pc'[r] = "token" /\ call' = call /\ email(r)' = email(r)
      /\ \A q \in Requests \ {r} : pc'[q] = pc[q] /\ call'[q] = call[q]
  BY <1>2, GotoFrame DEF Inv
<1>9. Backed(r)'
  BY <1>2, <1>3, <1>5, <1>8
  DEF Backed, Working, Linking, Opening, Mailers, Buyers, Exists, Types
<1> QED
  BY <1>6, <1>7, <1>8, <1>9, OneStep

LEMMA CreateTokenInv ==
  ASSUME Inv, TypeInv', NEW r \in Requests, CreateToken(r)
  PROVE  Inv'
<1>1. PICK c \in Codes :
        /\ tokens[c].user = None
        /\ tokens' = [tokens EXCEPT ![c] = [user |-> email(r), stored |-> TRUE, valid |-> TRUE]]
  BY DEF CreateToken
<1>2. Answer(r) /\ UNCHANGED <<users, carts, packages, documents, entities>>
  BY DEF CreateToken
<1>3. Working(r) /\ Exists(email(r)) /\ email(r) \in Emails /\ email(r) # None
  <2>1. Working(r) /\ call[r].kind \in Mailers /\ pc[r] = "token"
    BY DEF CreateToken, Serves, Working, Mailers
  <2> QED
    BY <2>1, CallFields, NoneAssumption DEF Inv, Backed
<1>4. /\ tokens'[c] = [user |-> email(r), stored |-> TRUE, valid |-> TRUE]
      /\ \A d \in Codes \ {c} : tokens'[d] = tokens[d]
  BY <1>1 DEF Inv, TypeInv, TypeOK
<1>5. Grows
  BY <1>1, <1>2, <1>4 DEF Grows
<1>6. DocsInv'
  <2>1. KnownUsers'
    BY <1>2, <1>3, <1>4 DEF Inv, DocsInv, KnownUsers, Exists
  <2>2. VerifiedHaveCarts' /\ StatusHasDocuments'
    BY <1>2 DEF Inv, DocsInv, VerifiedHaveCarts, StatusHasDocuments, Owned
  <2> QED
    BY <2>1, <2>2 DEF DocsInv
<1> QED
  BY <1>2, <1>5, <1>6, AnswerFrame, IdleIsBacked, OneStep DEF Inv

\* Removing or expiring a token leaves it whose it is.
LEMMA TokenKept ==
  ASSUME Inv, NEW c \in Codes, UNCHANGED <<users, carts, packages, documents, entities>>,
         \/ tokens' = [tokens EXCEPT ![c].stored = FALSE]
         \/ tokens' = [tokens EXCEPT ![c].valid = FALSE]
  PROVE  DocsInv' /\ Grows /\ \A d \in Codes : tokens'[d].user = tokens[d].user
<1>1. \A d \in Codes : /\ tokens'[d].user = tokens[d].user
                       /\ tokens'[d].stored => tokens[d].stored
  BY DEF Inv, TypeInv, TypeOK, TokenType
<1>2. KnownUsers'
  BY <1>1 DEF Inv, DocsInv, KnownUsers, Exists
<1>3. VerifiedHaveCarts' /\ StatusHasDocuments'
  BY DEF Inv, DocsInv, VerifiedHaveCarts, StatusHasDocuments, Owned
<1>4. Grows
  BY <1>1 DEF Grows
<1> QED
  BY <1>1, <1>2, <1>3, <1>4 DEF DocsInv

LEMMA TokenExpiresInv ==
  ASSUME Inv, TypeInv', NEW c \in Codes, TokenExpires(c)
  PROVE  Inv'
<1>1. DocsInv' /\ Grows
  BY TokenKept DEF TokenExpires
<1>2. \A q \in Requests : pc'[q] = pc[q] /\ call'[q] = call[q]
  BY DEF TokenExpires
<1> QED
  BY <1>1, <1>2, StillBacked DEF Inv

LEMMA RemoveTokenInv ==
  ASSUME Inv, TypeInv', NEW r \in Requests, RemoveToken(r)
  PROVE  Inv'
<1>1. Working(r) /\ call[r].kind \in Verifiers /\ pc[r] = "check"
  BY DEF RemoveToken, Serves, Working, Verifiers
<1>2. code(r) \in Codes /\ verifying(r) # None
  BY <1>1, CallFields DEF Inv, Backed
<1>3. DocsInv' /\ Grows /\ tokens'[code(r)].user = tokens[code(r)].user
      /\ UNCHANGED <<users, carts, packages, documents, entities>>
  BY <1>2, TokenKept DEF RemoveToken
<1>4. CASE Answer(r)
  BY <1>3, <1>4, AnswerFrame, IdleIsBacked, OneStep DEF Inv
<1>5. CASE ~Answer(r)
  <2> DEFINE at == IF call[r].kind = "RESET" THEN "save"
                   ELSE IF users[verifying(r)].type = "CUSTOMER" THEN "cart" ELSE "update"
  <2>1. Goto(r, at)
    BY <1>5 DEF RemoveToken
  <2>2. at \in {"save", "cart", "update"}
        /\ (at = "update" => users[verifying(r)].type # "CUSTOMER")
    OBVIOUS
  <2> HIDE DEF at
  <2>3. pc'[r] = at /\ call' = call /\ code(r)' = code(r)
        /\ \A q \in Requests \ {r} : pc'[q] = pc[q] /\ call'[q] = call[q]
    BY <2>1, GotoFrame DEF Inv
  <2>4. verifying(r)' = verifying(r)
    BY <1>3, <2>3 DEF verifying
  <2>5. Backed(r)'
    BY <1>1, <1>2, <1>3, <2>2, <2>3, <2>4
    DEF Backed, Working, Linking, Opening, Verifiers, Buyers
  <2> QED
    BY <1>3, <2>3, <2>5, OneStep
<1> QED
  BY <1>4, <1>5

LEMMA VerifyingKnown ==
  ASSUME Inv, NEW r \in Requests, pc[r] \in {"cart", "update"}
  PROVE  /\ Working(r) /\ call[r].kind \in Verifiers /\ code(r) \in Codes
         /\ verifying(r) \in Emails /\ Exists(verifying(r))
<1>1. Working(r) /\ call[r].kind \in Verifiers /\ verifying(r) # None
  BY DEF Inv, Backed, Working
<1> QED
  BY <1>1, VerifyingType DEF Inv, DocsInv, KnownUsers, verifying

LEMMA CreateCartInv ==
  ASSUME Inv, TypeInv', NEW r \in Requests, CreateCart(r)
  PROVE  Inv'
<1> DEFINE v == verifying(r)
<1>1. /\ pc[r] = "cart" /\ Goto(r, "update")
      /\ carts' = [carts EXCEPT ![v] = carts[v] + 1]
      /\ UNCHANGED <<users, tokens, packages, documents, entities>>
  BY DEF CreateCart, Serves
<1>2. Working(r) /\ call[r].kind \in Verifiers /\ code(r) \in Codes /\ v \in Emails
  BY <1>1, VerifyingKnown
<1> HIDE DEF v
<1>3. carts'[v] > 0 /\ \A e \in Emails \ {v} : carts'[e] = carts[e]
  BY <1>1, <1>2 DEF Inv, TypeInv, TypeOK
<1>4. Grows
  BY <1>1, <1>3 DEF Grows
<1>5. DocsInv'
  <2>1. KnownUsers' /\ StatusHasDocuments'
    BY <1>1 DEF Inv, DocsInv, KnownUsers, Exists, StatusHasDocuments, Owned
  <2>2. VerifiedHaveCarts'
    BY <1>1, <1>3 DEF Inv, DocsInv, VerifiedHaveCarts
  <2> QED
    BY <2>1, <2>2 DEF DocsInv
<1>6. pc'[r] = "update" /\ call' = call /\ code(r)' = code(r)
      /\ \A q \in Requests \ {r} : pc'[q] = pc[q] /\ call'[q] = call[q]
  BY <1>1, GotoFrame DEF Inv
<1>7. verifying(r)' = v /\ v # None
  BY <1>1, <1>2, <1>6, NoneAssumption DEF verifying, v
<1>8. Backed(r)'
  BY <1>2, <1>3, <1>6, <1>7 DEF Backed, Working, Linking, Opening, Verifiers, Buyers
<1> QED
  BY <1>4, <1>5, <1>6, <1>8, OneStep

\* A step that writes one user and answers.
LEMMA UserStep ==
  ASSUME Inv, TypeInv', NEW r \in Requests, Answer(r), NEW u \in Emails, Exists(u),
         UNCHANGED <<tokens, carts, packages, documents, entities>>,
         \A e \in Emails \ {u} : users'[e] = users[e],
         users'[u].type = users[u].type,
         users'[u].type = "CUSTOMER" /\ users'[u].verified => carts[u] > 0,
         users'[u].status \in {"PAID", "COMPLETED"} => packages[u] > 0,
         users'[u].status = "COMPLETED" =>
           users'[u].entity \in Owned(u) /\ entities[users'[u].entity].guest
  PROVE  Inv'
<1>1. Grows
  BY DEF Grows
<1>2. KnownUsers'
  <2>1. \A e \in Emails : Exists(e)' <=> Exists(e)
    BY DEF Exists
  <2>2. \A c \in Codes : tokens[c].user # None => tokens[c].user \in Emails
    BY DEF Inv, TypeInv, TypeOK, TokenType
  <2>3. \A e \in Emails : ~Exists(e)' => users'[e] = NoUser
    BY <2>1 DEF Inv, DocsInv, KnownUsers
  <2>4. \A c \in Codes : tokens'[c].user # None => Exists(tokens[c].user)'
    BY <2>1, <2>2 DEF Inv, DocsInv, KnownUsers
  <2> QED
    BY <2>3, <2>4 DEF Inv, DocsInv, KnownUsers, Exists
<1>3. VerifiedHaveCarts'
  BY DEF Inv, DocsInv, VerifiedHaveCarts
<1>4. StatusHasDocuments'
  BY DEF Inv, DocsInv, StatusHasDocuments, Owned
<1>5. pc'[r] = "idle" /\ \A q \in Requests \ {r} : pc'[q] = pc[q] /\ call'[q] = call[q]
  BY AnswerFrame DEF Inv
<1> QED
  BY <1>1, <1>2, <1>3, <1>4, <1>5, IdleIsBacked, OneStep DEF DocsInv

LEMMA VerifyUserInv ==
  ASSUME Inv, TypeInv', NEW r \in Requests, VerifyUser(r)
  PROVE  Inv'
<1> DEFINE v == verifying(r)
           status1 == IF users[v].type = "BUSINESS" THEN "PENDING" ELSE users[v].status
<1>1. /\ pc[r] = "update" /\ Answer(r)
      /\ users' = [users EXCEPT ![v] = [users[v] EXCEPT !.verified = TRUE, !.status = status1]]
      /\ UNCHANGED <<tokens, carts, packages, documents, entities>>
  BY DEF VerifyUser, Serves
<1>2. v \in Emails /\ Exists(v) /\ (users[v].type = "CUSTOMER" => carts[v] > 0)
  BY <1>1, VerifyingKnown DEF Inv, Backed
<1>3. status1 \in {"PAID", "COMPLETED"} => status1 = users[v].status
  OBVIOUS
<1>4. users[v] \in UserType
  BY <1>2 DEF Inv, TypeInv, TypeOK
<1> HIDE DEF v, status1
<1>5. /\ users'[v] = [users[v] EXCEPT !.verified = TRUE, !.status = status1]
      /\ \A e \in Emails \ {v} : users'[e] = users[e]
  BY <1>1, <1>2 DEF Inv, TypeInv, TypeOK
<1>6. /\ users'[v].type = users[v].type /\ users'[v].entity = users[v].entity
      /\ users'[v].status = status1
  BY <1>4, <1>5 DEF UserType
<1>7. /\ users[v].status \in {"PAID", "COMPLETED"} => packages[v] > 0
      /\ users[v].status = "COMPLETED" =>
           users[v].entity \in Owned(v) /\ entities[users[v].entity].guest
  BY <1>2 DEF Inv, DocsInv, StatusHasDocuments
<1> QED
  BY <1>1, <1>2, <1>3, <1>5, <1>6, <1>7, UserStep

LEMMA BuyerKnown ==
  ASSUME Inv, NEW r \in Requests, Working(r), call[r].kind \in Buyers
  PROVE  email(r) \in Emails /\ email(r) # None /\ Exists(email(r))
BY CallFields, NoneAssumption DEF Inv, Backed

LEMMA CreatePackageInv ==
  ASSUME Inv, TypeInv', NEW r \in Requests, CreatePackage(r)
  PROVE  Inv'
<1>1. /\ Working(r) /\ call[r].kind = "PACKAGE" /\ pc[r] = "create" /\ Goto(r, "owner")
      /\ packages' = [packages EXCEPT ![email(r)] = packages[email(r)] + 1]
      /\ UNCHANGED <<users, tokens, carts, documents, entities>>
  BY DEF CreatePackage, Serves, Working
<1>2. email(r) \in Emails /\ Exists(email(r))
  BY <1>1, BuyerKnown DEF Buyers
<1>3. packages'[email(r)] > 0 /\ \A e \in Emails \ {email(r)} : packages'[e] = packages[e]
  BY <1>1, <1>2 DEF Inv, TypeInv, TypeOK
<1>4. Grows
  BY <1>1, <1>3 DEF Grows
<1>5. DocsInv'
  <2>1. KnownUsers' /\ VerifiedHaveCarts'
    BY <1>1 DEF Inv, DocsInv, KnownUsers, Exists, VerifiedHaveCarts
  <2>2. StatusHasDocuments'
    BY <1>1, <1>3 DEF Inv, DocsInv, StatusHasDocuments, Owned
  <2> QED
    BY <2>1, <2>2 DEF DocsInv
<1>6. pc'[r] = "owner" /\ call' = call /\ email(r)' = email(r)
      /\ \A q \in Requests \ {r} : pc'[q] = pc[q] /\ call'[q] = call[q]
  BY <1>1, GotoFrame DEF Inv
<1>7. Backed(r)'
  BY <1>1, <1>2, <1>3, <1>6 DEF Backed, Working, Linking, Opening, Buyers, Exists
<1> QED
  BY <1>4, <1>5, <1>6, <1>7, OneStep

LEMMA PackageUpdateOwnerInv ==
  ASSUME Inv, TypeInv', NEW r \in Requests, PackageUpdateOwner(r)
  PROVE  Inv'
<1>1. /\ Working(r) /\ call[r].kind = "PACKAGE" /\ pc[r] = "owner" /\ Answer(r)
      /\ users' = [users EXCEPT ![email(r)].status = "PAID"]
      /\ UNCHANGED <<tokens, carts, packages, documents, entities>>
  BY DEF PackageUpdateOwner, Serves, Working
<1>2. email(r) \in Emails /\ Exists(email(r)) /\ packages[email(r)] > 0
  BY <1>1, BuyerKnown DEF Buyers, Inv, Backed
<1>3. /\ users'[email(r)] = [users[email(r)] EXCEPT !.status = "PAID"]
      /\ \A e \in Emails \ {email(r)} : users'[e] = users[e]
  BY <1>1, <1>2 DEF Inv, TypeInv, TypeOK
<1>4. users[email(r)] \in UserType
  BY <1>2 DEF Inv, TypeInv, TypeOK
<1>5. /\ users'[email(r)].type = users[email(r)].type /\ users'[email(r)].status = "PAID"
      /\ users'[email(r)].verified = users[email(r)].verified
  BY <1>3, <1>4 DEF UserType
<1> QED
  BY <1>1, <1>2, <1>3, <1>5, UserStep DEF Inv, DocsInv, VerifiedHaveCarts

LEMMA OpeningKnown ==
  ASSUME Inv, NEW r \in Requests, pc[r] \in Opening \/ Linking(r)
  PROVE  /\ Working(r) /\ call[r].kind = "ENTITY"
         /\ email(r) \in Emails /\ email(r) # None /\ Exists(email(r)) /\ name(r) \in Names
         /\ packages[email(r)] > 0
<1>1. Working(r) /\ call[r].kind = "ENTITY"
  BY DEF Inv, TypeInv, Opening, Linking, Working
<1> QED
  BY <1>1, BuyerKnown, CallFields DEF Inv, Backed, Buyers, Opening, Linking

LEMMA CreateDocumentInv ==
  ASSUME Inv, TypeInv', NEW r \in Requests, CreateDocument(r)
  PROVE  Inv'
<1>1. CASE Fail(r)
  BY <1>1, FailInv
<1> SUFFICES ASSUME ~Fail(r) PROVE Inv'
  BY <1>1
<1>2. DOMAIN After = {"warehouse", "customer", "guest"}
  BY DEF After
<1>3. /\ pc[r] \in {"warehouse", "customer", "guest"} /\ Goto(r, After[pc[r]])
      /\ documents' = [documents EXCEPT ![email(r)] = documents[email(r)] \union {pc[r]}]
      /\ UNCHANGED <<users, tokens, carts, packages, entities>>
  BY <1>2 DEF CreateDocument
<1>4. /\ Working(r) /\ call[r].kind = "ENTITY" /\ email(r) \in Emails /\ Exists(email(r))
      /\ packages[email(r)] > 0
  BY <1>3, OpeningKnown DEF Opening
<1>5. /\ documents'[email(r)] = documents[email(r)] \union {pc[r]}
      /\ \A e \in Emails \ {email(r)} : documents'[e] = documents[e]
  BY <1>3, <1>4 DEF Inv, TypeInv, TypeOK
<1>6. \A e \in Emails : documents[e] \subseteq documents'[e] /\ documents'[e] \subseteq DOMAIN After
  BY <1>2, <1>3, <1>5 DEF Inv, TypeInv, TypeOK
<1>7. Grows
  BY <1>3, <1>6 DEF Grows
<1>8. DocsInv'
  <2>1. KnownUsers' /\ VerifiedHaveCarts'
    BY <1>3 DEF Inv, DocsInv, KnownUsers, Exists, VerifiedHaveCarts
  <2>2. StatusHasDocuments'
    BY <1>3, <1>6 DEF Inv, DocsInv, StatusHasDocuments, Owned
  <2> QED
    BY <2>1, <2>2 DEF DocsInv
<1>9. pc'[r] = After[pc[r]] /\ call' = call /\ email(r)' = email(r)
      /\ \A q \in Requests \ {r} : pc'[q] = pc[q] /\ call'[q] = call[q]
  BY <1>3, GotoFrame DEF Inv
<1>10. /\ pc[r] = "warehouse" => pc'[r] = "customer" /\ "warehouse" \in documents'[email(r)]
       /\ pc[r] = "customer" =>
            pc'[r] = "guest" /\ {"warehouse", "customer"} \subseteq documents'[email(r)]
       /\ pc[r] = "guest" => pc'[r] = "entity" /\ documents'[email(r)] = DOMAIN After
  <2>1. /\ pc[r] = "customer" => "warehouse" \in documents[email(r)]
        /\ pc[r] = "guest" => {"warehouse", "customer"} \subseteq documents[email(r)]
    BY DEF Inv, Backed
  <2>2. /\ pc[r] = "warehouse" => pc'[r] = "customer"
        /\ pc[r] = "customer" => pc'[r] = "guest"
        /\ pc[r] = "guest" => pc'[r] = "entity"
    BY <1>9 DEF After
  <2> QED
    BY <1>2, <1>4, <1>5, <1>6, <2>1, <2>2
<1>11. Backed(r)'
  BY <1>3, <1>4, <1>9, <1>10 DEF Backed, Working, Linking, Opening, Buyers, Exists
<1> QED
  BY <1>7, <1>8, <1>9, <1>11, OneStep

\* A step of createEntities on its entity, owned by none or by the caller.
LEMMA EntityStep ==
  ASSUME Inv, TypeInv', NEW r \in Requests, Working(r), call[r].kind = "ENTITY",
         NEW at \in {"link", "owner"}, Goto(r, at),
         UNCHANGED <<users, tokens, carts, packages, documents>>,
         documents[email(r)] = DOMAIN After, packages[email(r)] > 0,
         entities[name(r)].owner \in {None, email(r)},
         entities'[name(r)].owner = email(r),
         entities[name(r)].guest => entities'[name(r)].guest,
         at = "owner" => entities'[name(r)].guest,
         \A n \in Names \ {name(r)} : entities'[n] = entities[n]
  PROVE  Inv'
<1>1. email(r) \in Emails /\ email(r) # None /\ Exists(email(r)) /\ name(r) \in Names
  BY BuyerKnown, CallFields DEF Inv, Buyers
<1>2. Grows
  BY <1>1 DEF Grows
<1>3. /\ \A n \in Names : entities'[n].owner \in {entities[n].owner, email(r)}
      /\ \A e \in Emails : Owned(e) \subseteq Owned(e)'
      /\ \A e \in Emails \ {email(r)} : Owned(e)' = Owned(e)
      /\ \A n \in Names : entities[n].guest => entities'[n].guest
  <2>1. \A n \in Names : entities[n].owner \in {None, email(r)} \/ n # name(r)
    OBVIOUS
  <2>2. \A e \in Emails : e # None
    BY NoneAssumption
  <2> QED
    BY <1>1, <2>1, <2>2 DEF Owned
<1>4. KnownUsers'
  BY <1>1 DEF Inv, DocsInv, KnownUsers, Exists
<1>5. VerifiedHaveCarts'
  BY DEF Inv, DocsInv, VerifiedHaveCarts
<1>6. StatusHasDocuments'
  <2> SUFFICES ASSUME NEW e \in Emails
               PROVE  /\ (users[e].status \in {"PAID", "COMPLETED"} \/ Owned(e) # {} => packages[e] > 0)'
                      /\ (Owned(e) # {} => documents[e] = DOMAIN After)'
                      /\ (users[e].status = "COMPLETED" =>
                            users[e].entity \in Owned(e) /\ entities[users[e].entity].guest)'
    BY DEF StatusHasDocuments
  <2>1. /\ users[e].status \in {"PAID", "COMPLETED"} \/ Owned(e) # {} => packages[e] > 0
        /\ Owned(e) # {} => documents[e] = DOMAIN After
        /\ users[e].status = "COMPLETED" =>
             users[e].entity \in Owned(e) /\ entities[users[e].entity].guest
    BY DEF Inv, DocsInv, StatusHasDocuments
  <2>2. users[e].entity \in Owned(e) => users[e].entity \in Names
    BY DEF Owned
  <2>3. CASE e = email(r)
    BY <1>3, <2>1, <2>2, <2>3
  <2>4. CASE e # email(r)
    BY <1>3, <2>1, <2>2, <2>4
  <2> QED
    BY <2>3, <2>4
<1>7. /\ pc'[r] = at /\ call' = call /\ email(r)' = email(r) /\ name(r)' = name(r)
      /\ \A q \in Requests \ {r} : pc'[q] = pc[q] /\ call'[q] = call[q]
  BY GotoFrame DEF Inv
<1>8. Backed(r)'
  BY <1>1, <1>7 DEF Backed, Working, Linking, Opening, Buyers, Exists
<1> QED
  BY <1>2, <1>4, <1>5, <1>6, <1>7, <1>8, OneStep DEF DocsInv

LEMMA CreateEntityInv ==
  ASSUME Inv, TypeInv', NEW r \in Requests, CreateEntity(r)
  PROVE  Inv'
<1>1. CASE Fail(r)
  BY <1>1, FailInv
<1>2. CASE ~Fail(r)
  <2>1. /\ pc[r] = "entity" /\ Goto(r, "link") /\ entities[name(r)].owner = None
        /\ entities' = [entities EXCEPT ![name(r)].owner = email(r)]
        /\ UNCHANGED <<users, tokens, carts, packages, documents>>
    BY <1>2 DEF CreateEntity, Serves
  <2>2. /\ Working(r) /\ call[r].kind = "ENTITY" /\ name(r) \in Names /\ packages[email(r)] > 0
        /\ documents[email(r)] = DOMAIN After
    BY <2>1, OpeningKnown DEF Opening, Inv, Backed
  <2>3. /\ entities'[name(r)].owner = email(r)
        /\ entities'[name(r)].guest = entities[name(r)].guest
        /\ \A n \in Names \ {name(r)} : entities'[n] = entities[n]
    BY <2>1, <2>2 DEF Inv, TypeInv, TypeOK, EntityType
  <2> QED
    BY <2>1, <2>2, <2>3, EntityStep
<1> QED
  BY <1>1, <1>2

LEMMA LinkGuestInv ==
  ASSUME Inv, TypeInv', NEW r \in Requests, LinkGuest(r)
  PROVE  Inv'
<1>1. /\ pc[r] = "link" /\ Goto(r, "owner")
      /\ entities' = [entities EXCEPT ![name(r)].guest = TRUE]
      /\ UNCHANGED <<users, tokens, carts, packages, documents>>
  BY DEF LinkGuest, Serves
<1>2. /\ Working(r) /\ call[r].kind = "ENTITY" /\ name(r) \in Names /\ packages[email(r)] > 0
      /\ documents[email(r)] = DOMAIN After /\ entities[name(r)].owner = email(r)
  BY <1>1, OpeningKnown DEF Opening, Linking, Inv, Backed
<1>3. /\ entities'[name(r)].owner = entities[name(r)].owner /\ entities'[name(r)].guest = TRUE
      /\ \A n \in Names \ {name(r)} : entities'[n] = entities[n]
  BY <1>1, <1>2 DEF Inv, TypeInv, TypeOK, EntityType
<1> QED
  BY <1>1, <1>2, <1>3, EntityStep

LEMMA EntityUpdateOwnerInv ==
  ASSUME Inv, TypeInv', NEW r \in Requests, EntityUpdateOwner(r)
  PROVE  Inv'
<1> DEFINE u == email(r)
<1>1. /\ Linking(r) /\ pc[r] = "owner" /\ Answer(r)
      /\ users' = [users EXCEPT ![u] =
           [users[u] EXCEPT !.status = "COMPLETED", !.entity = name(r)]]
      /\ UNCHANGED <<tokens, carts, packages, documents, entities>>
  BY DEF EntityUpdateOwner, Serves, Linking
<1>2. /\ u \in Emails /\ Exists(u) /\ name(r) \in Names /\ packages[u] > 0
      /\ entities[name(r)].owner = u /\ entities[name(r)].guest
  BY <1>1, OpeningKnown DEF Inv, Backed
<1>3. users[u] \in UserType
  BY <1>2 DEF Inv, TypeInv, TypeOK
<1> HIDE DEF u
<1>4. /\ users'[u] = [users[u] EXCEPT !.status = "COMPLETED", !.entity = name(r)]
      /\ \A e \in Emails \ {u} : users'[e] = users[e]
  BY <1>1, <1>2 DEF Inv, TypeInv, TypeOK
<1>5. /\ users'[u].type = users[u].type /\ users'[u].verified = users[u].verified
      /\ users'[u].status = "COMPLETED" /\ users'[u].entity = name(r)
  BY <1>3, <1>4 DEF UserType
<1>6. name(r) \in Owned(u)
  BY <1>2 DEF Owned
<1> QED
  BY <1>1, <1>2, <1>4, <1>5, <1>6, UserStep DEF Inv, DocsInv, VerifiedHaveCarts

-----------------------------------------------------------------------------
(* Documents come first *)

LEMMA InvInit == Init => Inv
<1> SUFFICES ASSUME Init PROVE Inv
  OBVIOUS
<1>1. TypeInv
  BY TypeInit
<1>2. /\ \A e \in Emails : /\ users[e] = NoUser /\ NoUser.type = "none"
                           /\ NoUser.verified = FALSE /\ NoUser.status = "INITIAL"
      /\ \A c \in Codes : tokens[c].user = None /\ tokens[c].stored = FALSE
      /\ \A n \in Names : entities[n].owner = None /\ entities[n].guest = FALSE
  BY DEF Init, NoUser
<1>3. \A e \in Emails : Owned(e) = {}
  BY <1>2, NoneAssumption DEF Owned
<1>4. DocsInv
  BY <1>2, <1>3 DEF DocsInv, KnownUsers, VerifiedHaveCarts, StatusHasDocuments, Exists
<1>5. \A r \in Requests : Backed(r)
  BY DEF Init, Backed, Working, Linking, Opening
<1> QED
  BY <1>1, <1>4, <1>5 DEF Inv

LEMMA InvStep == Inv /\ [Next]_vars => Inv'
<1> SUFFICES ASSUME Inv, [Next]_vars PROVE Inv'
  OBVIOUS
<1>1. TypeInv'
  BY TypeStep DEF Inv
<1>2. CASE UNCHANGED vars
  <2>1. DocsInv' /\ Grows /\ \A q \in Requests : pc'[q] = pc[q] /\ call'[q] = call[q]
    BY <1>2, SameDocs DEF vars
  <2> QED
    BY <1>1, <2>1, StillBacked DEF Inv
<1>3. CASE ProcessExit
  BY <1>1, <1>3, ExitInv
<1>4. ASSUME NEW c \in Codes, TokenExpires(c) PROVE Inv'
  BY <1>1, <1>4, TokenExpiresInv
<1>5. ASSUME NEW r \in Requests, Arrive(r) PROVE Inv'
  BY <1>1, <1>5, ArriveInv
<1>6. ASSUME NEW r \in Requests, Handler(r) PROVE Inv'
  BY <1>1, <1>6, LookupInv, SignUpCreateInv, CreateTokenInv, RemoveTokenInv, CreateCartInv,
     VerifyUserInv, CreatePackageInv, PackageUpdateOwnerInv, CreateDocumentInv,
     CreateEntityInv, LinkGuestInv, EntityUpdateOwnerInv DEF Handler
<1> QED
  BY <1>2, <1>3, <1>4, <1>5, <1>6 DEF Next

LEMMA Invariance == Spec => []Inv
BY InvInit, InvStep, PTL DEF Spec

\* Whatever the interleaving, and wherever the process exits, an owner who is
\* PAID has a package, and one who is COMPLETED the entity in entityId.
THEOREM StatusIsBacked == Spec => []StatusHasDocuments
<1>1. Inv => StatusHasDocuments
  BY DEF Inv, DocsInv
<1> QED
  BY <1>1, Invariance, PTL

\* A verified customer has a cart.
THEOREM CustomersHaveCarts == Spec => []VerifiedHaveCarts
<1>1. Inv => VerifiedHaveCarts
  BY DEF Inv, DocsInv
<1> QED
  BY <1>1, Invariance, PTL

-----------------------------------------------------------------------------
(* The services implement UserLifecycle *)

Things == {"cart", "package", "papers", "entity"}

\* A step UserLifecycle does not see.
Unmoved ==
  UNCHANGED <<[e \in Emails |-> {t \in {"cart", "package", "papers", "entity"} : Obtained(e, t)}],
              [e \in Emails |-> Place(e)]>>

LEMMA SameLifecycle ==
  ASSUME \A e \in Emails : Place(e)' = Place(e),
         \A e \in Emails, t \in Things : Obtained(e, t)' <=> Obtained(e, t)
  PROVE  Unmoved
BY DEF Things, Unmoved

LEMMA ObtainStep ==
  ASSUME NEW u \in Emails, NEW thing \in Things,
         \A e \in Emails : Place(e)' = Place(e),
         \A e \in Emails, t \in Things :
           Obtained(e, t)' <=> (Obtained(e, t) \/ (e = u /\ t = thing)),
         thing = "entity" => Obtained(u, "package") /\ Obtained(u, "papers")
  PROVE  Lifecycle!Obtain(u, thing)
<1> DEFINE has == [e \in Emails |-> {t \in {"cart", "package", "papers", "entity"} : Obtained(e, t)}]
<1>1. has' = [has EXCEPT ![u] = has[u] \union {thing}]
  BY DEF Things
<1>2. Lifecycle!TakenFrom(thing) \subseteq has[u]
  BY DEF Lifecycle!TakenFrom, Things
<1>3. UNCHANGED [e \in Emails |-> Place(e)]
  OBVIOUS
<1> QED
  BY <1>1, <1>2, <1>3 DEF Lifecycle!Obtain

LEMMA TellStep ==
  ASSUME NEW u \in Emails, Inv', UNCHANGED <<carts, packages, documents, entities>>,
         \A e \in Emails \ {u} : users'[e] = users[e]
  PROVE  Lifecycle!Tell(u, Place(u)') /\ Place(u)' \in DOMAIN Lifecycle!Needs
<1> DEFINE has == [e \in Emails |-> {t \in {"cart", "package", "papers", "entity"} : Obtained(e, t)}]
           stands == [e \in Emails |-> Place(e)]
<1>1. \A e \in Emails, t \in Things : Obtained(e, t)' <=> Obtained(e, t)
  BY DEF Obtained, Owned
<1>2. UNCHANGED has
  BY <1>1 DEF Things
<1>3. stands' = [stands EXCEPT ![u] = Place(u)']
  BY DEF Place
<1>4. /\ Place(u)' = "PAID" => Obtained(u, "package")'
      /\ Place(u)' = "COMPLETED" =>
           Obtained(u, "package")' /\ Obtained(u, "papers")' /\ Obtained(u, "entity")'
      /\ Place(u)' = "SHOPPING" => Obtained(u, "cart")'
      /\ Place(u)' \in {"PAID", "COMPLETED", "SHOPPING", "START"}
  BY DEF Place, Obtained, Inv, DocsInv, StatusHasDocuments, VerifiedHaveCarts
<1>5. Place(u)' \in DOMAIN Lifecycle!Needs /\ Lifecycle!Needs[Place(u)'] \subseteq has[u]
  BY <1>1, <1>4 DEF Lifecycle!Needs, Things
<1> QED
  BY <1>2, <1>3, <1>5 DEF Lifecycle!Tell

\* What the refinement mapping reads, when the documents it reads stay.
LEMMA SameDocuments ==
  ASSUME UNCHANGED <<users, carts, packages, documents, entities>>
  PROVE  /\ \A e \in Emails : Place(e)' = Place(e)
         /\ \A e \in Emails, t \in Things : Obtained(e, t)' <=> Obtained(e, t)
BY DEF Place, Obtained, Owned

LEMMA CreateCartObtains ==
  ASSUME Inv, NEW r \in Requests, CreateCart(r)
  PROVE  \E u \in Emails : Lifecycle!Obtain(u, "cart")
<1> DEFINE v == verifying(r)
<1>1. /\ pc[r] = "cart" /\ carts' = [carts EXCEPT ![v] = carts[v] + 1]
      /\ UNCHANGED <<users, tokens, packages, documents, entities>>
  BY DEF CreateCart, Serves
<1>2. v \in Emails
  BY <1>1, VerifyingKnown
<1> HIDE DEF v
<1>3. carts'[v] > 0 /\ \A e \in Emails \ {v} : carts'[e] = carts[e]
  BY <1>1, <1>2 DEF Inv, TypeInv, TypeOK
<1>4. \A e \in Emails : Place(e)' = Place(e)
  BY <1>1 DEF Place
<1>5. \A e \in Emails, t \in Things :
        Obtained(e, t)' <=> (Obtained(e, t) \/ (e = v /\ t = "cart"))
  BY <1>1, <1>3 DEF Obtained, Owned
<1> QED
  BY <1>2, <1>4, <1>5, ObtainStep DEF Things

LEMMA CreatePackageObtains ==
  ASSUME Inv, NEW r \in Requests, CreatePackage(r)
  PROVE  \E u \in Emails : Lifecycle!Obtain(u, "package")
<1>1. /\ Working(r) /\ call[r].kind = "PACKAGE"
      /\ packages' = [packages EXCEPT ![email(r)] = packages[email(r)] + 1]
      /\ UNCHANGED <<users, tokens, carts, documents, entities>>
  BY DEF CreatePackage, Serves, Working
<1>2. email(r) \in Emails
  BY <1>1, BuyerKnown DEF Buyers
<1>3. packages'[email(r)] > 0 /\ \A e \in Emails \ {email(r)} : packages'[e] = packages[e]
  BY <1>1, <1>2 DEF Inv, TypeInv, TypeOK
<1>4. \A e \in Emails : Place(e)' = Place(e)
  BY <1>1 DEF Place
<1>5. \A e \in Emails, t \in Things :
        Obtained(e, t)' <=> (Obtained(e, t) \/ (e = email(r) /\ t = "package"))
  BY <1>1, <1>3 DEF Obtained, Owned
<1> QED
  BY <1>2, <1>4, <1>5, ObtainStep DEF Things

LEMMA CreateDocumentObtains ==
  ASSUME Inv, NEW r \in Requests, CreateDocument(r), ~Fail(r)
  PROVE  Unmoved \/ \E u \in Emails : Lifecycle!Obtain(u, "papers")
<1>1. DOMAIN After = {"warehouse", "customer", "guest"}
  BY DEF After
<1>2. /\ pc[r] \in {"warehouse", "customer", "guest"}
      /\ documents' = [documents EXCEPT ![email(r)] = documents[email(r)] \union {pc[r]}]
      /\ UNCHANGED <<users, tokens, carts, packages, entities>>
  BY <1>1 DEF CreateDocument
<1>3. email(r) \in Emails
  BY <1>2, OpeningKnown DEF Opening
<1>4. /\ documents'[email(r)] = documents[email(r)] \union {pc[r]}
      /\ \A e \in Emails \ {email(r)} : documents'[e] = documents[e]
      /\ documents[email(r)] \subseteq DOMAIN After
  BY <1>2, <1>3 DEF Inv, TypeInv, TypeOK
<1>5. \A e \in Emails : Place(e)' = Place(e)
  BY <1>2 DEF Place
<1>6. CASE documents'[email(r)] = DOMAIN After
  <2>1. \A e \in Emails, t \in Things :
          Obtained(e, t)' <=> (Obtained(e, t) \/ (e = email(r) /\ t = "papers"))
    BY <1>2, <1>4, <1>6 DEF Obtained, Owned, After
  <2> QED
    BY <1>3, <1>5, <2>1, ObtainStep DEF Things
<1>7. CASE documents'[email(r)] # DOMAIN After
  <2>1. documents[email(r)] # DOMAIN After
    BY <1>1, <1>2, <1>4, <1>7
  <2>2. \A e \in Emails : documents'[e] = DOMAIN After <=> documents[e] = DOMAIN After
    BY <1>4, <1>7, <2>1
  <2>3. \A e \in Emails, t \in Things : Obtained(e, t)' <=> Obtained(e, t)
    BY <1>2, <2>2 DEF Obtained, Owned, After
  <2> QED
    BY <1>5, <2>3, SameLifecycle
<1> QED
  BY <1>6, <1>7

\* An entity is obtained when its guest knows it, not when it is created.
LEMMA CreateEntityObtainsNothing ==
  ASSUME Inv, NEW r \in Requests, CreateEntity(r), ~Fail(r)
  PROVE  Unmoved
<1>1. /\ pc[r] = "entity" /\ entities[name(r)].owner = None
      /\ entities' = [entities EXCEPT ![name(r)].owner = email(r)]
      /\ UNCHANGED <<users, tokens, carts, packages, documents>>
  BY DEF CreateEntity, Serves
<1>2. name(r) \in Names
  BY <1>1, OpeningKnown DEF Opening
<1>3. ~entities[name(r)].guest
  BY <1>1, <1>2 DEF Inv, DocsInv, KnownUsers
<1>4. /\ ~entities'[name(r)].guest
      /\ \A n \in Names \ {name(r)} : entities'[n] = entities[n]
  BY <1>1, <1>2, <1>3 DEF Inv, TypeInv, TypeOK, EntityType
<1>5. \A e \in Emails : (\E n \in Owned(e) : entities[n].guest)' <=> \E n \in Owned(e) : entities[n].guest
  BY <1>2, <1>3, <1>4 DEF Owned
<1>6. \A e \in Emails, t \in Things : Obtained(e, t)' <=> Obtained(e, t)
  BY <1>1, <1>5 DEF Obtained
<1>7. \A e \in Emails : Place(e)' = Place(e)
  BY <1>1 DEF Place
<1> QED
  BY <1>6, <1>7, SameLifecycle

LEMMA LinkGuestObtains ==
  ASSUME Inv, NEW r \in Requests, LinkGuest(r)
  PROVE  \E u \in Emails : Lifecycle!Obtain(u, "entity")
<1>1. /\ pc[r] = "link" /\ entities' = [entities EXCEPT ![name(r)].guest = TRUE]
      /\ UNCHANGED <<users, tokens, carts, packages, documents>>
  BY DEF LinkGuest, Serves
<1>2. /\ email(r) \in Emails /\ name(r) \in Names /\ packages[email(r)] > 0
      /\ documents[email(r)] = DOMAIN After /\ entities[name(r)].owner = email(r)
  BY <1>1, OpeningKnown DEF Linking, Inv, Backed
<1>3. /\ entities'[name(r)].owner = entities[name(r)].owner /\ entities'[name(r)].guest = TRUE
      /\ \A n \in Names \ {name(r)} : entities'[n] = entities[n]
  BY <1>1, <1>2 DEF Inv, TypeInv, TypeOK, EntityType
<1>4. \A e \in Emails :
        (\E n \in Owned(e) : entities[n].guest)' <=>
          ((\E n \in Owned(e) : entities[n].guest) \/ e = email(r))
  BY <1>2, <1>3 DEF Owned
<1>5. \A e \in Emails, t \in Things :
        Obtained(e, t)' <=> (Obtained(e, t) \/ (e = email(r) /\ t = "entity"))
  BY <1>1, <1>4 DEF Obtained
<1>6. \A e \in Emails : Place(e)' = Place(e)
  BY <1>1 DEF Place
<1>7. Obtained(email(r), "package") /\ Obtained(email(r), "papers")
  BY <1>2 DEF Obtained
<1> QED
  BY <1>2, <1>5, <1>6, <1>7, ObtainStep DEF Things

\* The steps that write one user.
LEMMA UserTells ==
  ASSUME Inv, Inv', NEW r \in Requests,
         \/ SignUpCreate(r) /\ ~Fail(r)
         \/ VerifyUser(r) \/ PackageUpdateOwner(r) \/ EntityUpdateOwner(r)
  PROVE  \E u \in Emails : \E place \in DOMAIN Lifecycle!Needs : Lifecycle!Tell(u, place)
<1>1. UNCHANGED <<carts, packages, documents, entities>>
  BY DEF SignUpCreate, VerifyUser, PackageUpdateOwner, EntityUpdateOwner
<1>2. CASE VerifyUser(r)
  <2>1. verifying(r) \in Emails /\ \A e \in Emails \ {verifying(r)} : users'[e] = users[e]
    BY <1>2, VerifyingKnown DEF VerifyUser, Serves, Inv, TypeInv, TypeOK
  <2> QED
    BY <1>1, <2>1, TellStep
<1>3. CASE ~VerifyUser(r)
  <2>1. email(r) \in Emails
    BY <1>3, CallFields
    DEF SignUpCreate, PackageUpdateOwner, EntityUpdateOwner, Serves, Working, Mailers, Buyers, Inv
  <2>2. \A e \in Emails \ {email(r)} : users'[e] = users[e]
    BY <1>3, <2>1 DEF SignUpCreate, PackageUpdateOwner, EntityUpdateOwner, Inv, TypeInv, TypeOK
  <2> QED
    BY <1>1, <2>1, <2>2, TellStep
<1> QED
  BY <1>2, <1>3

LEMMA LifecycleInit == Init => Lifecycle!Init
<1> SUFFICES ASSUME Init PROVE Lifecycle!Init
  OBVIOUS
<1>1. \A e \in Emails : Place(e) = "START"
  BY DEF Init, Place, NoUser
<1>2. \A n \in Names : entities[n].guest = FALSE
  BY DEF Init
<1>3. \A e \in Emails : documents[e] = {} /\ carts[e] = 0 /\ packages[e] = 0 /\ DOMAIN After # {}
  BY DEF Init, After
<1>4. \A e \in Emails, t \in Things : ~Obtained(e, t)
  BY <1>2, <1>3 DEF Obtained, Owned
<1> QED
  BY <1>1, <1>4 DEF Lifecycle!Init, Things

LEMMA LifecycleStep ==
  ASSUME Inv, Inv', [Next]_vars
  PROVE  Lifecycle!Next \/ Unmoved
<1>1. CASE UNCHANGED <<users, carts, packages, documents, entities>>
  BY <1>1, SameDocuments, SameLifecycle
<1>2. CASE UNCHANGED vars \/ ProcessExit \/ (\E c \in Codes : TokenExpires(c))
           \/ (\E r \in Requests : Arrive(r) \/ Fail(r))
  BY <1>1, <1>2 DEF vars, docs, ProcessExit, TokenExpires, Arrive, Fail
<1>3. ASSUME NEW r \in Requests, Handler(r), ~Fail(r)
      PROVE  Lifecycle!Next \/ Unmoved
  <2>1. CASE \/ SignUpFind(r) \/ MailFind(r) \/ FindToken(r) \/ PackageFind(r) \/ EntityFind(r)
             \/ SavePassword(r) \/ CreateToken(r) \/ RemoveToken(r)
    BY <1>1, <1>3, <2>1
    DEF SignUpFind, MailFind, FindToken, PackageFind, EntityFind, SavePassword, CreateToken,
        RemoveToken, Move, docs
  <2>2. CASE SignUpCreate(r) \/ VerifyUser(r) \/ PackageUpdateOwner(r) \/ EntityUpdateOwner(r)
    BY <1>3, <2>2, UserTells DEF Lifecycle!Next
  <2>3. CASE CreateCart(r)
    BY <2>3, CreateCartObtains DEF Lifecycle!Next, Lifecycle!Things
  <2>4. CASE CreatePackage(r)
    BY <2>4, CreatePackageObtains DEF Lifecycle!Next, Lifecycle!Things
  <2>5. CASE CreateDocument(r)
    BY <1>3, <2>5, CreateDocumentObtains DEF Lifecycle!Next, Lifecycle!Things
  <2>6. CASE CreateEntity(r)
    BY <1>3, <2>6, CreateEntityObtainsNothing
  <2>7. CASE LinkGuest(r)
    BY <2>7, LinkGuestObtains DEF Lifecycle!Next, Lifecycle!Things
  <2> QED
    BY <1>3, <2>1, <2>2, <2>3, <2>4, <2>5, <2>6, <2>7 DEF Handler
<1> QED
  BY <1>2, <1>3 DEF Next

\* For any users, codes, names and requests, in any interleaving and through
\* exits, sign-up, verification, packages and entities together implement
\* UserLifecycle.
THEOREM ImplementsLifecycle == Spec => FollowsLifecycle
<1>1. Inv /\ Inv' /\ [Next]_vars =>
        [Lifecycle!Next]_<<[e \in Emails |-> {t \in {"cart", "package", "papers", "entity"} : Obtained(e, t)}],
                           [e \in Emails |-> Place(e)]>>
  BY LifecycleStep DEF Unmoved
<1> QED
  BY <1>1, LifecycleInit, Invariance, PTL DEF Spec, FollowsLifecycle, Lifecycle!Spec

-----------------------------------------------------------------------------
(* One request at a time, and one code for each user *)

Alone == \A r, o \in Requests : Working(r) /\ Working(o) => r = o

\* Nothing has been verified, and nothing sold.
Fresh(e) == users[e].status = "INITIAL" /\ ~users[e].verified

\* What a request that nobody interferes with has found, where it stands.
Stands(r) ==
  Working(r) =>
    /\ call[r].kind \in load.kinds
    /\ pc[r] = "token" => Fresh(email(r)) /\ \A c \in Codes : tokens[c].user # email(r)
    /\ pc[r] = "check" => tokens[code(r)].stored
    /\ pc[r] \in {"cart", "update"} => ~tokens[code(r)].stored /\ Fresh(verifying(r))
    /\ call[r].kind \in Buyers => me(r) = users[email(r)] /\ me(r).type = "BUSINESS"
    /\ call[r].kind = "PACKAGE" /\ pc[r] \in {"create", "owner"} => me(r).status = "PENDING"
    /\ call[r].kind = "ENTITY" /\ pc[r] \in Opening \union {"owner"} => me(r).status = "PAID"

CodesInv ==
  /\ \A c, d \in Codes : tokens[c].user # None /\ tokens[c].user = tokens[d].user => c = d
  /\ \A c \in Codes : tokens[c].stored => Fresh(tokens[c].user)

SerialInv ==
  (Serial /\ OneCodeEach) => Alone /\ CodesInv /\ \A r \in Requests : Stands(r)

\* The status says what an owner has.
Tells(e) ==
  /\ ~users[e].verified => users[e].status = "INITIAL"
  /\ users[e].verified /\ packages[e] = 0 => users[e].status = "PENDING"
  /\ users[e].verified /\ packages[e] > 0 /\ Owned(e) = {} => users[e].status = "PAID"
  /\ users[e].verified /\ packages[e] > 0 /\ Owned(e) # {} => users[e].status = "COMPLETED"

\* Between what it creates and what it writes of it, a request is ahead of the status.
Selling(r) == pc[r] = "owner" /\ call[r].kind = "PACKAGE"
Ahead(r) ==
  /\ pc[r] = "create" /\ call[r].kind = "PACKAGE" => packages[email(r)] = 0
  /\ Selling(r) => /\ users[email(r)].verified /\ packages[email(r)] > 0
                   /\ Owned(email(r)) = {}
  /\ Linking(r) => /\ users[email(r)].verified /\ packages[email(r)] > 0
                   /\ Owned(email(r)) # {}

OthersTell ==
  \A e \in Emails :
    (users[e].type = "BUSINESS" /\ \A r \in Requests : Selling(r) \/ Linking(r) => email(r) # e)
      => Tells(e)

UnverifiedBuyNothing == \A e \in Emails : ~users[e].verified => packages[e] = 0

TellsInv ==
  (Serial /\ OneCodeEach /\ ~lost) =>
    /\ UnverifiedBuyNothing
    /\ OthersTell
    /\ \A r \in Requests : Ahead(r)

\* What every step of a handler leaves alone.
Frame(r) ==
  /\ load' = load /\ lost' = lost /\ Working(r)
  /\ \A q \in Requests \ {r} : pc'[q] = pc[q] /\ call'[q] = call[q]
  /\ pc'[r] # "idle" => call'[r] = call[r] /\ pc'[r] \in Steps

LEMMA GotoIsFrame ==
  ASSUME TypeInv, NEW r \in Requests, NEW at \in Steps, Goto(r, at), Working(r)
  PROVE  Frame(r) /\ pc'[r] = at
BY DEF Goto, Frame, TypeInv, TypeOK

LEMMA AnswerIsFrame ==
  ASSUME TypeInv, NEW r \in Requests, Answer(r), Working(r)
  PROVE  Frame(r) /\ pc'[r] = "idle"
BY DEF Answer, Frame, TypeInv, TypeOK

\* What a step that writes neither users, codes, packages nor owners of an entity
\* has seen when it moves on.
Seen(r) ==
  /\ pc'[r] = "check" => tokens[code(r)].stored
  /\ pc'[r] \notin {"token", "cart", "update", "link", "save"}
  /\ pc'[r] \in Opening => call[r].kind = "ENTITY" /\ me(r).status = "PAID"
  /\ pc'[r] = "create" /\ call[r].kind = "PACKAGE" => packages[email(r)] = 0 /\ me(r).status = "PENDING"
  /\ pc'[r] # "owner" /\ pc[r] \notin {"owner", "link"}

Reads(r) == Seen(r) /\ UNCHANGED <<users, tokens, packages, entities>>

LEMMA LookupReads ==
  ASSUME Inv, NEW r \in Requests, Stands(r), OneCodeEach,
         \/ SignUpFind(r) \/ MailFind(r) \/ FindToken(r) \/ SavePassword(r)
         \/ PackageFind(r) \/ EntityFind(r) \/ CreateDocument(r)
  PROVE  Frame(r) /\ Reads(r)
<1>1. Working(r) /\ TypeInv /\ pc[r] \notin {"owner", "link"}
  BY DEF SignUpFind, MailFind, FindToken, SavePassword, PackageFind, EntityFind, CreateDocument,
         Serves, Working, After, Inv
<1>2. CASE Fail(r)
  <2>1. Frame(r) /\ pc'[r] = "idle"
    BY <1>1, <1>2, AnswerIsFrame DEF Fail
  <2> QED BY <1>1, <1>2, <2>1 DEF Fail, docs, Reads, Seen, Opening
<1>3. ASSUME NEW at \in Steps, Move(r, at)
      PROVE  Frame(r) /\ pc'[r] = at /\ UNCHANGED <<users, tokens, packages, entities>>
  BY <1>1, <1>3, GotoIsFrame DEF Move, docs
<1>4. CASE SignUpFind(r)
  <2>1. CASE Move(r, "create")
    <3>1. Frame(r) /\ pc'[r] = "create" /\ UNCHANGED <<users, tokens, packages, entities>>
      BY <1>3, <2>1 DEF Steps
    <3> QED BY <1>1, <1>4, <3>1 DEF SignUpFind, Serves, Reads, Seen, Opening
  <2> QED BY <1>2, <1>4, <2>1 DEF SignUpFind
<1>5. CASE MailFind(r)
  BY <1>1, <1>5 DEF MailFind, Serves, Stands, OneCodeEach
<1>6. CASE FindToken(r)
  <2>1. CASE tokens[code(r)].stored /\ Move(r, "check")
    <3>1. Frame(r) /\ pc'[r] = "check" /\ UNCHANGED <<users, tokens, packages, entities>>
      BY <1>3, <2>1 DEF Steps
    <3> QED BY <1>1, <2>1, <3>1 DEF Reads, Seen, Opening
  <2> QED BY <1>2, <1>6, <2>1 DEF FindToken
<1>7. CASE SavePassword(r)
  BY <1>2, <1>7 DEF SavePassword
<1>8. CASE PackageFind(r)
  <2>1. CASE ~(packages[email(r)] > 0) /\ me(r).status = "PENDING" /\ Move(r, "create")
    <3>1. Frame(r) /\ pc'[r] = "create" /\ UNCHANGED <<users, tokens, packages, entities>>
      BY <1>3, <2>1 DEF Steps
    <3>2. call[r].kind = "PACKAGE" /\ packages[email(r)] \in Nat
      BY <1>1, <1>8, CallFields DEF PackageFind, Serves, TypeInv, TypeOK, Buyers
    <3> QED BY <1>1, <2>1, <3>1, <3>2 DEF Reads, Seen, Opening
  <2> QED BY <1>2, <1>8, <2>1 DEF PackageFind
<1>9. CASE EntityFind(r)
  <2>1. CASE me(r).status = "PAID" /\ Move(r, "warehouse")
    <3>1. Frame(r) /\ pc'[r] = "warehouse" /\ UNCHANGED <<users, tokens, packages, entities>>
      BY <1>3, <2>1 DEF Steps
    <3> QED BY <1>1, <1>9, <2>1, <3>1 DEF EntityFind, Serves, Reads, Seen, Opening
  <2> QED BY <1>2, <1>9, <2>1 DEF EntityFind
<1>10. CASE CreateDocument(r)
  <2>1. CASE Goto(r, After[pc[r]]) /\ UNCHANGED <<users, tokens, packages, entities>>
    <3>1. /\ pc[r] \in {"warehouse", "customer", "guest"}
          /\ After[pc[r]] \in {"customer", "guest", "entity"}
      BY <1>10 DEF CreateDocument, After
    <3>2. Frame(r) /\ pc'[r] = After[pc[r]]
      BY <1>1, <2>1, <3>1, GotoIsFrame DEF Steps
    <3>3. call[r].kind = "ENTITY" /\ me(r).status = "PAID"
      BY <1>1, <3>1 DEF Stands, TypeInv, Opening
    <3> QED BY <1>1, <2>1, <3>1, <3>2, <3>3 DEF Reads, Seen
  <2> QED BY <1>2, <1>10, <2>1 DEF CreateDocument
<1> QED BY <1>4, <1>5, <1>6, <1>7, <1>8, <1>9, <1>10

\* The other steps, by what they write.
SignsUp(r) ==
  /\ call[r].kind = "SIGNUP" /\ pc'[r] = "token" /\ email(r) \in Emails /\ ~Exists(email(r))
  /\ users'[email(r)].status = "INITIAL" /\ ~users'[email(r)].verified
  /\ \A e \in Emails : e # email(r) => users'[e] = users[e]
  /\ UNCHANGED <<tokens, packages, entities>>
MailsCode(r) ==
  /\ pc[r] = "token" /\ pc'[r] = "idle" /\ email(r) \in Emails
  /\ \E c \in Codes : /\ tokens'[c].user = email(r)
                      /\ \A d \in Codes : d # c => tokens'[d] = tokens[d]
  /\ UNCHANGED <<users, packages, entities>>
UsesCode(r) ==
  /\ pc[r] = "check" /\ call[r].kind \in Verifiers /\ pc'[r] \in {"idle", "save", "cart", "update"}
  /\ code(r) \in Codes /\ ~tokens'[code(r)].stored
  /\ \A c \in Codes : /\ tokens'[c].user = tokens[c].user
                      /\ tokens'[c].stored => tokens[c].stored
  /\ UNCHANGED <<users, packages, entities>>
GetsCart(r) ==
  /\ pc[r] = "cart" /\ call[r].kind \in Verifiers /\ pc'[r] = "update"
  /\ UNCHANGED <<users, tokens, packages, entities>>
Verifies(r) ==
  /\ pc[r] = "update" /\ pc'[r] = "idle" /\ code(r) \in Codes /\ verifying(r) \in Emails
  /\ users'[verifying(r)].verified /\ users'[verifying(r)].type = users[verifying(r)].type
  /\ users'[verifying(r)].status =
       IF users[verifying(r)].type = "BUSINESS" THEN "PENDING" ELSE users[verifying(r)].status
  /\ \A e \in Emails : e # verifying(r) => users'[e] = users[e]
  /\ UNCHANGED <<tokens, packages, entities>>
Sells(r) ==
  /\ call[r].kind = "PACKAGE" /\ pc[r] = "create" /\ pc'[r] = "owner" /\ email(r) \in Emails
  /\ packages'[email(r)] > 0
  /\ \A e \in Emails : e # email(r) => packages'[e] = packages[e]
  /\ UNCHANGED <<users, tokens, entities>>
Tells1(r, status) ==
  /\ pc[r] = "owner" /\ pc'[r] = "idle" /\ email(r) \in Emails
  /\ users'[email(r)].status = status
  /\ users'[email(r)].type = users[email(r)].type
  /\ users'[email(r)].verified = users[email(r)].verified
  /\ \A e \in Emails : e # email(r) => users'[e] = users[e]
  /\ UNCHANGED <<tokens, packages, entities>>
Opens(r) ==
  /\ call[r].kind = "ENTITY" /\ pc[r] = "entity" /\ pc'[r] = "link" /\ email(r) \in Emails
  /\ Owned(email(r))' # {}
  /\ \A e \in Emails : e # email(r) => Owned(e)' = Owned(e)
  /\ UNCHANGED <<users, tokens, packages>>
Links(r) ==
  /\ call[r].kind = "ENTITY" /\ pc[r] = "link" /\ pc'[r] = "owner" /\ email(r) \in Emails
  /\ \A e \in Emails : Owned(e)' = Owned(e)
  /\ UNCHANGED <<users, tokens, packages>>

Does(r) ==
  \/ Reads(r) \/ SignsUp(r) \/ MailsCode(r) \/ UsesCode(r) \/ GetsCart(r) \/ Verifies(r)
  \/ Sells(r) \/ (call[r].kind = "PACKAGE" /\ Tells1(r, "PAID"))
  \/ Opens(r) \/ Links(r) \/ (call[r].kind = "ENTITY" /\ Tells1(r, "COMPLETED"))

LEMMA MailDoes ==
  ASSUME Inv, NEW r \in Requests, Stands(r), OneCodeEach, SignUpCreate(r) \/ CreateToken(r)
  PROVE  Frame(r) /\ Does(r)
<1>1. Working(r) /\ TypeInv /\ call[r].kind \in Mailers
  BY DEF SignUpCreate, CreateToken, Serves, Working, Mailers, Inv
<1>2. email(r) \in Emails
  BY <1>1, CallFields
<1>3. CASE SignUpCreate(r)
  <2>1. CASE Fail(r)
    <3>1. Frame(r) /\ pc'[r] = "idle"
      BY <1>1, <2>1, AnswerIsFrame DEF Fail
    <3> QED BY <1>3, <2>1, <3>1 DEF Fail, docs, Does, Reads, Seen, Opening, SignUpCreate, Serves
  <2>2. CASE /\ ~Exists(email(r))
             /\ users' = [users EXCEPT ![email(r)] = [NoUser EXCEPT !.type = call[r].dto.type]]
             /\ Goto(r, "token")
             /\ UNCHANGED <<tokens, carts, packages, documents, entities>>
    <3>1. Frame(r) /\ pc'[r] = "token" /\ call[r].kind = "SIGNUP"
      BY <1>1, <1>3, <2>2, GotoIsFrame DEF Steps, SignUpCreate, Serves
    <3> DEFINE new == [NoUser EXCEPT !.type = call[r].dto.type]
    <3>2. new.status = "INITIAL" /\ ~new.verified
      BY DEF NoUser
    <3> HIDE DEF new
    <3>3. users'[email(r)] = new /\ \A e \in Emails : e # email(r) => users'[e] = users[e]
      BY <1>1, <1>2, <2>2 DEF TypeInv, TypeOK, new
    <3> QED BY <1>2, <2>2, <3>1, <3>2, <3>3 DEF Does, SignsUp
  <2> QED BY <1>3, <2>1, <2>2 DEF SignUpCreate
<1>4. CASE CreateToken(r)
  <2>1. Frame(r) /\ pc'[r] = "idle" /\ pc[r] = "token"
    BY <1>1, <1>4, AnswerIsFrame DEF CreateToken, Serves
  <2>2. PICK c \in Codes :
          tokens' = [tokens EXCEPT ![c] = [user |-> email(r), stored |-> TRUE, valid |-> TRUE]]
    BY <1>4 DEF CreateToken
  <2>3. tokens'[c].user = email(r) /\ \A d \in Codes : d # c => tokens'[d] = tokens[d]
    BY <1>1, <2>2 DEF TypeInv, TypeOK
  <2> QED BY <1>2, <1>4, <2>1, <2>3 DEF CreateToken, Does, MailsCode
<1> QED BY <1>3, <1>4

LEMMA VerifyDoes ==
  ASSUME Inv, NEW r \in Requests, RemoveToken(r) \/ CreateCart(r) \/ VerifyUser(r)
  PROVE  Frame(r) /\ Does(r)
<1>1. Working(r) /\ TypeInv /\ call[r].kind \in Verifiers
  BY DEF RemoveToken, CreateCart, VerifyUser, Serves, Working, Verifiers, Inv
<1>2. code(r) \in Codes
  BY <1>1, CallFields
<1>3. CASE RemoveToken(r)
  <2>1. /\ pc[r] = "check" /\ UNCHANGED <<users, packages, entities>>
        /\ tokens' = [tokens EXCEPT ![code(r)].stored = FALSE]
        /\ Answer(r) \/ \E at \in {"save", "cart", "update"} : Goto(r, at)
    BY <1>3 DEF RemoveToken, Serves
  <2>2. Frame(r) /\ pc'[r] \in {"idle", "save", "cart", "update"}
    BY <1>1, <2>1, GotoIsFrame, AnswerIsFrame DEF Steps
  <2>3. ~tokens'[code(r)].stored /\ \A c \in Codes : /\ tokens'[c].user = tokens[c].user
                                                    /\ tokens'[c].stored => tokens[c].stored
    <3>1. tokens \in [Codes -> TokenType]
      BY <1>1 DEF TypeInv, TypeOK
    <3>2. \A t \in TokenType : /\ [t EXCEPT !.stored = FALSE].user = t.user
                               /\ ~[t EXCEPT !.stored = FALSE].stored
      BY DEF TokenType
    <3>3. /\ tokens'[code(r)] = [tokens[code(r)] EXCEPT !.stored = FALSE]
          /\ \A c \in Codes : c # code(r) => tokens'[c] = tokens[c]
      BY <1>2, <2>1, <3>1
    <3> QED BY <1>2, <3>1, <3>2, <3>3
  <2> QED BY <1>1, <1>2, <2>1, <2>2, <2>3 DEF Does, UsesCode
<1>4. CASE CreateCart(r)
  <2>1. Frame(r) /\ pc'[r] = "update" /\ pc[r] = "cart"
    BY <1>1, <1>4, GotoIsFrame DEF CreateCart, Serves, Steps
  <2> QED BY <1>1, <1>4, <2>1 DEF CreateCart, Does, GetsCart
<1>5. CASE VerifyUser(r)
  <2> DEFINE v == verifying(r)
             status1 == IF users[v].type = "BUSINESS" THEN "PENDING" ELSE users[v].status
  <2>1. /\ pc[r] = "update" /\ Answer(r)
        /\ users' = [users EXCEPT ![v] = [users[v] EXCEPT !.verified = TRUE, !.status = status1]]
        /\ UNCHANGED <<tokens, packages, entities>>
    BY <1>5 DEF VerifyUser, Serves
  <2>2. v \in Emails
    BY <2>1, VerifyingKnown
  <2>3. users[v] \in UserType /\ users \in [Emails -> UserType]
    BY <1>1, <2>2 DEF TypeInv, TypeOK
  <2>4. Frame(r) /\ pc'[r] = "idle"
    BY <1>1, <2>1, AnswerIsFrame
  <2> HIDE DEF v, status1
  <2>5. /\ users'[v] = [users[v] EXCEPT !.verified = TRUE, !.status = status1]
        /\ \A e \in Emails : e # v => users'[e] = users[e]
    BY <2>1, <2>2, <2>3
  <2>6. users'[v].type = users[v].type /\ users'[v].verified /\ users'[v].status = status1
    BY <2>3, <2>5 DEF UserType
  <2> QED BY <1>2, <2>1, <2>2, <2>4, <2>5, <2>6 DEF Does, Verifies, v, status1
<1> QED BY <1>3, <1>4, <1>5

LEMMA BuyDoes ==
  ASSUME Inv, NEW r \in Requests,
         \/ CreatePackage(r) \/ PackageUpdateOwner(r)
         \/ CreateEntity(r) \/ LinkGuest(r) \/ EntityUpdateOwner(r)
  PROVE  Frame(r) /\ Does(r)
<1>1. Working(r) /\ TypeInv /\ call[r].kind \in Buyers
  BY DEF CreatePackage, PackageUpdateOwner, CreateEntity, LinkGuest, EntityUpdateOwner, Serves,
         Working, Buyers, Inv
<1>2. /\ email(r) \in Emails /\ email(r) # None
      /\ users \in [Emails -> UserType] /\ packages \in [Emails -> Nat]
      /\ entities \in [Names -> EntityType]
  BY <1>1, CallFields, NoneAssumption DEF TypeInv, TypeOK
<1>3. CASE CreatePackage(r)
  <2>1. /\ Frame(r) /\ pc'[r] = "owner" /\ pc[r] = "create" /\ call[r].kind = "PACKAGE"
        /\ packages' = [packages EXCEPT ![email(r)] = packages[email(r)] + 1]
        /\ UNCHANGED <<users, tokens, entities>>
    BY <1>1, <1>3, GotoIsFrame DEF CreatePackage, Serves, Steps
  <2>2. packages'[email(r)] > 0 /\ \A e \in Emails : e # email(r) => packages'[e] = packages[e]
    BY <1>2, <2>1
  <2> QED BY <1>2, <2>1, <2>2 DEF Does, Sells
<1>4. CASE PackageUpdateOwner(r)
  <2>1. /\ Frame(r) /\ pc'[r] = "idle" /\ pc[r] = "owner" /\ call[r].kind = "PACKAGE"
        /\ users' = [users EXCEPT ![email(r)].status = "PAID"]
        /\ UNCHANGED <<tokens, packages, entities>>
    BY <1>1, <1>4, AnswerIsFrame DEF PackageUpdateOwner, Serves
  <2>2. /\ users'[email(r)] = [users[email(r)] EXCEPT !.status = "PAID"]
        /\ \A e \in Emails : e # email(r) => users'[e] = users[e]
        /\ users[email(r)] \in UserType
    BY <1>2, <2>1
  <2>3. /\ users'[email(r)].status = "PAID"
        /\ users'[email(r)].type = users[email(r)].type
        /\ users'[email(r)].verified = users[email(r)].verified
    BY <2>2 DEF UserType
  <2> QED BY <1>2, <2>1, <2>2, <2>3 DEF Does, Tells1
<1>5. CASE CreateEntity(r)
  <2>1. CASE Fail(r)
    <3>1. Frame(r) /\ pc'[r] = "idle"
      BY <1>1, <2>1, AnswerIsFrame DEF Fail
    <3> QED BY <1>5, <2>1, <3>1 DEF Fail, docs, Does, Reads, Seen, Opening, CreateEntity, Serves
  <2>2. CASE /\ entities[name(r)].owner = None
             /\ entities' = [entities EXCEPT ![name(r)].owner = email(r)]
             /\ Goto(r, "link")
             /\ UNCHANGED <<users, tokens, carts, packages, documents>>
    <3>1. /\ Frame(r) /\ pc'[r] = "link" /\ pc[r] = "entity" /\ call[r].kind = "ENTITY"
          /\ name(r) \in Names
      BY <1>1, <1>5, <2>2, GotoIsFrame, CallFields DEF CreateEntity, Serves, Steps
    <3>2. /\ entities'[name(r)] = [entities[name(r)] EXCEPT !.owner = email(r)]
          /\ \A n \in Names : n # name(r) => entities'[n] = entities[n]
          /\ entities[name(r)] \in EntityType
      BY <1>2, <2>2, <3>1
    <3>3. entities'[name(r)].owner = email(r)
      BY <3>2 DEF EntityType
    <3> DEFINE e0 == email(r)
    <3>4. {n \in Names : entities'[n].owner = e0} # {}
      BY <3>1, <3>3
    <3>5. ASSUME NEW e \in Emails, e # e0
          PROVE  {n \in Names : entities'[n].owner = e} = {n \in Names : entities[n].owner = e}
      <4>1. e # None
        BY NoneAssumption
      <4> QED BY <2>2, <3>2, <3>3, <3>5, <4>1
    <3>6. Owned(email(r))' # {}
      <4>1. email(r)' = email(r)
        BY <3>1 DEF Frame, email
      <4> QED BY <3>4, <4>1 DEF Owned
    <3>7. \A e \in Emails : e # email(r) => Owned(e)' = Owned(e)
      BY <3>5 DEF Owned
    <3> QED BY <1>2, <2>2, <3>1, <3>6, <3>7 DEF Does, Opens
  <2> QED BY <1>5, <2>1, <2>2 DEF CreateEntity
<1>6. CASE LinkGuest(r)
  <2>1. /\ Frame(r) /\ pc'[r] = "owner" /\ pc[r] = "link" /\ call[r].kind = "ENTITY"
        /\ entities' = [entities EXCEPT ![name(r)].guest = TRUE] /\ name(r) \in Names
        /\ UNCHANGED <<users, tokens, packages>>
    BY <1>1, <1>6, GotoIsFrame, CallFields DEF LinkGuest, Serves, Steps
  <2>2. /\ entities'[name(r)] = [entities[name(r)] EXCEPT !.guest = TRUE]
        /\ \A n \in Names : n # name(r) => entities'[n] = entities[n]
        /\ entities[name(r)] \in EntityType
    BY <1>2, <2>1
  <2>3. entities'[name(r)].owner = entities[name(r)].owner
    BY <2>2 DEF EntityType
  <2>4. \A e \in Emails : Owned(e)' = Owned(e)
    BY <2>1, <2>2, <2>3 DEF Owned
  <2> QED BY <1>2, <2>1, <2>4 DEF Does, Links
<1>7. CASE EntityUpdateOwner(r)
  <2>1. /\ Frame(r) /\ pc'[r] = "idle" /\ pc[r] = "owner" /\ call[r].kind = "ENTITY"
        /\ users' = [users EXCEPT ![email(r)] =
             [users[email(r)] EXCEPT !.status = "COMPLETED", !.entity = name(r)]]
        /\ UNCHANGED <<tokens, packages, entities>>
    BY <1>1, <1>7, AnswerIsFrame DEF EntityUpdateOwner, Serves
  <2>2. /\ users'[email(r)] = [users[email(r)] EXCEPT !.status = "COMPLETED", !.entity = name(r)]
        /\ \A e \in Emails : e # email(r) => users'[e] = users[e]
        /\ users[email(r)] \in UserType
    BY <1>2, <2>1
  <2>3. /\ users'[email(r)].status = "COMPLETED"
        /\ users'[email(r)].type = users[email(r)].type
        /\ users'[email(r)].verified = users[email(r)].verified
    BY <2>2 DEF UserType
  <2> QED BY <1>2, <2>1, <2>2, <2>3 DEF Does, Tells1
<1> QED BY <1>3, <1>4, <1>5, <1>6, <1>7

LEMMA HandlerDoes ==
  ASSUME Inv, NEW r \in Requests, Stands(r), OneCodeEach, Handler(r)
  PROVE  Frame(r) /\ Does(r)
BY LookupReads, MailDoes, VerifyDoes, BuyDoes DEF Handler, Does

LEMMA CodesKept ==
  ASSUME CodesInv, UNCHANGED load,
         \A c \in Codes : /\ tokens'[c].user = tokens[c].user
                          /\ tokens'[c].stored => tokens[c].stored
                          /\ tokens'[c].stored => users'[tokens[c].user] = users[tokens[c].user]
  PROVE  CodesInv'
BY DEF CodesInv, Fresh

LEMMA CodesStep ==
  ASSUME Inv, CodesInv, NEW r \in Requests, Stands(r), Frame(r), Does(r)
  PROVE  CodesInv'
<1>1. Working(r) /\ load' = load
  BY DEF Frame
<1>2. CASE UNCHANGED <<users, tokens>>
  BY <1>1, <1>2, CodesKept
<1>3. CASE UsesCode(r)
  BY <1>1, <1>3, CodesKept DEF UsesCode
<1>4. CASE MailsCode(r)
  <2>1. PICK c \in Codes : /\ tokens'[c].user = email(r)
                           /\ \A d \in Codes : d # c => tokens'[d] = tokens[d]
    BY <1>4 DEF MailsCode
  <2>2. Fresh(email(r)) /\ \A d \in Codes : tokens[d].user # email(r)
    BY <1>1, <1>4 DEF MailsCode, Stands
  <2> QED BY <1>4, <2>1, <2>2 DEF MailsCode, CodesInv, Fresh
<1>5. ASSUME NEW e \in Emails, UNCHANGED tokens,
             \A d \in Emails : d # e => users'[d] = users[d],
             \A c \in Codes : tokens[c].user = e => ~tokens[c].stored
      PROVE  CodesInv'
  <2>1. ASSUME NEW c \in Codes, tokens[c].stored
        PROVE  tokens[c].user \in Emails /\ tokens[c].user # e
    BY <1>5, <2>1 DEF Inv, DocsInv, KnownUsers, TypeInv, TypeOK, TokenType
  <2> QED BY <1>1, <1>5, <2>1, CodesKept
<1>6. CASE SignsUp(r)
  <2>1. email(r) \in Emails /\ ~Exists(email(r))
    BY <1>6 DEF SignsUp
  <2>2. \A c \in Codes : tokens[c].user = email(r) => ~tokens[c].stored
    BY <2>1 DEF Inv, DocsInv, KnownUsers
  <2> QED BY <1>5, <1>6, <2>1, <2>2 DEF SignsUp
<1>7. CASE Verifies(r)
  <2>1. ~tokens[code(r)].stored /\ code(r) \in Codes /\ verifying(r) \in Emails
    BY <1>1, <1>7 DEF Verifies, Stands
  <2>2. \A c \in Codes : tokens[c].user = verifying(r) => c = code(r)
    BY <2>1, NoneAssumption DEF CodesInv, verifying
  <2> QED BY <1>5, <1>7, <2>1, <2>2 DEF Verifies
<1>8. ASSUME NEW status, Tells1(r, status), call[r].kind \in Buyers
      PROVE  CodesInv'
  <2>1. email(r) \in Emails /\ users[email(r)].status \in {"PENDING", "PAID"}
    BY <1>1, <1>8 DEF Stands, Tells1, Buyers
  <2>2. \A c \in Codes : tokens[c].user = email(r) => ~tokens[c].stored
    BY <2>1 DEF CodesInv, Fresh
  <2> QED BY <1>5, <1>8, <2>1, <2>2 DEF Tells1
<1>9. UNCHANGED tokens \/ MailsCode(r) \/ UsesCode(r)
  BY DEF Does, Reads, SignsUp, GetsCart, Verifies, Sells, Tells1, Opens, Links
<1> QED
  BY <1>2, <1>3, <1>4, <1>6, <1>7, <1>8
     DEF Does, Reads, GetsCart, Sells, Opens, Links, Buyers

LEMMA StandsStep ==
  ASSUME Inv, CodesInv, NEW r \in Requests, Stands(r), Frame(r), Does(r)
  PROVE  Stands(r)'
<1> SUFFICES ASSUME pc'[r] # "idle" PROVE Stands(r)'
  BY DEF Stands, Working
<1>1. /\ Working(r) /\ load' = load /\ call'[r] = call[r]
      /\ me(r)' = me(r) /\ email(r)' = email(r) /\ code(r)' = code(r)
  BY DEF Frame, me, email, code
<1>2. CASE SignsUp(r)
  <2>1. \A c \in Codes : tokens[c].user # email(r)
    BY <1>2, NoneAssumption DEF SignsUp, Inv, DocsInv, KnownUsers
  <2> QED BY <1>1, <1>2, <2>1 DEF SignsUp, Stands, Fresh, Buyers, email
<1>3. ASSUME UNCHANGED users, pc'[r] # "token",
             pc'[r] = "check" => tokens'[code(r)].stored,
             pc'[r] \in {"cart", "update"} =>
               ~tokens'[code(r)].stored /\ tokens'[code(r)].user = verifying(r) /\ Fresh(verifying(r)),
             call[r].kind = "PACKAGE" /\ pc'[r] \in {"create", "owner"} => me(r).status = "PENDING",
             call[r].kind = "ENTITY" /\ pc'[r] \in Opening \union {"owner"} => me(r).status = "PAID"
      PROVE  Stands(r)'
  BY <1>1, <1>3 DEF Stands, Fresh, Buyers, email, me, code, verifying, Working
<1>4. CASE Reads(r)
  BY <1>3, <1>4, NoneAssumption DEF Reads, Seen, Opening
<1>5. CASE UsesCode(r)
  <2>1. tokens[code(r)].stored /\ code(r) \in Codes
    BY <1>1, <1>5 DEF UsesCode, Stands
  <2>2. Fresh(verifying(r)) /\ tokens'[code(r)].user = verifying(r) /\ ~tokens'[code(r)].stored
    BY <1>5, <2>1 DEF CodesInv, UsesCode, verifying
  <2> QED BY <1>3, <1>5, <2>2 DEF UsesCode, Verifiers, Opening
<1>6. CASE GetsCart(r)
  BY <1>1, <1>3, <1>6 DEF GetsCart, Verifiers, Opening, Stands, verifying
<1>7. CASE Sells(r)
  BY <1>1, <1>3, <1>7 DEF Sells, Opening, Stands
<1>8. CASE Opens(r) \/ Links(r)
  BY <1>1, <1>3, <1>8 DEF Opens, Links, Opening, Stands
<1> QED BY <1>2, <1>4, <1>5, <1>6, <1>7, <1>8 DEF Does, MailsCode, Verifies, Tells1

\* A code that expires stays whose it is, and stored.
LEMMA ExpiryKeeps ==
  ASSUME Inv, NEW c \in Codes, TokenExpires(c)
  PROVE  \A d \in Codes : tokens'[d].user = tokens[d].user /\ tokens'[d].stored = tokens[d].stored
<1>1. tokens' = [tokens EXCEPT ![c].valid = FALSE] /\ tokens \in [Codes -> TokenType]
  BY DEF TokenExpires, Inv, TypeInv, TypeOK
<1>2. \A t \in TokenType : /\ [t EXCEPT !.valid = FALSE].user = t.user
                           /\ [t EXCEPT !.valid = FALSE].stored = t.stored
  BY DEF TokenType
<1>3. tokens'[c] = [tokens[c] EXCEPT !.valid = FALSE] /\ \A d \in Codes : d # c => tokens'[d] = tokens[d]
  BY <1>1
<1> QED BY <1>1, <1>2, <1>3

LEMMA SerialNext ==
  ASSUME Inv, SerialInv, [Next]_vars
  PROVE  SerialInv'
<1> SUFFICES ASSUME Serial', OneCodeEach' PROVE (Alone /\ CodesInv /\ \A r \in Requests : Stands(r))'
  BY DEF SerialInv
<1>1. CASE UNCHANGED vars
  BY <1>1 DEF SerialInv, Serial, OneCodeEach, Alone, Working, CodesInv, Fresh, Stands, vars, docs,
              email, code, me, verifying
<1>2. Serial /\ OneCodeEach /\ load' = load
  <2>1. load' = load
    BY <1>1 DEF Next, Arrive, Handler, TokenExpires, ProcessExit, vars, Goto, Answer, Move, Fail,
       SignUpFind, SignUpCreate, MailFind, CreateToken, FindToken, RemoveToken, CreateCart,
       VerifyUser, SavePassword, PackageFind, CreatePackage, PackageUpdateOwner, EntityFind,
       CreateDocument, CreateEntity, LinkGuest, EntityUpdateOwner
  <2> QED BY <2>1 DEF Serial, OneCodeEach
<1>3. Alone /\ CodesInv /\ \A r \in Requests : Stands(r)
  BY <1>2 DEF SerialInv
<1>4. ASSUME NEW r \in Requests, Arrive(r)
      PROVE  (Alone /\ CodesInv /\ \A o \in Requests : Stands(o))'
  <2> DEFINE W == {o \in Requests : Working(o)}
  <2>1. Cardinality(W) < 1
    BY <1>2, <1>4 DEF Arrive, Serial
  <2>2. ASSUME NEW o \in W PROVE FALSE
    <3>1. W = {o}
      BY <1>3 DEF Alone
    <3> QED BY <2>1, <3>1, FS_Singleton
  <2>3. /\ UNCHANGED docs /\ pc'[r] = "find"
        /\ \A o \in Requests \ {r} : pc'[o] = "idle"
    BY <1>4, <2>2 DEF Arrive, Working, Inv, TypeInv, TypeOK
  <2>4. Alone' /\ CodesInv'
    BY <1>2, <1>3, <2>3, CodesKept DEF Alone, Working, docs
  <2>5. PICK dto \in Dtos :
          /\ dto.kind \in load.kinds
          /\ dto.kind \in {"PACKAGE", "ENTITY"} => users[dto.email].type = "BUSINESS"
          /\ call' = [call EXCEPT ![r] =
               [kind |-> dto.kind, dto |-> dto,
                user |-> IF dto.kind \in {"PACKAGE", "ENTITY"} THEN users[dto.email] ELSE NoUser]]
    BY <1>4 DEF Arrive
  <2>6. /\ call'[r].kind = dto.kind /\ call'[r].dto = dto
        /\ dto.kind \in Buyers => call'[r].user = users[dto.email]
    BY <2>5 DEF Inv, TypeInv, TypeOK, Buyers
  <2>7. Stands(r)'
    BY <1>2, <2>3, <2>5, <2>6 DEF Stands, Buyers, Opening, me, email, docs
  <2> QED BY <2>3, <2>4, <2>7 DEF Stands, Working
<1>5. ASSUME NEW r \in Requests, Handler(r)
      PROVE  (Alone /\ CodesInv /\ \A o \in Requests : Stands(o))'
  <2>1. Frame(r) /\ Does(r) /\ Stands(r)
    BY <1>2, <1>3, <1>5, HandlerDoes
  <2>2. \A o \in Requests \ {r} : ~Working(o)'
    BY <1>3, <2>1 DEF Alone, Frame, Working
  <2>3. Alone' /\ \A o \in Requests \ {r} : Stands(o)'
    BY <2>2 DEF Alone, Stands
  <2> QED BY <1>3, <2>1, <2>3, CodesStep, StandsStep
<1>6. ASSUME NEW c \in Codes, TokenExpires(c)
      PROVE  (Alone /\ CodesInv /\ \A o \in Requests : Stands(o))'
  <2>1. /\ UNCHANGED <<load, users, carts, packages, documents, entities, pc, call, lost>>
        /\ \A d \in Codes : tokens'[d].user = tokens[d].user /\ tokens'[d].stored = tokens[d].stored
    BY <1>6, ExpiryKeeps DEF TokenExpires
  <2>2. Alone' /\ CodesInv'
    BY <1>3, <2>1, CodesKept DEF Alone, Working
  <2>3. ASSUME NEW o \in Requests PROVE Stands(o)'
    <3>1. Stands(o)
      BY <1>3
    <3>2. Working(o) /\ call[o].kind \in Verifiers => code(o) \in Codes
      BY CallFields DEF Inv
    <3>3. pc[o] \in {"check", "cart", "update"} => call[o].kind \in Verifiers /\ Working(o)
      BY DEF Inv, Backed, Working
    <3> QED BY <2>1, <3>1, <3>2, <3>3 DEF Stands, Working, Fresh, email, code, me, verifying
  <2> QED BY <2>2, <2>3
<1>7. CASE ProcessExit
  <2>1. UNCHANGED <<load, docs>> /\ \A o \in Requests : pc'[o] = "idle"
    BY <1>7 DEF ProcessExit
  <2> QED BY <1>3, <2>1, CodesKept DEF Alone, Stands, Working, docs
<1> QED BY <1>1, <1>4, <1>5, <1>6, <1>7 DEF Next

LEMMA SerialInvariant == Spec => [](Inv /\ SerialInv)
<1>1. Init => SerialInv
  BY DEF Init, SerialInv, Alone, CodesInv, Stands, Working
<1>2. Inv /\ SerialInv /\ [Next]_vars => (Inv /\ SerialInv)'
  BY InvStep, SerialNext
<1> QED BY <1>1, <1>2, InvInit, PTL DEF Spec

\* A user nothing is written of is told what was told.
LEMMA TellsSame ==
  ASSUME NEW e \in Emails, Tells(e), users'[e] = users[e], packages'[e] = packages[e],
         Owned(e)' = Owned(e)
  PROVE  Tells(e)'
BY DEF Tells

LEMMA HandlerTells ==
  ASSUME Inv, Alone, NEW r \in Requests, Stands(r), Frame(r), Does(r),
         UnverifiedBuyNothing, OthersTell, Ahead(r)
  PROVE  (UnverifiedBuyNothing /\ OthersTell /\ \A o \in Requests : Ahead(o))'
<1> DEFINE Busy(o) == Selling(o) \/ Linking(o)
           Mine == Busy(r)
<1>1. \A o \in Requests \ {r} : ~Working(o) /\ ~Working(o)'
  BY DEF Frame, Alone, Working
<1>2. \A o \in Requests \ {r} : ~Busy(o) /\ ~Busy(o)' /\ Ahead(o)'
  BY <1>1 DEF Working, Selling, Linking, Ahead
<1>3. ASSUME NEW e \in Emails, users[e].type = "BUSINESS", Mine => email(r) # e
      PROVE  Tells(e)
  BY <1>2, <1>3 DEF OthersTell
<1>4. SUFFICES /\ UnverifiedBuyNothing' /\ Ahead(r)'
               /\ \A e \in Emails : (users[e].type = "BUSINESS" /\ (Busy(r) => email(r) # e))' => Tells(e)'
  BY <1>2 DEF OthersTell
<1>5. packages \in [Emails -> Nat] /\ users \in [Emails -> UserType]
  BY DEF Inv, TypeInv, TypeOK
<1>6. \A e \in Emails : packages[e] = 0 => Owned(e) = {}
  BY <1>5 DEF Inv, DocsInv, StatusHasDocuments
<1>7. Working(r) /\ (pc'[r] # "idle" => call'[r] = call[r] /\ email(r)' = email(r))
  BY DEF Frame, email
<1>8. ASSUME \A e \in Emails : Owned(e)' = Owned(e), UNCHANGED <<users, packages>>, ~Mine, ~Busy(r)',
             ~(pc'[r] = "create" /\ call[r].kind = "PACKAGE") \/ packages[email(r)] = 0
      PROVE  UnverifiedBuyNothing' /\ Ahead(r)' /\ \A e \in Emails : users'[e].type = "BUSINESS" => Tells(e)'
  <2>1. \A e \in Emails : users'[e].type = "BUSINESS" => Tells(e)'
    BY <1>3, <1>8, TellsSame
  <2>2. UnverifiedBuyNothing'
    BY <1>8 DEF UnverifiedBuyNothing
  <2>3. Ahead(r)'
    BY <1>7, <1>8 DEF Ahead, email
  <2> QED BY <2>1, <2>2, <2>3
<1>9. ~Mine => pc[r] # "link" /\ (pc[r] = "owner" => call[r].kind \notin Buyers)
  BY DEF Selling, Linking, Buyers
<1>10. CASE Reads(r) \/ MailsCode(r) \/ UsesCode(r) \/ GetsCart(r)
  <2>1. /\ UNCHANGED <<users, packages, entities>> /\ pc'[r] \notin {"owner", "link"} /\ ~Mine
        /\ ~(pc'[r] = "create" /\ call[r].kind = "PACKAGE") \/ packages[email(r)] = 0
    BY <1>10 DEF Reads, Seen, MailsCode, UsesCode, GetsCart, Selling, Linking
  <2>2. ~Busy(r)' /\ \A e \in Emails : Owned(e)' = Owned(e)
    BY <2>1 DEF Selling, Linking, Owned
  <2> QED BY <1>8, <2>1, <2>2
\* Steps that write one user e.
<1>11. ASSUME NEW e \in Emails, UNCHANGED <<packages, entities>>,
              \A d \in Emails : d # e => users'[d] = users[d],
              Mine => email(r) = e, pc'[r] \notin {"create", "owner", "link"},
              Tells(e)', ~users'[e].verified => packages[e] = 0
       PROVE  UnverifiedBuyNothing' /\ Ahead(r)' /\ \A d \in Emails : users'[d].type = "BUSINESS" => Tells(d)'
  <2>1. ASSUME NEW d \in Emails, d # e, users'[d].type = "BUSINESS" PROVE Tells(d)'
    BY <1>3, <1>11, <2>1, TellsSame DEF Owned
  <2>2. UnverifiedBuyNothing'
    BY <1>11 DEF UnverifiedBuyNothing
  <2>3. Ahead(r)'
    BY <1>11 DEF Ahead, Selling, Linking
  <2> QED BY <1>11, <2>1, <2>2, <2>3
<1>12. CASE SignsUp(r)
  <2>1. email(r) \in Emails /\ users[email(r)] = NoUser
    BY <1>12 DEF SignsUp, Inv, DocsInv, KnownUsers
  <2>2. packages[email(r)] = 0
    BY <2>1 DEF UnverifiedBuyNothing, NoUser
  <2>3. ~Mine
    BY <1>12 DEF SignsUp, Selling, Linking, Inv, TypeInv, Opening
  <2>4. PICK e \in Emails : e = email(r)
    BY <2>1
  <2>5. Tells(e)'
    BY <1>12, <2>4 DEF SignsUp, Tells
  <2>6. \A d \in Emails : d # e => users'[d] = users[d]
    BY <1>12, <2>4 DEF SignsUp
  <2>7. packages[e] = 0 /\ UNCHANGED <<packages, entities>> /\ pc'[r] = "token"
    BY <1>12, <2>2, <2>4 DEF SignsUp
  <2> QED BY <1>11, <2>3, <2>5, <2>6, <2>7
<1>13. CASE Verifies(r)
  <2>1. PICK e \in Emails : e = verifying(r)
    BY <1>13 DEF Verifies
  <2>2. /\ Fresh(e) /\ pc[r] = "update" /\ pc'[r] = "idle" /\ UNCHANGED <<packages, entities>>
        /\ users'[e].verified /\ users'[e].type = users[e].type
        /\ users[e].type = "BUSINESS" => users'[e].status = "PENDING"
        /\ \A d \in Emails : d # e => users'[d] = users[d]
    BY <1>7, <1>13, <2>1 DEF Verifies, Stands
  <2>3. ~Mine /\ packages[e] = 0 /\ packages'[e] = 0
    BY <2>2 DEF Selling, Linking, UnverifiedBuyNothing, Fresh
  <2>4. users'[e].type = "BUSINESS" => Tells(e)'
    BY <2>2, <2>3 DEF Tells
  <2>5. UnverifiedBuyNothing' /\ Ahead(r)'
    BY <2>2 DEF UnverifiedBuyNothing, Ahead, Selling, Linking
  <2>6. ASSUME NEW d \in Emails, d # e, users'[d].type = "BUSINESS" PROVE Tells(d)'
    BY <1>3, <2>2, <2>3, <2>6, TellsSame DEF Owned
  <2> QED BY <2>4, <2>5, <2>6
<1>14. ASSUME NEW status, Tells1(r, status), call[r].kind \in Buyers,
              status = IF call[r].kind = "PACKAGE" THEN "PAID" ELSE "COMPLETED"
       PROVE  UnverifiedBuyNothing' /\ Ahead(r)' /\ \A d \in Emails : users'[d].type = "BUSINESS" => Tells(d)'
  <2>1. PICK e \in Emails : e = email(r)
    BY <1>14 DEF Tells1
  <2>2. /\ Mine /\ pc'[r] = "idle" /\ UNCHANGED <<packages, entities>>
        /\ users'[e].verified = users[e].verified /\ users'[e].status = status
        /\ \A d \in Emails : d # e => users'[d] = users[d]
    BY <1>14, <2>1 DEF Tells1, Selling, Linking, Buyers
  <2>3. /\ users[e].verified /\ packages[e] > 0
        /\ status = IF Owned(e) = {} THEN "PAID" ELSE "COMPLETED"
    BY <1>14, <2>1, <2>2 DEF Ahead, Selling, Linking, Tells1, Buyers
  <2>4. Tells(e)'
    <3>1. Owned(e)' = Owned(e) /\ packages'[e] # 0
      BY <1>5, <2>2, <2>3 DEF Owned
    <3> QED BY <2>2, <2>3, <3>1 DEF Tells
  <2> QED BY <1>11, <2>1, <2>2, <2>3, <2>4
\* Steps that write no user.
<1>15. ASSUME NEW e \in Emails, e = email(r), UNCHANGED users, ~Mine, Busy(r)', pc'[r] # "idle",
              \A d \in Emails : d # e => packages'[d] = packages[d] /\ Owned(d)' = Owned(d),
              users[e].verified
       PROVE  UnverifiedBuyNothing' /\ \A d \in Emails : (users[d].type = "BUSINESS" /\ (Busy(r) => email(r) # d))' => Tells(d)'
  <2>1. UnverifiedBuyNothing'
    BY <1>15 DEF UnverifiedBuyNothing
  <2>2. ASSUME NEW d \in Emails, users'[d].type = "BUSINESS", email(r)' # d PROVE Tells(d)'
    BY <1>3, <1>7, <1>15, <2>2, TellsSame
  <2> QED BY <1>15, <2>1, <2>2
<1>16. CASE Sells(r)
  <2>1. PICK e \in Emails : e = email(r)
    BY <1>16 DEF Sells
  <2>2. /\ call[r].kind = "PACKAGE" /\ pc[r] = "create" /\ pc'[r] = "owner" /\ packages'[e] > 0
        /\ \A d \in Emails : d # e => packages'[d] = packages[d]
        /\ UNCHANGED <<users, entities>>
    BY <1>16, <2>1 DEF Sells
  <2>3. ~Mine /\ Busy(r)' /\ call'[r] = call[r] /\ email(r)' = e
    BY <1>7, <2>1, <2>2 DEF Selling, Linking
  <2>4. users[e].status = "PENDING" /\ users[e].type = "BUSINESS" /\ packages[e] = 0
    BY <1>7, <2>1, <2>2 DEF Stands, Buyers, Ahead
  <2>5. users[e].verified /\ Owned(e) = {}
    BY <1>3, <1>6, <2>3, <2>4 DEF Tells
  <2>6. Ahead(r)'
    BY <2>2, <2>3, <2>5 DEF Ahead, Selling, Linking, Owned
  <2> QED BY <1>15, <2>1, <2>2, <2>3, <2>5, <2>6 DEF Owned
<1>17. CASE Opens(r)
  <2>1. PICK e \in Emails : e = email(r)
    BY <1>17 DEF Opens
  <2>2. /\ call[r].kind = "ENTITY" /\ pc[r] = "entity" /\ pc'[r] = "link"
        /\ Owned(email(r))' # {} /\ UNCHANGED <<users, packages>>
        /\ \A d \in Emails : d # e => Owned(d)' = Owned(d)
    BY <1>17, <2>1 DEF Opens
  <2>3. ~Mine /\ Busy(r)' /\ call'[r] = call[r] /\ email(r)' = e
    BY <1>7, <2>1, <2>2 DEF Selling, Linking
  <2>4. users[e].status = "PAID" /\ users[e].type = "BUSINESS"
    BY <1>7, <2>1, <2>2 DEF Stands, Buyers, Opening
  <2>5. users[e].verified /\ packages[e] # 0
    BY <1>3, <2>3, <2>4 DEF Tells
  <2>6. Ahead(r)'
    BY <1>5, <2>2, <2>3, <2>5 DEF Ahead, Selling, Linking
  <2> QED BY <1>15, <2>1, <2>2, <2>3, <2>5, <2>6
<1>18. CASE Links(r)
  <2>1. /\ Linking(r) /\ Linking(r)' /\ ~Selling(r)' /\ UNCHANGED <<users, packages>>
        /\ \A e \in Emails : Owned(e)' = Owned(e)
        /\ email(r)' = email(r) /\ email(r) \in Emails /\ pc'[r] = "owner" /\ call'[r].kind = "ENTITY"
    BY <1>7, <1>18 DEF Links, Linking, Selling
  <2>2. UnverifiedBuyNothing'
    BY <2>1 DEF UnverifiedBuyNothing
  <2>3. Ahead(r)'
    <3>1. PICK e \in Emails : e = email(r)
      BY <2>1
    <3>2. users'[e].verified /\ packages'[e] > 0 /\ Owned(e)' # {}
      BY <2>1, <3>1 DEF Ahead
    <3>3. Owned(email(r))' = Owned(e)'
      BY <2>1, <3>1 DEF Owned
    <3> QED BY <2>1, <3>1, <3>2, <3>3 DEF Ahead
  <2>4. ASSUME NEW d \in Emails, users'[d].type = "BUSINESS", email(r)' # d PROVE Tells(d)'
    BY <1>3, <2>1, <2>4, TellsSame
  <2> QED BY <2>1, <2>2, <2>3, <2>4
<1> QED BY <1>10, <1>12, <1>13, <1>14, <1>16, <1>17, <1>18 DEF Does, Buyers

LEMMA TellsNext ==
  ASSUME Inv, SerialInv, TellsInv, [Next]_vars
  PROVE  TellsInv'
<1> SUFFICES ASSUME Serial', OneCodeEach', ~lost'
             PROVE  (UnverifiedBuyNothing /\ OthersTell /\ \A o \in Requests : Ahead(o))'
  BY DEF TellsInv
<1>1. load' = load /\ (lost' = lost \/ lost' = TRUE)
  BY DEF Next, Arrive, Handler, TokenExpires, ProcessExit, vars, Goto, Answer, Move, Fail,
     SignUpFind, SignUpCreate, MailFind, CreateToken, FindToken, RemoveToken, CreateCart,
     VerifyUser, SavePassword, PackageFind, CreatePackage, PackageUpdateOwner, EntityFind,
     CreateDocument, CreateEntity, LinkGuest, EntityUpdateOwner
<1>2. Serial /\ OneCodeEach
  BY <1>1 DEF Serial, OneCodeEach
<1>3. ~lost
  <2>1. CASE lost' = TRUE
    BY <2>1
  <2>2. CASE lost' = lost
    BY <2>2
  <2> QED BY <1>1, <2>1, <2>2
<1>4. /\ Alone /\ \A o \in Requests : Stands(o)
      /\ UnverifiedBuyNothing /\ OthersTell /\ \A o \in Requests : Ahead(o)
  BY <1>2, <1>3 DEF SerialInv, TellsInv
<1>5. CASE UNCHANGED <<users, packages, entities, pc, call>>
  BY <1>4, <1>5 DEF UnverifiedBuyNothing, OthersTell, Ahead, Tells, Selling, Linking, Owned, email
<1>6. ASSUME NEW r \in Requests, Arrive(r)
      PROVE  (UnverifiedBuyNothing /\ OthersTell /\ \A o \in Requests : Ahead(o))'
  <2>1. /\ UNCHANGED <<users, packages, entities>> /\ pc[r] = "idle" /\ pc'[r] = "find"
        /\ \A o \in Requests \ {r} : pc'[o] = pc[o] /\ call'[o] = call[o]
    BY <1>6 DEF Arrive, docs, Inv, TypeInv, TypeOK
  <2>2. \A o \in Requests : /\ Selling(o)' <=> Selling(o)
                            /\ Linking(o)' <=> Linking(o)
                            /\ Selling(o) \/ Linking(o) => email(o)' = email(o)
    BY <2>1 DEF Selling, Linking, email
  <2>3. UnverifiedBuyNothing' /\ OthersTell'
    BY <1>4, <2>1, <2>2 DEF UnverifiedBuyNothing, OthersTell, Tells, Owned
  <2>4. ASSUME NEW o \in Requests PROVE Ahead(o)'
    BY <1>4, <2>1, <2>2 DEF Ahead, Owned, Selling, Linking, email
  <2> QED BY <2>3, <2>4
<1>7. ASSUME NEW r \in Requests, Handler(r)
      PROVE  (UnverifiedBuyNothing /\ OthersTell /\ \A o \in Requests : Ahead(o))'
  BY <1>2, <1>4, <1>7, HandlerDoes, HandlerTells
<1> QED
  BY <1>5, <1>6, <1>7 DEF Next, TokenExpires, ProcessExit, vars, docs

LEMMA TellsInvariant == Spec => [](Inv /\ SerialInv /\ TellsInv)
<1>1. Init => TellsInv
  BY DEF Init, TellsInv, UnverifiedBuyNothing, OthersTell, Ahead, Selling, Linking, Tells, NoUser
<1>2. Inv /\ SerialInv /\ TellsInv /\ [Next]_vars => (Inv /\ SerialInv /\ TellsInv)'
  BY InvStep, SerialNext, TellsNext
<1>3. Init => SerialInv
  BY DEF Init, SerialInv, Alone, CodesInv, Stands, Working
<1> QED BY <1>1, <1>2, <1>3, InvInit, PTL DEF Spec

\* One request at a time, however many users sign up, buy and open entities, an
\* owner's status says what the owner has whenever nothing is being served: there is
\* no status from which the next step is refused.
THEOREM StatusTells == Spec => []StatusTellsWhenSerial
<1>1. Inv /\ SerialInv /\ TellsInv => StatusTellsWhenSerial
  <2> SUFFICES ASSUME Inv, TellsInv, Serial, OneCodeEach, ~lost, \A r \in Requests : ~Working(r),
                      NEW e \in Emails, users[e].type = "BUSINESS"
               PROVE  users[e].status = CASE ~users[e].verified -> "INITIAL"
                          [] users[e].verified /\ packages[e] = 0 -> "PENDING"
                          [] packages[e] > 0 /\ Owned(e) = {} -> "PAID"
                          [] OTHER -> "COMPLETED"
    BY DEF StatusTellsWhenSerial
  <2>1. Tells(e) /\ (~users[e].verified => packages[e] = 0)
    BY DEF TellsInv, OthersTell, UnverifiedBuyNothing, Selling, Linking, Working
  <2>2. packages[e] \in Nat /\ users[e].verified \in BOOLEAN
    BY DEF Inv, TypeInv, TypeOK, UserType
  <2>3. CASE ~users[e].verified
    BY <2>1, <2>2, <2>3 DEF Tells
  <2>4. CASE users[e].verified /\ packages[e] = 0
    BY <2>1, <2>2, <2>4 DEF Tells
  <2>5. CASE users[e].verified /\ packages[e] > 0 /\ Owned(e) = {}
    BY <2>1, <2>2, <2>5 DEF Tells
  <2>6. CASE users[e].verified /\ packages[e] > 0 /\ Owned(e) # {}
    BY <2>1, <2>2, <2>6 DEF Tells
  <2> QED BY <2>2, <2>3, <2>4, <2>5, <2>6
<1> QED BY <1>1, TellsInvariant, PTL

\* One request at a time, no step takes an owner's status back: neither a second
\* mail nor a retry finds a user it would set back to PENDING.
THEOREM StatusAdvances == Spec => StatusAdvancesWhenSerial
<1> DEFINE Rule == (Serial /\ OneCodeEach) =>
             \A e \in Emails : Rank[users'[e].status] >= Rank[users[e].status]
<1>1. ASSUME Inv, SerialInv, [Next]_vars PROVE [Rule]_vars
  <2> SUFFICES ASSUME Serial, OneCodeEach, NEW e \in Emails
               PROVE  Rank[users'[e].status] >= Rank[users[e].status]
    OBVIOUS
  <2>1. \A status \in Statuses : Rank[status] \in 1..4
    BY DEF Statuses, Rank
  <2>2. users[e].status \in Statuses
    BY <1>1 DEF Inv, TypeInv, TypeOK, UserType
  <2>3. CASE users'[e] = users[e]
    BY <2>1, <2>2, <2>3
  <2>4. CASE users'[e] # users[e]
    <3>1. PICK r \in Requests : Handler(r)
      BY <1>1, <2>4 DEF Next, Arrive, TokenExpires, ProcessExit, vars, docs
    <3>2. Frame(r) /\ Does(r) /\ Stands(r) /\ Working(r)
      BY <1>1, <3>1, HandlerDoes DEF SerialInv, Frame
    <3>3. CASE SignsUp(r)
      <4>1. e = email(r) /\ users[e] = NoUser /\ users'[e].status = "INITIAL"
        BY <1>1, <2>4, <3>3 DEF SignsUp, Inv, DocsInv, KnownUsers
      <4> QED BY <2>1, <2>2, <4>1 DEF NoUser
    <3>4. CASE Verifies(r)
      <4>1. e = verifying(r) /\ users[e].status = "INITIAL" /\ users'[e].status \in {"PENDING", "INITIAL"}
        BY <2>4, <3>2, <3>4 DEF Verifies, Stands, Fresh
      <4> QED BY <4>1 DEF Rank
    <3>5. CASE call[r].kind = "PACKAGE" /\ Tells1(r, "PAID")
      <4>1. e = email(r) /\ users[e].status = "PENDING" /\ users'[e].status = "PAID"
        BY <2>4, <3>2, <3>5 DEF Tells1, Stands, Buyers
      <4> QED BY <4>1 DEF Rank
    <3>6. CASE call[r].kind = "ENTITY" /\ Tells1(r, "COMPLETED")
      <4>1. e = email(r) /\ users[e].status = "PAID" /\ users'[e].status = "COMPLETED"
        BY <2>4, <3>2, <3>6 DEF Tells1, Stands, Buyers
      <4> QED BY <4>1 DEF Rank
    <3> QED
      BY <2>4, <3>2, <3>3, <3>4, <3>5, <3>6
         DEF Does, Reads, MailsCode, UsesCode, GetsCart, Sells, Opens, Links
  <2> QED BY <2>3, <2>4
<1> QED BY <1>1, SerialInvariant, PTL DEF Spec, StatusAdvancesWhenSerial


-----------------------------------------------------------------------------
(* Carts and codes *)

\* The requests that will give e another cart for a code that is spent.
Carting(r, e) ==
  /\ call[r].kind = "VERIFY" /\ verifying(r) = e
  /\ pc[r] = "cart" \/ (pc[r] = "check" /\ ~tokens[code(r)].stored)
Pending(e) == {r \in Requests : Carting(r, e)}
AtWork == {r \in Requests : Working(r)}

Bounded(e) == carts[e] + Cardinality(Pending(e)) <= load.atOnce * Cardinality(Spent(e))
CartsInv == Cardinality(AtWork) <= load.atOnce /\ \A e \in Emails : Bounded(e)

LEMMA FiniteRequests ==
  ASSUME NEW S \in SUBSET Requests
  PROVE  /\ IsFiniteSet(S) /\ Cardinality(S) \in Nat
         /\ \A T \in SUBSET S : Cardinality(T) <= Cardinality(S)
BY RequestsAssumption, FS_Subset, FS_CardinalityType

LEMMA FiniteSpent ==
  ASSUME NEW e
  PROVE  IsFiniteSet(Spent(e)) /\ Cardinality(Spent(e)) \in Nat
<1>1. Spent(e) \subseteq Codes
  BY DEF Spent
<1> QED BY <1>1, RequestsAssumption, FS_Subset, FS_CardinalityType

LEMMA AtOnceType == TypeInv => load.atOnce \in Nat
BY LoadsAssumption DEF TypeInv, TypeOK, Load

LEMMA OneMoreTimes ==
  ASSUME NEW a \in Nat, NEW n \in Nat
  PROVE  a * (n + 1) = a * n + a /\ a * n \in Nat
OBVIOUS

\* A step that spends no code, and after which no more requests are about to give
\* a cart.
LEMMA NoMoreCarts ==
  ASSUME Inv, UNCHANGED load, NEW e \in Emails, Bounded(e), carts'[e] = carts[e],
         Spent(e)' = Spent(e), Pending(e)' \subseteq Pending(e)
  PROVE  Bounded(e)'
<1>1. Cardinality(Pending(e)') <= Cardinality(Pending(e))
  BY FiniteRequests DEF Pending
<1>2. Cardinality(Pending(e)') \in Nat /\ Cardinality(Pending(e)) \in Nat
  BY FiniteRequests DEF Pending
<1>3. carts[e] \in Nat /\ load.atOnce * Cardinality(Spent(e)) \in Nat
  BY FiniteSpent, AtOnceType, OneMoreTimes DEF Inv, TypeInv, TypeOK
<1> QED BY <1>1, <1>2, <1>3 DEF Bounded

\* Who was not, and is not, about to give a cart.
LEMMA PendingStays ==
  ASSUME NEW r \in Requests, NEW e \in Emails,
         \A q \in Requests \ {r} : Carting(q, e)' => Carting(q, e),
         Carting(r, e)' => Carting(r, e)
  PROVE  Pending(e)' \subseteq Pending(e)
BY DEF Pending

LEMMA HandlerFrame ==
  ASSUME Inv, NEW r \in Requests, Handler(r)
  PROVE  Frame(r)
<1>1. Working(r) /\ TypeInv
  BY DEF Inv, Handler, SignUpFind, SignUpCreate, MailFind, CreateToken, FindToken, RemoveToken,
     CreateCart, VerifyUser, SavePassword, PackageFind, CreatePackage, PackageUpdateOwner,
     EntityFind, CreateDocument, CreateEntity, LinkGuest, EntityUpdateOwner, Serves, Working, After
<1>2. CASE Answer(r)
  BY <1>1, <1>2, AnswerIsFrame
<1>3. CASE \E at \in Steps : Goto(r, at)
  BY <1>1, <1>3, GotoIsFrame
<1>4. CASE CreateDocument(r)
  <2>1. pc[r] \in {"warehouse", "customer", "guest"} /\ After[pc[r]] \in Steps
    BY <1>4 DEF CreateDocument, After, Steps
  <2> QED BY <1>2, <1>3, <1>4, <2>1 DEF CreateDocument, Fail
<1> QED
  BY <1>2, <1>3, <1>4 DEF Handler, SignUpFind, SignUpCreate, MailFind, CreateToken, FindToken,
     RemoveToken, CreateCart, VerifyUser, SavePassword, PackageFind, CreatePackage,
     PackageUpdateOwner, EntityFind, CreateEntity, LinkGuest, EntityUpdateOwner, Move, Fail, Steps

LEMMA HandlerAtWork ==
  ASSUME Inv, Cardinality(AtWork) <= load.atOnce, NEW r \in Requests, Frame(r)
  PROVE  Cardinality(AtWork)' <= load.atOnce'
<1>1. AtWork' \subseteq AtWork /\ load' = load
  BY DEF Frame, AtWork, Working
<1>2. /\ Cardinality(AtWork') <= Cardinality(AtWork)
      /\ Cardinality(AtWork') \in Nat /\ Cardinality(AtWork) \in Nat /\ load.atOnce \in Nat
  BY <1>1, FiniteRequests, AtOnceType DEF AtWork, Inv
<1> QED BY <1>1, <1>2

\* The handlers that neither mail nor spend a code, nor give a cart.
LEMMA OtherHandlers ==
  ASSUME Inv, NEW r \in Requests, Frame(r), UNCHANGED <<tokens, carts>>,
         pc'[r] # "cart", pc'[r] = "check" => tokens[code(r)].stored,
         NEW e \in Emails, Bounded(e)
  PROVE  Bounded(e)'
<1>1. \A q \in Requests \ {r} : Carting(q, e)' => Carting(q, e)
  BY DEF Frame, Carting, verifying, code
<1>2. ~Carting(r, e)'
  BY DEF Frame, Carting, code
<1>3. Spent(e)' = Spent(e) /\ load' = load
  BY DEF Spent, Frame
<1> QED BY <1>1, <1>2, <1>3, PendingStays, NoMoreCarts

LEMMA CheckingKnown ==
  ASSUME Inv, NEW q \in Requests, pc[q] \in {"check", "cart", "update"}
  PROVE  code(q) \in Codes /\ verifying(q) # None
BY CallFields DEF Inv, Backed, Working

LEMMA CreateTokenCarts ==
  ASSUME Inv, NEW r \in Requests, Frame(r), CreateToken(r), NEW e \in Emails, Bounded(e)
  PROVE  Bounded(e)'
<1>1. PICK c \in Codes :
        /\ tokens[c].user = None
        /\ tokens' = [tokens EXCEPT ![c] = [user |-> email(r), stored |-> TRUE, valid |-> TRUE]]
  BY DEF CreateToken
<1>2. /\ tokens'[c].stored /\ e # None
      /\ \A d \in Codes : d # c => tokens'[d] = tokens[d]
  BY <1>1, NoneAssumption DEF Inv, TypeInv, TypeOK
<1>3. Spent(e)' = Spent(e)
  BY <1>1, <1>2 DEF Spent
<1>4. pc'[r] = "idle" /\ carts' = carts /\ load' = load
  BY DEF CreateToken, Answer, Inv, TypeInv, TypeOK
<1>5. ASSUME NEW q \in Requests \ {r}, Carting(q, e)' PROVE Carting(q, e)
  <2>1. pc'[q] = pc[q] /\ call'[q] = call[q] /\ pc[q] \in {"check", "cart"}
    BY <1>5 DEF Frame, Carting
  <2>2. code(q) \in Codes /\ code(q) # c
    BY <1>1, <2>1, CheckingKnown DEF verifying
  <2> QED BY <1>2, <1>5, <2>1, <2>2 DEF Carting, code, verifying
<1>6. ~Carting(r, e)'
  BY <1>4 DEF Carting
<1> QED BY <1>3, <1>4, <1>5, <1>6, PendingStays, NoMoreCarts

LEMMA CreateCartCarts ==
  ASSUME Inv, NEW r \in Requests, Frame(r), CreateCart(r), NEW e \in Emails, Bounded(e)
  PROVE  Bounded(e)'
<1>1. /\ pc[r] = "cart" /\ call[r].kind = "VERIFY" /\ pc'[r] = "update" /\ UNCHANGED <<load, tokens>>
      /\ carts' = [carts EXCEPT ![verifying(r)] = carts[verifying(r)] + 1]
  BY DEF CreateCart, Serves, Goto, Inv, TypeInv, TypeOK
<1>2. Spent(e)' = Spent(e)
  BY <1>1 DEF Spent
<1>3. \A q \in Requests \ {r} : Carting(q, e)' => Carting(q, e)
  BY <1>1 DEF Frame, Carting, verifying, code
<1>4. ~Carting(r, e)'
  BY <1>1 DEF Carting
<1>5. CASE e # verifying(r)
  <2>1. carts'[e] = carts[e]
    BY <1>1, <1>5 DEF Inv, TypeInv, TypeOK
  <2> QED BY <1>1, <1>2, <1>3, <1>4, <2>1, PendingStays, NoMoreCarts
<1>6. CASE e = verifying(r)
  <2>1. r \in Pending(e) /\ Pending(e)' \subseteq Pending(e) \ {r}
    BY <1>1, <1>3, <1>4, <1>6 DEF Pending, Carting
  <2>2. /\ Pending(e) \subseteq Requests
        /\ Cardinality(Pending(e) \ {r}) = Cardinality(Pending(e)) - 1
    BY <2>1, FiniteRequests, FS_RemoveElement DEF Pending
  <2>3. Cardinality(Pending(e)') <= Cardinality(Pending(e) \ {r})
    BY <2>1, <2>2, FiniteRequests
  <2>4. /\ Cardinality(Pending(e)') \in Nat /\ Cardinality(Pending(e)) \in Nat
    BY FiniteRequests DEF Pending
  <2>5. carts'[e] = carts[e] + 1 /\ carts[e] \in Nat
    BY <1>1, <1>6 DEF Inv, TypeInv, TypeOK
  <2>6. load.atOnce * Cardinality(Spent(e)) \in Nat
    BY FiniteSpent, AtOnceType, OneMoreTimes DEF Inv
  <2> QED BY <1>1, <1>2, <2>2, <2>3, <2>4, <2>5, <2>6 DEF Bounded
<1> QED BY <1>5, <1>6

LEMMA RemoveTokenCarts ==
  ASSUME Inv, Cardinality(AtWork) <= load.atOnce,
         NEW r \in Requests, Frame(r), RemoveToken(r), NEW e \in Emails, Bounded(e)
  PROVE  Bounded(e)'
<1>1. /\ pc[r] = "check" /\ call[r].kind \in Verifiers /\ UNCHANGED <<load, carts>>
      /\ tokens' = [tokens EXCEPT ![code(r)].stored = FALSE]
      /\ pc'[r] \in {"cart", "update", "save", "idle"}
      /\ pc'[r] = "cart" => call[r].kind = "VERIFY"
  BY DEF RemoveToken, Serves, Goto, Answer, Verifiers, Inv, TypeInv, TypeOK
<1>2. PICK c \in Codes : c = code(r)
  BY <1>1, CheckingKnown
<1>3. /\ tokens'[c].user = tokens[c].user /\ ~tokens'[c].stored
      /\ \A d \in Codes : d # c => tokens'[d] = tokens[d]
  <2>1. tokens \in [Codes -> TokenType]
    BY DEF Inv, TypeInv, TypeOK
  <2>2. \A t \in TokenType : /\ [t EXCEPT !.stored = FALSE].user = t.user
                             /\ ~[t EXCEPT !.stored = FALSE].stored
    BY DEF TokenType
  <2>3. /\ tokens'[c] = [tokens[c] EXCEPT !.stored = FALSE]
        /\ \A d \in Codes : d # c => tokens'[d] = tokens[d]
    BY <1>1, <1>2, <2>1
  <2> QED BY <2>1, <2>2, <2>3
<1>4. \A q \in Requests : pc[q] = "check" /\ code(q) = c => verifying(q) = tokens[c].user
  BY DEF verifying
<1>5. ASSUME NEW q \in Requests, Carting(q, e)'
      PROVE  Carting(q, e) \/ (tokens[c].user = e /\ tokens[c].stored /\ pc[q] = "check")
  <2>1. /\ call'[q] = call[q] /\ pc[q] \in {"check", "cart"} /\ call[q].kind = "VERIFY"
        /\ pc'[q] = "cart" => pc[q] = "cart" \/ (q = r /\ code(q) = c)
        /\ pc'[q] = "check" => pc[q] = "check"
    BY <1>1, <1>2, <1>5 DEF Frame, Carting
  <2>2. code(q) \in Codes /\ code(q)' = code(q)
    BY <2>1, CheckingKnown DEF code
  <2>3. verifying(q)' = verifying(q)
    BY <1>3, <2>2 DEF verifying
  <2> QED BY <1>3, <1>5, <2>1, <2>2, <2>3 DEF Carting, verifying
<1>6. CASE ~(tokens[c].user = e /\ tokens[c].stored)
  <2>1. Spent(e)' = Spent(e)
    BY <1>3, <1>6 DEF Spent
  <2>2. Pending(e)' \subseteq Pending(e)
    BY <1>5, <1>6 DEF Pending
  <2> QED BY <1>1, <2>1, <2>2, NoMoreCarts
<1>7. CASE tokens[c].user = e /\ tokens[c].stored
  <2>1. Spent(e)' = Spent(e) \union {c} /\ c \notin Spent(e)
    BY <1>3, <1>7 DEF Spent
  <2>2. Cardinality(Spent(e)') = Cardinality(Spent(e)) + 1
    BY <2>1, FiniteSpent, FS_AddElement
  <2>3. Pending(e)' \subseteq Pending(e) \union AtWork
    BY <1>5 DEF Pending, AtWork, Working
  <2>4. /\ Pending(e) \subseteq Requests /\ AtWork \subseteq Requests
        /\ Pending(e) \union AtWork \subseteq Requests /\ Pending(e) \intersect AtWork \subseteq Requests
    BY DEF Pending, AtWork
  <2>5. Cardinality(Pending(e)') <= Cardinality(Pending(e) \union AtWork)
    BY <2>3, <2>4, FiniteRequests
  <2>6. Cardinality(Pending(e) \union AtWork) =
          Cardinality(Pending(e)) + Cardinality(AtWork) - Cardinality(Pending(e) \intersect AtWork)
    BY <2>4, FiniteRequests, FS_Union
  <2>7. /\ Cardinality(Pending(e) \union AtWork) \in Nat /\ Cardinality(AtWork) \in Nat
        /\ Cardinality(Pending(e)) \in Nat /\ Cardinality(Pending(e) \intersect AtWork) \in Nat
    BY <2>4, FiniteRequests
  <2>8. Cardinality(Pending(e)') \in Nat
    BY FiniteRequests DEF Pending
  <2> DEFINE n == Cardinality(Spent(e))
             a == load.atOnce
  <2>9. n \in Nat /\ a \in Nat /\ carts[e] \in Nat
    BY FiniteSpent, AtOnceType DEF Inv, TypeInv, TypeOK
  <2> HIDE DEF n, a
  <2>10. a * (n + 1) = a * n + a /\ a * n \in Nat
    BY <2>9, OneMoreTimes
  <2>11. carts[e] + Cardinality(Pending(e)') <= a * (n + 1)
    <3>1. Cardinality(Pending(e)') <= Cardinality(Pending(e)) + a
      BY <2>5, <2>6, <2>7, <2>8, <2>9 DEF a
    <3>2. carts[e] + Cardinality(Pending(e)) <= a * n
      BY DEF Bounded, a, n
    <3> QED BY <2>7, <2>8, <2>9, <2>10, <3>1, <3>2
  <2> QED BY <1>1, <2>2, <2>11 DEF Bounded, a, n
<1> QED BY <1>6, <1>7

LEMMA CartsStep ==
  ASSUME Inv, CartsInv, [Next]_vars
  PROVE  CartsInv'
<1>1. CASE UNCHANGED vars
  BY <1>1 DEF CartsInv, Bounded, Pending, Carting, AtWork, Working, Spent, vars, docs, verifying, code
<1>2. ASSUME NEW r \in Requests, Handler(r) PROVE CartsInv'
  <2>1. Frame(r) /\ Cardinality(AtWork)' <= load.atOnce'
    BY <1>2, HandlerFrame, HandlerAtWork DEF CartsInv
  <2> SUFFICES ASSUME NEW e \in Emails PROVE Bounded(e)'
    BY <2>1 DEF CartsInv
  <2>2. Bounded(e) /\ Cardinality(AtWork) <= load.atOnce
    BY DEF CartsInv
  <2>3. CASE CreateToken(r) \/ CreateCart(r) \/ RemoveToken(r)
    BY <2>1, <2>2, <2>3, CreateTokenCarts, CreateCartCarts, RemoveTokenCarts
  <2>4. CASE ~(CreateToken(r) \/ CreateCart(r) \/ RemoveToken(r))
    <3>1. UNCHANGED <<tokens, carts>>
      BY <1>2, <2>4 DEF Handler, SignUpFind, SignUpCreate, MailFind, FindToken, VerifyUser,
         SavePassword, PackageFind, CreatePackage, PackageUpdateOwner, EntityFind, CreateDocument,
         CreateEntity, LinkGuest, EntityUpdateOwner, Move, Fail, docs
    <3>2. pc'[r] # "cart" /\ (pc'[r] = "check" => tokens[code(r)].stored)
      BY <1>2, <2>4 DEF Handler, SignUpFind, SignUpCreate, MailFind, FindToken, VerifyUser,
         SavePassword, PackageFind, CreatePackage, PackageUpdateOwner, EntityFind, CreateDocument,
         CreateEntity, LinkGuest, EntityUpdateOwner, Move, Fail, Goto, Answer, After,
         Inv, TypeInv, TypeOK
    <3> QED BY <2>1, <2>2, <3>1, <3>2, OtherHandlers
  <2> QED BY <2>3, <2>4
<1>3. ASSUME NEW r \in Requests, Arrive(r) PROVE CartsInv'
  <2>1. /\ UNCHANGED <<load, docs>> /\ pc[r] = "idle" /\ pc'[r] = "find"
        /\ Cardinality(AtWork) < load.atOnce
        /\ \A o \in Requests \ {r} : pc'[o] = pc[o] /\ call'[o] = call[o]
    BY <1>3 DEF Arrive, AtWork, Inv, TypeInv, TypeOK
  <2>2. AtWork' = AtWork \union {r} /\ AtWork \subseteq Requests
    BY <2>1 DEF AtWork, Working
  <2>3. Cardinality(AtWork') <= Cardinality(AtWork) + 1
    BY <2>2, FiniteRequests, FS_AddElement
  <2>4. Cardinality(AtWork)' <= load.atOnce'
    BY <2>1, <2>2, <2>3, FiniteRequests, AtOnceType DEF Inv
  <2>5. ASSUME NEW e \in Emails PROVE Bounded(e)'
    <3>1. Spent(e)' = Spent(e) /\ carts'[e] = carts[e]
      BY <2>1 DEF Spent, docs
    <3>2. Pending(e)' \subseteq Pending(e)
      BY <2>1 DEF Pending, Carting, verifying, code, docs
    <3> QED BY <2>1, <3>1, <3>2, NoMoreCarts DEF CartsInv
  <2> QED BY <2>4, <2>5 DEF CartsInv
<1>4. ASSUME NEW c \in Codes, TokenExpires(c) PROVE CartsInv'
  <2>1. /\ UNCHANGED <<load, carts, pc, call>>
        /\ \A d \in Codes : tokens'[d].user = tokens[d].user /\ tokens'[d].stored = tokens[d].stored
    BY <1>4, ExpiryKeeps DEF TokenExpires
  <2>2. ASSUME NEW e \in Emails PROVE Bounded(e)'
    <3>1. Spent(e)' = Spent(e)
      BY <2>1 DEF Spent
    <3>2. Pending(e)' \subseteq Pending(e)
      BY <2>1, CheckingKnown DEF Pending, Carting, verifying, code
    <3> QED BY <2>1, <3>1, <3>2, NoMoreCarts DEF CartsInv
  <2> QED BY <2>1, <2>2 DEF CartsInv, AtWork, Working
<1>5. CASE ProcessExit
  <2>1. UNCHANGED <<load, docs>> /\ \A o \in Requests : pc'[o] = "idle"
    BY <1>5 DEF ProcessExit
  <2>2. AtWork' \subseteq AtWork /\ AtWork \subseteq Requests
    BY <2>1 DEF AtWork, Working
  <2>3. Cardinality(AtWork)' <= load.atOnce'
    BY <2>1, <2>2, FiniteRequests, AtOnceType DEF CartsInv, Inv
  <2>4. ASSUME NEW e \in Emails PROVE Bounded(e)'
    <3>1. Spent(e)' = Spent(e) /\ carts'[e] = carts[e]
      BY <2>1 DEF Spent, docs
    <3>2. Pending(e)' \subseteq Pending(e)
      BY <2>1 DEF Pending, Carting
    <3> QED BY <2>1, <3>1, <3>2, NoMoreCarts DEF CartsInv
  <2> QED BY <2>3, <2>4 DEF CartsInv
<1> QED BY <1>1, <1>2, <1>3, <1>4, <1>5 DEF Next

\* However many requests use a code at once, and wherever they stop, a code brings
\* as many carts as there are requests at a time, at most.
THEOREM CartsAreCounted == Spec => []CartsPerCode
<1>1. Init => CartsInv
  <2> SUFFICES ASSUME Init PROVE CartsInv
    OBVIOUS
  <2>1. TypeInv
    BY TypeInit
  <2>2. AtWork = {} /\ Cardinality(AtWork) = 0
    BY FS_EmptySet DEF Init, AtWork, Working
  <2>3. ASSUME NEW e \in Emails PROVE Bounded(e)
    <3>1. Pending(e) = {} /\ Spent(e) = {} /\ carts[e] = 0
      BY NoneAssumption DEF Init, Pending, Carting, Spent
    <3> QED BY <2>1, <3>1, FS_EmptySet, AtOnceType DEF Bounded
  <2> QED BY <2>1, <2>2, <2>3, AtOnceType DEF CartsInv
<1>2. Inv /\ CartsInv => CartsPerCode
  <2> SUFFICES ASSUME Inv, CartsInv, NEW e \in Emails
               PROVE  carts[e] <= load.atOnce * Cardinality(Spent(e))
    BY DEF CartsPerCode
  <2>1. Cardinality(Pending(e)) \in Nat /\ carts[e] \in Nat
    BY FiniteRequests DEF Pending, Inv, TypeInv, TypeOK
  <2>2. load.atOnce * Cardinality(Spent(e)) \in Nat
    BY FiniteSpent, AtOnceType, OneMoreTimes DEF Inv
  <2> QED BY <2>1, <2>2 DEF CartsInv, Bounded
<1>3. Inv /\ CartsInv /\ [Next]_vars => (Inv /\ CartsInv)'
  BY InvStep, CartsStep
<1> QED BY <1>1, <1>2, <1>3, InvInit, PTL DEF Spec

=============================================================================
