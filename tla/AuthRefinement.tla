--------------------------- MODULE AuthRefinement ---------------------------
(***************************************************************************)
(* The token table implements RefreshCredential, for every value of the    *)
(* constants.  Each of the four kinds of steps of AuthCredentials maps to  *)
(* one action of RefreshCredential or to a stuttering step; that a string  *)
(* is fresh when it is issued is what CredentialInv is for.                *)
(***************************************************************************)
EXTENDS AuthCredentials

USE RequestsAssumption, NullAssumption, OwnerAssumption, BrowserAssumption

\* A login issues its string when its row does not exist yet.
LEMMA IssueFacts ==
  ASSUME TypeOK, CredentialInv, NEW r \in Logins, Issues(r)
  PROVE  /\ token[r] = Null /\ ~WasIssued(r) /\ r \in Value
         /\ TokensNamed(r) = {}
         /\ \E row \in TokenRow : /\ row # Null /\ row.token = r
                                  /\ token' = [token EXCEPT ![r] = row]
<1>1. ~WasIssued(r) /\ r \in Value
  BY DEF Issues, WasIssued, Answered, Value
<1> QED
  BY <1>1 DEF Issues, CredentialInv, Strings, Rows, TokensNamed

\* A rotation finds its row by the string and gives it one never issued.
LEMMA RotateFacts ==
  ASSUME TypeOK, CredentialInv, NEW r \in Refreshes, NEW t \in Logins,
         Rotates(r, t)
  PROVE  /\ ~WasIssued(r) /\ r \in Value /\ TokensNamed(r) = {}
         /\ token[t] # Null /\ token[t].token \in Value
         /\ token'[t] \in TokenRow /\ token'[t] # Null
         /\ token'[t].token = r
         /\ \A u \in Logins \ {t} : token'[u] = token[u]
<1> USE DEF TypeOK, StoreTypeOK, Nullable
<1>1. ~WasIssued(r) /\ r \in Value
  BY DEF Rotates, WasIssued, HasRotated, Answered, Value
<1>2. TokensNamed(r) = {}
  BY <1>1 DEF CredentialInv, Strings, TokensNamed, Rows
<1>3. token[t] # Null /\ token[t] \in TokenRow /\ refreshAgent[r] \in Agent
  BY DEF Rotates, TokensNamed, Rows, RefreshTypeOK
<1>4. /\ Rotated(token[t], r) \in TokenRow
      /\ Rotated(token[t], r) # Null
      /\ Rotated(token[t], r).token = r
  BY <1>1, <1>3, RotatedType
<1>5. token[t].token \in Value
  BY <1>3 DEF TokenRow
<1> QED
  BY <1>1, <1>2, <1>3, <1>4, <1>5 DEF Rotates

-----------------------------------------------------------------------------

\* No string is issued in the initial state.
LEMMA RefinesInit ==
  ASSUME Init
  PROVE  Credentials!Init
BY DEF Init, StoreInit, LoginInit, RefreshInit, Empty, Credentials!Init,
  CurrentString, SpentStrings, EndedLogins, WasIssued, HasRotated, Answered,
  Value

\* A string that was never issued is fresh.
LEMMA FreshString ==
  ASSUME TypeOK, CredentialInv, NEW v \in Value, ~WasIssued(v)
  PROVE  Credentials!Fresh(v)
BY DEF Credentials!Fresh, Credentials!Live, CurrentString, SpentStrings,
  TypeOK, StoreTypeOK, CredentialInv, Strings, Rows, Value

\* Every step is one of RefreshCredential, or changes nothing it speaks of.
LEMMA RefinesNext ==
  ASSUME TypeOK, AccountInv, CredentialInv, [Next]_vars
  PROVE  [Credentials!Next]_(Credentials!credentialVars)
<1> USE DEF TypeOK, StoreTypeOK, Nullable, CurrentString
<1>s. \A t \in Rows(token) : /\ token[t].token \in Value /\ t \in Value
                             /\ WasIssued(token[t].token) /\ WasIssued(t)
  BY DEF CredentialInv, Strings, Rows, TokenRow, Value
<1>u. \A t1, t2 \in Rows(token) : token[t1].token = token[t2].token => t1 = t2
  BY DEF CredentialInv, Strings
<1>p. \A v \in Value : WasIssued(v) =>
        WasIssued(v)' /\ TokensNamed(v)' \subseteq TokensNamed(v)
  BY Persistence
<1>1. ASSUME NEW r \in Logins, Issues(r)
      PROVE  Credentials!Issue(r, r)
  <2>1. PICK row \in TokenRow : /\ row # Null /\ row.token = r
                                /\ token' = [token EXCEPT ![r] = row]
    BY <1>1, IssueFacts
  <2>2. token[r] = Null /\ ~WasIssued(r) /\ r \in Value
    BY <1>1, IssueFacts
  <2>3. NowIssued({r})
    BY <1>1 DEF Issues
  <2>4. CurrentString' = [CurrentString EXCEPT ![r] = r]
    BY <2>1, <2>2
  <2>5. SpentStrings' = SpentStrings
    <3>1. TokensNamed(r)' # {}
      BY <2>1 DEF TokensNamed, Rows
    <3>2. \A v \in Value : TokensNamed(v) # {} => TokensNamed(v)' # {}
      BY <2>1, <2>2 DEF TokensNamed, Rows
    <3> QED BY <3>1, <3>2, <2>2, <2>3, <1>p DEF SpentStrings, NowIssued
  <2>6. EndedLogins' = EndedLogins
    BY <2>1, <2>2, <2>3 DEF EndedLogins, NowIssued, Value
  <2>7. Credentials!Fresh(r)
    BY <2>2, FreshString
  <2> QED
    BY <2>2, <2>4, <2>5, <2>6, <2>7 DEF Credentials!Issue, EndedLogins
<1>2. ASSUME NEW r \in Refreshes, NEW t \in Logins, Rotates(r, t)
      PROVE  Credentials!Rotate(t, r)
  <2>1. /\ token[t] # Null /\ token'[t] # Null /\ token'[t].token = r
        /\ \A u \in Logins \ {t} : token'[u] = token[u]
        /\ ~WasIssued(r) /\ r \in Value
    BY <1>2, RotateFacts
  <2>2. NowIssued({r}) /\ token' \in [Logins -> Nullable(TokenRow)]
    <3>1. token' = [token EXCEPT ![t] = Rotated(token[t], r)]
      BY <1>2 DEF Rotates
    <3>2. token'[t] \in TokenRow
      BY <1>2, RotateFacts
    <3> QED BY <1>2, <3>1, <3>2 DEF Rotates
  <2>3. CurrentString' = [CurrentString EXCEPT ![t] = r]
    BY <2>1, <2>2
  <2>0. PICK old \in Value : old = token[t].token
    BY <2>1, <1>s DEF Rows
  <2>4. SpentStrings' = SpentStrings \cup {old}
    <3>1. TokensNamed(r)' # {}
      BY <2>1 DEF TokensNamed, Rows
    <3>2. WasIssued(old) /\ old # r
      BY <2>0, <2>1, <1>s DEF Rows
    <3>3. TokensNamed(old)' = {}
      BY <2>0, <2>1, <3>2, <1>u DEF TokensNamed, Rows
    <3>4. \A v \in Value \ {old} :
            TokensNamed(v) # {} => TokensNamed(v)' # {}
      BY <2>0, <2>1 DEF TokensNamed, Rows
    <3> QED
      BY <3>1, <3>2, <3>3, <3>4, <2>1, <2>2, <1>p DEF SpentStrings, NowIssued
  <2>5. EndedLogins' = EndedLogins
    BY <2>1, <2>2 DEF EndedLogins, NowIssued, Value
  <2>6. Credentials!Fresh(r)
    BY <2>1, FreshString
  <2>7. CurrentString[t] = old /\ CurrentString[t] # Null
    BY <2>0, <2>1, <1>s DEF Rows
  <2> QED
    BY <2>3, <2>4, <2>5, <2>6, <2>7 DEF Credentials!Rotate
<1>3. ASSUME NEW t \in Logins, Revokes(t)
      PROVE  Credentials!Revoke(t)
  <2>1. token[t] # Null /\ token' = [token EXCEPT ![t] = Null] /\ NowIssued({})
    BY <1>3 DEF Revokes
  <2>2. CurrentString' = [CurrentString EXCEPT ![t] = Null]
    BY <2>1
  <2>0. PICK old \in Value : old = token[t].token
    BY <2>1, <1>s DEF Rows
  <2>3. SpentStrings' = SpentStrings \cup {old}
    <3>1. WasIssued(old)
      BY <2>0, <2>1, <1>s DEF Rows
    <3>2. TokensNamed(old)' = {}
      BY <2>0, <2>1, <3>1, <1>u DEF TokensNamed, Rows
    <3>3. \A v \in Value \ {old} :
            TokensNamed(v) # {} => TokensNamed(v)' # {}
      BY <2>0, <2>1 DEF TokensNamed, Rows
    <3> QED
      BY <3>1, <3>2, <3>3, <2>1, <1>p DEF SpentStrings, NowIssued
  <2>4. EndedLogins' = EndedLogins \cup {t}
    BY <2>1, <1>s DEF EndedLogins, NowIssued, Value, Rows
  <2>5. CurrentString[t] = old /\ CurrentString[t] # Null
    BY <2>0, <2>1, <1>s DEF Rows
  <2> QED BY <2>2, <2>3, <2>4, <2>5 DEF Credentials!Revoke
<1>4. CASE KeepsStrings
  <2>1. NowIssued({}) /\ SameStrings
    BY <1>4 DEF KeepsStrings
  <2>2. CurrentString' = CurrentString
    BY <2>1 DEF SameStrings
  <2>3. SpentStrings' = SpentStrings
    <3>1. \A v \in Value : TokensNamed(v) # {} => TokensNamed(v)' # {}
      BY <2>1 DEF SameStrings, TokensNamed, Rows
    <3> QED BY <2>1, <3>1, <1>p DEF SpentStrings, NowIssued
  <2>4. EndedLogins' = EndedLogins
    BY <2>1 DEF EndedLogins, NowIssued, SameStrings, Value
  <2> QED BY <2>2, <2>3, <2>4 DEF Credentials!credentialVars
<1> QED
  BY <1>1, <1>2, <1>3, <1>4, StepKinds DEF Credentials!Next, Value

\* The handlers, their interleavings, crashes and deletions, implement the
\* promise of refresh tokens.
THEOREM ImplementsCredentialsHolds == Spec => ImplementsCredentials
<1>1. Init => Credentials!Init
  BY RefinesInit
<1>2. TypeOK /\ AccountInv /\ CredentialInv /\ [Next]_vars
        => [Credentials!Next]_(Credentials!credentialVars)
  BY RefinesNext
<1> QED
  BY <1>1, <1>2, TypeCorrect, AccountsKept, CredentialsKept, PTL DEF Spec,
    ImplementsCredentials, Credentials!Spec

=============================================================================
