----------------------------- MODULE CheckAuth -----------------------------
(***************************************************************************)
(* AuthController.checkAuthToken and AuthService.checkAuth, the handler    *)
(* behind GET auth/check-auth, beside the handlers of Auth.  It writes     *)
(* nothing: the whole handler is one step of the browser, which keeps an   *)
(* access token in memory and sends it with the refreshToken cookie.       *)
(***************************************************************************)
EXTENDS Auth

VARIABLES
  bearer,  \* the browser's access token: "none", "valid" or "expired"
  answer   \* what checkAuth last told the browser

checkVars == <<bearer, answer>>

Answer == {"none", "true", "newAccessToken", "unauthorized", "badRequest"}

CheckInit ==
  /\ Init
  /\ bearer = [b \in Browser |-> "none"]
  /\ answer = [b \in Browser |-> "none"]

\* jwtService.verify(refreshToken).  A refresh token is a v4() string, and no
\* such string is a signed JWT.
JwtVerifies(value) == FALSE

\* checkAuth asks the database for the user of the decoded payload.
Stored(value) == TokensNamed(value) # {}

CheckAuthAnswer(b) ==
  IF bearer[b] = "none" THEN "badRequest"
  ELSE IF bearer[b] = "valid" THEN "true"
  ELSE IF cookie[b] # Null /\ JwtVerifies(cookie[b]) /\ Stored(cookie[b])
    THEN "newAccessToken"
  ELSE "unauthorized"

Check(b) ==
  /\ answer' = [answer EXCEPT ![b] = CheckAuthAnswer(b)]
  /\ bearer' = [bearer EXCEPT ![b] =
       IF CheckAuthAnswer(b) = "newAccessToken" THEN "valid" ELSE bearer[b]]
  /\ UNCHANGED vars

\* JWT_EXP has passed.
BearerExpires(b) ==
  /\ bearer[b] = "valid"
  /\ bearer' = [bearer EXCEPT ![b] = "expired"]
  /\ answer' = [answer EXCEPT ![b] = "none"]
  /\ UNCHANGED vars

\* setRefreshTokenToCookies answers a refresh with a new access token, and
\* leaves the answer of a login, a redirect, without one.
BearerArrives(r) ==
  /\ DeliverRefresh(r)
  /\ bearer' = [bearer EXCEPT ![origin[r]] = "valid"]
  /\ answer' = [answer EXCEPT ![origin[r]] = "none"]

\* Any other step may change the database or the cookie the answer was about.
Elsewhere ==
  /\ Next
  /\ \A r \in Refreshes : ~DeliverRefresh(r)
  /\ answer' = [b \in Browser |-> "none"]
  /\ UNCHANGED bearer

CheckNext ==
  \/ \E b \in Browser : Check(b) \/ BearerExpires(b)
  \/ \E r \in Refreshes : BearerArrives(r)
  \/ Elsewhere

CheckSpec == CheckInit /\ [][CheckNext]_<<vars, checkVars>>

-----------------------------------------------------------------------------

\* checkAuth "generates a new accessToken" when the access token is not valid
\* any more and the cookie names a refresh token of the database.
CheckAuthRenews ==
  \A b \in Browser :
    /\ bearer[b] = "expired"
    /\ cookie[b] # Null
    /\ Stored(cookie[b])
    => answer[b] \in {"none", "newAccessToken"}

=============================================================================
