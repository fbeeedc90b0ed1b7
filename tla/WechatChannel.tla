---------------------------- MODULE WechatChannel ----------------------------
(***************************************************************************)
(* What the storefront needs from WeChat besides payments: the OAuth trip  *)
(* that gives a browser its openid, the ticket that signs a page for the   *)
(* JS-SDK, the loading of that SDK in a page, and the platform keys that   *)
(* verify notifications. All tabs belong to one browser: they share its    *)
(* cookies, and each has a document and an SDK of its own.                 *)
(***************************************************************************)
EXTENDS Naturals

CONSTANTS
  Tabs,     \* tabs of the browser, each on the page of its own
  MaxNonce, \* bound on the authorisations asked for
  NoState, Unsent, Refused, Done

ASSUME WechatAssumption ==
  /\ MaxNonce \in Nat
  /\ {NoState, Unsent, Refused, Done} \cap Tabs = {}

VARIABLES
  jar,       \* cookie wechat_oauth_state: a nonce and the page to return to
  openid,    \* whether the browser has the cookie wechat_openid
  drawn,     \* nonces drawn so far
  trip,      \* the nonce a tab brings back, and what its callback was told
  spent,     \* nonces whose callback was answered
  promise,   \* loadPromise of a tab's document
  script,    \* the <script> element of its document
  step,      \* how far handleJsapiParams has come in a tab
  ticket,    \* whether the cached jsapi_ticket is there and not expired
  inflight,  \* the shared load of the ticket
  rotated,   \* whether WeChat has changed its key since the gateway was made
  known,     \* whether the key that signs notifications now is cached
  throttled, \* whether the last fetch of the keys is less than a minute old
  fetching   \* the shared fetch of the keys

oauthVars == <<jar, openid, drawn, trip, spent>>
sdkVars == <<promise, script, step>>
ticketVars == <<ticket, inflight>>
keyVars == <<rotated, known, throttled, fetching>>
wechatVars == <<oauthVars, sdkVars, ticketVars, keyVars>>

Nonces == 1..MaxNonce

WechatTypeOK ==
  /\ jar \in {NoState} \cup [nonce: Nonces, back: Tabs]
  /\ openid \in BOOLEAN
  /\ drawn \in 0..MaxNonce
  /\ trip \in [Tabs -> [nonce: 0..MaxNonce, head: Tabs \cup {Unsent, Refused, Done}]]
  /\ spent \subseteq Nonces
  /\ promise \in [Tabs -> {"none", "loading", "loaded"}]
  /\ script \in [Tabs -> {"none", "fetching", "failed", "loaded"}]
  /\ step \in [Tabs -> {"none", "asking", "joined", "signed", "loading", "sheet"}]
  /\ ticket \in BOOLEAN
  /\ inflight \in {"none", "pending"}
  /\ rotated \in BOOLEAN /\ known \in BOOLEAN
  /\ throttled \in BOOLEAN /\ fetching \in {"none", "flying", "failed"}

WechatInit ==
  /\ jar = NoState /\ openid = FALSE /\ drawn = 0
  /\ trip = [t \in Tabs |-> [nonce |-> 0, head |-> Done]]
  /\ spent = {}
  /\ promise = [t \in Tabs |-> "none"]
  /\ script = [t \in Tabs |-> "none"]
  /\ step = [t \in Tabs |-> "none"]
  /\ ticket = FALSE /\ inflight = "none"
  /\ rotated = FALSE /\ known = TRUE
  /\ throttled = FALSE /\ fetching = "none"

-----------------------------------------------------------------------------
(* The OAuth trip *)

\* GET /auth/wechat/authorize: the cookie holds one state, whichever tab asked.
Authorize(t) ==
  /\ drawn < MaxNonce
  /\ drawn' = drawn + 1
  /\ jar' = [nonce |-> drawn + 1, back |-> t]
  /\ trip' = [trip EXCEPT ![t] = [nonce |-> drawn + 1, head |-> Unsent]]
  /\ UNCHANGED <<openid, spent>>

\* Fault: any state cookie will do.
StateThere(t) == jar # NoState

StateMatches(t) == jar # NoState /\ jar.nonce = trip[t].nonce

\* GET /auth/wechat/callback, also when a tab loads it again: the verdict is
\* on the cookie the request carries.
SendCallback(t) ==
  /\ trip[t].nonce # 0 /\ trip[t].head \in {Unsent, Done}
  /\ trip' = [trip EXCEPT ![t].head = IF StateMatches(t) THEN jar.back ELSE Refused]
  /\ UNCHANGED <<jar, openid, drawn, spent>>

\* The answer is lost, or the tab loads the address again before it is there:
\* the cookie is still in the browser, and the address may be loaded once more.
LoseCallback(t) ==
  /\ trip[t].head \notin {Unsent, Done}
  /\ trip' = [trip EXCEPT ![t].head = Unsent]
  /\ UNCHANGED <<jar, openid, drawn, spent>>

\* Fault: a refused state stays, and so does an accepted one.
StateKept == jar

StateRemoved == NoState

\* The answer arrives: the cookie goes whatever state it holds by now.
AnswerCallback(t, exchanged) ==
  /\ trip[t].head \notin {Unsent, Done}
  /\ jar' = StateRemoved
  /\ spent' = spent \cup {trip[t].nonce}
  /\ openid' = (openid \/ (exchanged /\ trip[t].head # Refused))
  /\ trip' = [trip EXCEPT ![t].head = Done]
  /\ UNCHANGED drawn

\* GET /auth/wechat/openid
Authorised == openid

\* Ten minutes for the state.
StateExpires ==
  /\ jar # NoState
  /\ jar' = NoState
  /\ UNCHANGED <<openid, drawn, trip, spent>>

-----------------------------------------------------------------------------
(* The signature of a page *)

GoTo(t, s) == step' = [step EXCEPT ![t] = s]

\* createTicketCache: the cached ticket if it is there, the load in flight if
\* there is one, a new load otherwise.
GetTicket(t) ==
  \/ ticket /\ GoTo(t, "signed") /\ UNCHANGED inflight
  \/ ~ticket /\ inflight = "pending" /\ GoTo(t, "joined") /\ UNCHANGED inflight
  \/ ~ticket /\ inflight = "none" /\ GoTo(t, "joined") /\ inflight' = "pending"

\* GET /wechat/jssdk: a signature as soon as there is a ticket.
AskSignature(t) ==
  /\ step[t] = "asking"
  /\ GetTicket(t)
  /\ UNCHANGED <<ticket, promise, script, oauthVars, keyVars>>

\* The load is forgotten however it ends.
ForgottenLoad == "none"

\* access_token, then jsapi_ticket: every call that waits has the outcome.
TicketLoaded(ok) ==
  /\ inflight = "pending"
  /\ ticket' = ok
  /\ inflight' = ForgottenLoad
  /\ step' = [t \in Tabs |-> IF step[t] # "joined" THEN step[t]
                             ELSE IF ok THEN "signed" ELSE "none"]
  /\ UNCHANGED <<promise, script, oauthVars, keyVars>>

TicketExpires ==
  /\ ticket /\ ticket' = FALSE
  /\ UNCHANGED <<inflight, sdkVars, oauthVars, keyVars>>

-----------------------------------------------------------------------------
(* The SDK of a page *)

\* loadWechatJssdk: one promise and one element for the document. An element
\* that has failed is taken again and never fires again.
LoadWechatJssdk(t) ==
  /\ step[t] = "signed"
  /\ GoTo(t, "loading")
  /\ promise' = [promise EXCEPT ![t] =
       IF @ # "none" THEN @ ELSE IF script[t] = "loaded" THEN "loaded" ELSE "loading"]
  /\ script' = [script EXCEPT ![t] =
       IF promise[t] = "none" /\ @ = "none" THEN "fetching" ELSE @]
  /\ UNCHANGED <<ticketVars, oauthVars, keyVars>>

ScriptSettles(t) ==
  /\ script[t] = "fetching"
  /\ \/ /\ script' = [script EXCEPT ![t] = "loaded"]
        /\ promise' = [promise EXCEPT ![t] = "loaded"]
        /\ UNCHANGED step
     \/ /\ script' = [script EXCEPT ![t] = "failed"]
        /\ promise' = [promise EXCEPT ![t] = "none"]
        /\ step' = [step EXCEPT ![t] = IF @ = "loading" THEN "none" ELSE @]
  /\ UNCHANGED <<ticketVars, oauthVars, keyVars>>

\* wx.config is accepted and wx.chooseWXPay opens the sheet, or wx.error.
ConfigureWx(t) ==
  /\ step[t] = "loading" /\ promise[t] = "loaded"
  /\ \E s \in {"sheet", "none"} : GoTo(t, s)
  /\ UNCHANGED <<promise, script, ticketVars, oauthVars, keyVars>>

\* A new document in the tab.
FreshDocument(t) ==
  /\ promise' = [promise EXCEPT ![t] = "none"]
  /\ script' = [script EXCEPT ![t] = "none"]
  /\ GoTo(t, "none")

-----------------------------------------------------------------------------
(* The platform keys of the gateway *)

\* WeChat signs with a key that was not fetched yet; bound: it does so once.
RotateKey ==
  /\ ~rotated
  /\ rotated' = TRUE /\ known' = FALSE
  /\ UNCHANGED <<throttled, fetching, oauthVars, sdkVars, ticketVars>>

\* Fault: a fetch that fails leaves the request in flight behind.
OverIfFetched(ok) == IF ok THEN "none" ELSE "failed"

FetchOver(ok) == "none"

\* The fetch ends, and the minute begins: all the keys there are, or none.
KeysFetched(ok) ==
  /\ fetching = "flying"
  /\ known' = (known \/ ok)
  /\ throttled' = TRUE
  /\ fetching' = FetchOver(ok)
  /\ UNCHANGED <<rotated, oauthVars, sdkVars, ticketVars>>

ThrottleElapses ==
  /\ throttled /\ throttled' = FALSE
  /\ UNCHANGED <<rotated, known, fetching, oauthVars, sdkVars, ticketVars>>

-----------------------------------------------------------------------------
(* What holds *)

\* A callback that is accepted brings a tab back to the page it left (the
\* redirect of wechat.ts goes where the cookie says, and two tabs share it).
AuthorisedTabReturns == \A t \in Tabs : trip[t].head \in Tabs => trip[t].head = t

\* The state is void when the answer of its callback takes the cookie away
\* (wechat.ts): the tab may load the address again, and once a callback was
\* answered its nonce is not accepted. Until then it is, as often as it comes.
SpentNonceIsRefused ==
  [][\A t \in Tabs :
       trip[t].head \in {Unsent, Done} /\ trip'[t].head \in Tabs
         => trip[t].nonce \notin spent]_wechatVars
==============================================================================
