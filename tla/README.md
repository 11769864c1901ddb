# A verification project for the BroCarami shop

The repository is a shop: a NestJS backend over PostgreSQL (Prisma), a Next.js
frontend, Keycloak for identities, PayPal for online payments, Socket.io for
chat and order tracking. This directory holds TLA+ modules that model the
backend and the pages that use it, TLC runs that check them on small instances, and proofs that
TLAPS checks for every value of the constants. Paths are relative to
`backend/src/` unless they start with `app/`, `components/`, `hooks/` or
`lib/` (`frontend/src/`), `RECOVERY.md` or `schema.prisma` (`backend/prisma/`).

## 1. Inventory

| Component | State it keeps | Operations | What must be right |
|---|---|---|---|
| Orders (`orders/orders.service.ts`) | `Commande` and its lines, history; writes `Produit.stock` and carts | create, update, cancel, assignLivreur, updateStatus, confirmOnlinePaymentSuccess, lists | nothing happens to an online order before its money is there; what is put back was taken; LIVREE and ANNULEE are final |
| Payments (`payments/payments.service.ts`) | `Paiement` | initiateOnlinePayment, captureOnlinePayment, confirmCashPayment | money is taken once, is never forgotten, and always leads to an invoice and one e-mail |
| PayPal client (`payments/paypal-client.service.ts`) | OAuth token; PayPal's own orders | createOrder, captureOrder | a lost answer, a refusal and a second capture are told apart |
| Invoices (`invoices/invoices.service.ts`, `montant-en-lettres.ts`) | `Facture` | generateForCommande, sendInvoiceByEmail, getFactureData, markPrinted, PDF | one invoice per paid order, numbered without gap or duplicate; amounts in words |
| Cart (`cart/cart.service.ts`) | `Panier`, `PanierProduit` | getPanier, addItem, updateItem, removeItem, merge at login | no addition is lost; a visitor's cart is merged once |
| Favourites (`favorites/favorites.service.ts`), visitor sessions (`common/session.service.ts`) | `Favori`, `Session` | list, add, remove, merge; getOrCreate | one row per product; merged once |
| Accounts (`auth/`) | `Utilisateur`; Keycloak account | register, verifyEmail, resend, syncUser, updateProfile | nobody orders before the address is confirmed; local row and Keycloak agree |
| Users (`users/`) | role and suspension, in Keycloak and locally | changeRole, setSuspended | both sides agree after a failure |
| Chat, Messages (`realtime/chat.gateway.ts`, `messages/`) | `Message`, `MessageLecture`, rooms | connection, message:send, thread, unread count, broadcasts | a message that was not shown is not read; a broadcast reaches everyone |
| Chat pages (`components/messages-inbox.tsx`, `chat-widget.tsx`, `livreur-chat.tsx`, `admin/chat-admin.tsx`, `notification-bell.tsx`) | threads, counter, one socket each | select, send, events, answers, token renewal | no double, no foreign message, the counter is right |
| Tracking (`realtime/tracking.gateway.ts`, `components/order-tracker.tsx`) | rooms; the order on the page | notifyOrderUpdate, events | the page shows how far the order is |
| Order pages of the staff (`components/admin/orders-admin.tsx`, `livreur/`, `delivery-status-form.tsx`, `payment-confirm-button.tsx`) | the orders when the page was loaded; busy buttons; errors | change a state, assign, confirm cash, refresh | a button that is drawn is accepted; a click is always answered |
| Checkout and payment pages (`components/checkout-form.tsx`, `app/paiement/`) | what the page shows, the request it waits for | order, pay, capture on return, cancel | what the page says is true |
| Catalogue (`products/`, `categories/`, `announcements/`, `uploads/`) and its admin pages | `Produit`, `Categorie`, `Annonce`; forms, drafts | create, update, remove, upload | stock is what was sold and typed; no dangling product; the chosen days and image are saved |
| Front page (`components/announcement-banner.tsx`, `catalogue-filters.tsx`), dashboard (`dashboard/`) | index, URL, timers; four statistics | rotate, search, read | each announcement is shown; filters are kept; the numbers agree |
| Favourites provider, cart page, badge (`components/favorites-provider.tsx`, `app/panier/page.tsx`, `components/cart-badge.tsx`) | hearts, cart, count | toggle, add, change, remove, listen | the page shows the tables, for the right owner |
| Session (`lib/auth.ts`, `lib/full-sign-out.ts`, `components/session-watcher.tsx`, `proxy.ts`) | cookie, tokens, `SessionProvider`, Keycloak's session | sign in, renew, sign out, guard a page | a dead session is left; signing out closes both |
| Profile (`auth/auth.service.ts` updateProfile, `components/profile-form.tsx`, `admin/admin-settings-form.tsx`, `change-password-form.tsx`) | account, row, forms | save names, contact, password | what says it was saved was, on both sides |
| E-mail, metrics, static pages | — | I/O, instrumentation, display | — |

How they interact: a controller calls one service; services call each other
directly (Payments calls Orders, Invoices, E-mail), everyone calls
`AuthService.syncUser` first, and all shared state is in PostgreSQL. The only
callbacks are sockets. The pages hold copies: what they got when they were loaded
or last refreshed, with answers and events that may come in any order. Nothing is locked between an `await` that reads and the
`await` that writes: NestJS runs every request concurrently, so each pair is a
race. There is no job queue and no retry: what a request that dies did not do is
never done, unless a user asks again.

The hard behaviours, each at its line, are the `hazards` of `PROJECT.json`.

## 2. Modules

| Module | Models |
|---|---|
| `Donnees` | the tables of orders, PayPal's orders, the running requests: constants, variables, `Init`, types |
| `OrdersService`, `InvoicesService`, `PaymentsService` | those services, the numbering and e-mail of invoices, and PayPal's side |
| `Boutique` | the composition: all requests, the client at the cart and at PayPal, the admin at the catalogue, failures; the properties |
| `Encaissement` | abstract specification: what the shop promises about money |
| `BoutiquePreuves` | the inductive invariant, type correctness, safety; the refinement of `Encaissement` |
| `Suivi` | over `Boutique`: the pages of admin and driver, the tracking gateway and the client's page of an order |
| `Caisse` | over `Suivi`: checkout, PayPal's return page and cancellation page |
| `CaissePreuves` | proofs about `Suivi` and `Caisse`, on top of those of `BoutiquePreuves` |
| `Visite`, `CartService`, `FavoritesService`, `Visiteur` | one visitor's session and one account: rows, requests, the two services with their merge, the composition |
| `VisiteurPreuves` | proofs about `Visiteur`: types, no product lost, carts as asked |
| `Achats`, `AchatsPreuves` | one tab: hearts, cart page and badge over the two tables; its proofs |
| `AuthService`, `UsersService`, `Comptes`, `ComptesPreuves` | accounts and roles against Keycloak, the composition, its proofs |
| `Profils` | one person's profile: `updateProfile`, `syncUser`'s names, the three forms |
| `Navigation`, `NavigationPreuves` | one browser: tokens, cookie, session copy, proxy, rendering, signing out; its proofs |
| `Messagerie` | tables of messages, the chat gateway, sockets and events |
| `Boites`, `BoitesPreuves` | over `Messagerie`: the bell, the inbox, the bubble, the driver's panel, the admin's chat; the proofs about both |
| `Catalogue` | products, categories, announcements, uploads, and the admin's pages over them |
| `Vitrine` | over `Catalogue`: the front page and the dashboard |
| `Facturation` | prices from the cart to the printed invoice, amounts in words |
| `Gestion`, `GestionPreuves` | `Vitrine`, `Facturation` and `Profils` side by side, for one run; the proofs about the four |
| `MC*` | instances for TLC |

The systems meet in few places, and each sees the others as an environment: an
order reads and writes a cart (`Boutique` has the cart as one function and an edit
as one step), every route calls `syncUser` first (`Comptes` has it as an action of
its own; elsewhere the row exists), and a page of `Achats` is served at one moment
by what `Visiteur` splits at its awaits.

### State and code

In `Boutique` a request is a slot of `req`. Its `pc` names the `await` it is stopped at and its
other fields are the handler's local variables that are still needed. One prisma
call or one interactive transaction is one step, visible when it commits; what
was read before it may be stale by then. So `updateStatus`, for instance, is two
actions: `UpdateStatus` reads the order and evaluates every guard of lines
348-397, `UpdateStatusEcrire` is the unconditional write of line 399.

- `captureOnlinePayment` is `CaptureOnlinePayment` (read and guards),
  `CaptureOrder` (PayPal), `StatutEcrire`, `Notifier` (e-mail), then either
  `ConfirmOnlinePaymentSuccess` and `ConfirmOnlinePaymentTransaction`,
  `GenerateForCommande`, `FactureCreate`, `SendInvoiceByEmail`, or, for a
  refusal, `CancelApresEchec` and `CancelTransaction`.
- `confirmCashPayment` is `ConfirmCashPayment` and the same steps from
  `StatutEcrire` on; `SuiteDe` tells the two apart.
- The consumption of an online order is the one transaction split in two: it
  reads cart rows and writes them in later statements, and under READ COMMITTED
  a row may disappear in between. `Verrouilles` are the products whose rows it
  holds locked meanwhile.
- `create` and `cancel` are one step each, at their commit. For `create` nothing is
  lost: what its transaction reads it locks. `cancel` reads the payment and the cart rows
  (`findFirst`) before it updates them (orders.service.ts:267-286), so two transactions
  may interleave between the two under READ COMMITTED; what that adds, a row of the cart
  updated from an older quantity, is not in the model. `createOrder` at PayPal is in the reading
  step of `initiate`: nobody can see the new PayPal order before it is stored.
  The read of an existing invoice and the count of `generateForCommande` are one
  step; a second request that inserts in between makes the insert fail on
  `commandeId`, which is what the later step does.
- `net` (stock movements of an order) and `courriels` (e-mails sent) record what
  the properties are about; no guard reads `net` except a bound. `pannes` counts
  failures.
- A failure (`Panne`) ends a request at any await: the process stops, a query or
  the SMTP server fails, PayPal's answer is lost. What was committed stays.

In `Visiteur` a request is one HTTP call with its headers (`h`: the session's
token, the account's, or both), its arguments and the locals of the handler: the
cart it merges from and the one it works on (`source`, `cible`), the rows left to
merge (`reste`), the one being merged (`item`) and the row and quantity the last
`findFirst` returned (`rang`, `vu`). `CartRequest` is `resolveOwner` up to its
second await (a session read and the cart read after it are one step: no route
deletes a session), then the merge is `FusionPanierCompte`, `FusionTransferer` or
`FusionLigne` and `FusionEcrire` for each row, `FusionSupprimer`; then
`FindPanier`, `CreatePanier`, `FindItem`, `WriteItem` or `RemoveItem`. A write to a
row that is gone, or against a unique key, ends the request (Prisma throws, the
route answers 500). An id is given again only when no row and no request holds it.
`voulu` is what the carts should hold, kept while requests come one at a time
(`seul`); `retires` are the removals asked for since the system was last at rest.

In `Comptes` each call to Keycloak's admin API is a step, each write of
`Utilisateur` too, and each step may be the last (`Panne`). A token is the set of
roles it was issued with; Keycloak issues it (`Connexion`) to an enabled account
and it lives until `Expire`, whatever happens to the account. `sain` says that no
request overlapped another or died so far, `seule` the same of one request.
A person waits for the answer of their registration before they sign in.

`Suivi` adds to `Boutique` what the pages hold. `vu[u][c]` is the order as u's page
got it, `occupe` and `encaisse` the buttons that are off, `rafraichit` a
`router.refresh` on its way; `clic[r]` is the click that request r of `Boutique`
comes from, then its answer; an answer may be lost on its way (`Perdre`), which for the
page is a failure. A click starts the service's own first step
(`UpdateStatus`, `AssignLivreur`, `ConfirmCashPayment`, `CancelLire`), or is refused
where the service refuses; later steps are those of `Boutique`, and the answer comes
when the slot is free again. `emission` is the order that `updateStatus` has written
and not yet emitted, `suivi` the client's page with its socket, `aVoir[u]` the orders the
page of u owes a refresh or an error for: those of which u asked to change the status or
confirm the cash, whatever became of it, and those that an assignment changed. `Caisse` adds the
client's tab (`onglet`); PayPal's approval and refusal lead to the return and the
cancellation page, and the browser's history may go back to an older PayPal page.

In `Messagerie` a message is its index, which is also its date. `handleMessage` is
`HandleMessage` (insert), `Lectures` and `Emettre`; an emission puts the message in
the queue (`file`) of every socket that has joined, so a socket that joins later
misses it. `Boites` gives each component its socket, its requests under way
(`demandes`) and what it shows (`vue`); a read and the marking after it are two steps
(`Lire`, `Marquer`), and the answer comes in a third. `calme[s]` says that no two
things crossed at component s, which the properties about what it shows ask for. The
bell counts when it is mounted, an answer that may be under way in `Init`, and again when
it hears "messages-read". That listener keeps the `refresh` of the first rendering and
its token: `ecoute` says whether the token was replaced (`Renouveler`) and whether the
API has refused it since (`CompterRefuse`: the 401 is swallowed).

In `Catalogue` a request is a check (`Verifier`) and a write later, under the foreign
keys of the schema; `horloge` counts half days, so that an even number is midnight
UTC; `attendu` is what sales and typed quantities amount to. `Vitrine` keeps the
timers of the banner and of the search field. `Facturation` counts millimes: the code
uses doubles and rounds what it prints, and `Arrondi` is that rounding. A drawn line
moves `y` down by 18 points and `Pleine` is the test before it; `bas` is the lowest
point drawn. `MontantEnLettres` gives a sequence of words.

In `Navigation` a token has an age (`frais`, `bientot` within ten seconds of its end,
`expire`) and the roles of when it was issued. It is kept in the cookie, in an answer
on its way and in a page being rendered, which age together. The proxy and
`/api/auth/session` can set the cookie; a page rendered on the server cannot.

In `Achats` each call has its owner, fixed by the `api` the component closed over when
its effect or listener was made; it is served in one step and answered in another, and
one of them may fail before or after it was served. The badge and the page of the cart
read with the token of their first rendering: `Perimer` expires it after the session was
renewed (`perimes`), and from then on their reads are refused with 400, which the badge
swallows and the page shows. In `Profils` a request has the
name its token was issued with; `SyncUser` writes it to the row, `UpdateUser` and
`ResetPassword` are the calls to Keycloak and `UpdateProfile` the local write after
them; `voulu` is what the person last asked for.

Left out because no property tells it apart: the history rows, `provider`, `confirmedById`, `notificationSent`, the identity of cart rows,
the e-mail of a status change, the text of addresses. An edit
of the cart or of the catalogue is one step in a free slot.

## 3. Runs

| Run | Instance | Shows |
|---|---|---|
| `sequentiel` | 2 orders, 2 PayPal orders, 1 request, no failure, cart edits and restocking | with one request at a time the comments are true: stock held out exactly for live confirmed orders (`StockJuste`); one e-mail of each kind, one debit, every taken payment invoiced at rest, numbers 1..n (`UneSeuleFois`) |
| `concurrent` | 1 order of 2 products, 2 PayPal orders, 2 requests, 1 failure, a cart that is edited | the inductive invariant with its types (`Inductif`), `LivreeEncaissee`, `UneSortieParCapture`, the refinement of `Encaissement` (`ArgentDAbord`), and from the money to the invoice a request of the order is on its way unless one of three named things stops it (`FactureSuivie`) |
| `visiteur` | 2 products, 2 requests, 1 failure, 2 articles | with merges that no other request of the session overlaps (`FusionSeule`), no product leaves carts or favourites without a removal, wherever a merge dies (`RienPerdu`); one request at a time, carts and favourites are exactly what was asked (`PanierFidele`) |
| `comptes` | 1 account, 2 requests, 1 failure, 1 token, fairness | `Inductif`; suspension and verification are what the comments say until a request fails; a change of role that runs alone repairs what an earlier one left; the row ends up with Keycloak's role although older tokens write older roles back |
| `suivi` | 1 order, 1 client, 1 driver, 1 admin, 2 PayPal orders, 2 requests, 1 failure, lost answers, 3 clicks of the staff on a cash order and 2 on an online one | buttons drawn from an up-to-date page are accepted (`BoutonAccepte`), every click gives its button back, and a change of status or a cash confirmation that is accepted, refused, dead or unheard of ends with a refresh or an error (`GestesRendus`), the client's page follows (`SuiviFidele`), PayPal's pages say what is true (`PagesVraies`) |
| `messagerie` | 3 people, 2 messages, 2 gestures or failures, any one of the four pages with the bell | nobody sees a foreign message (`Participant`); none twice, all of them at rest (`FilFidele`); a broadcast has its reading rows before it is announced (`DiffusionPartout`); the counter is right at rest, and once its token was refused no less than right (`CompteurJuste`); what is marked read was shown (`LuMontre`) |
| `gestion` | one of 8 pages: 2 products, 2 categories, 3 announcements, 2 requests, 1 sale, 3 half days; 2 articles of 2 prices, one zero, 2 969 orders of one line or of 2 to 72; 2 names, contacts, passwords, 2 requests, 1 failure | the catalogue under its foreign keys (`CatalogueCoherent`), stock (`StockCompte`), images and days as chosen (`ChoixGardes`); filters, dashboard, banner (`FiltresFideles`, `StatsJustes`, `BanniereTourne`); invoices faithful to what was paid (`FactureJuste`), in words (`LettresJustes`) and within their pages (`DansLaPage`); profiles saved on both sides (`ProfilJuste`), names that converge (`NomConverge`) |
| `navigation` | 2 roles, 1 failure, 1 change of roles, fairness | a session that ends leads to signing in and never to an error page (`PasDePlantage`), signing out closes both sessions (`SessionJuste`), a dead session is left (`SessionMorteFermee`) |
| `achats` | 1 product, 3 calls at a time, 1 failure, reload or expired token, quantities up to 2 | hearts (`CoeurFidele`), cart page and badge (`PanierJuste`) show the tables at rest; with an expired token in its listener the page shows the cart or an error |

Violations, each of one property (section 4): `double_capture`, `jeton_oublie`,
`coeurs_du_visiteur`.

A property of a run is often the conjunction of named parts, each defined and explained
beside it in its module: `SessionJuste` is the types of `Navigation` and
`DeconnexionComplete`, `GestesRendus` the types of `Suivi`, `SesGestesVus` and
`BoutonsRendus`. The type invariants are parts of `Inductif` (`Boutique`, `Comptes`),
`TypeOK` (`Visiteur`), `GestesRendus`, `Participant`, `CatalogueCoherent`, `FactureJuste`,
`ProfilJuste`, `SessionJuste` and `PanierJuste`.

### Bounds

`Commandes` and `Ordres` are the ids that can ever be given, guarded by
`IdDisponible` and PayPal's `AUCUN`; `MaxPannes` failures; `MaxRestitutions` limits how
far repeated cancellations may put stock back (only that counter can grow for ever);
`Quantites` and `Reassorts` are the values a client or an admin sets. Two requests are
enough for every race between a read and a write, two PayPal orders for a second
`initiate`. `CHECK_DEADLOCK FALSE`: a shop in which nobody sends a request, or whose
ids are used up, may stop; `navigation` and `achats` never stop and are checked for it.
`concurrent` has one order, so that a row of the cart that goes away during the
consumption is met there and a number that two orders draw is not: two orders with two
requests are beyond what TLC finishes. The theorem `FactureSuivieVraie` is about any
number of orders, and `sequentiel` and section 4 about two.

In `visiteur`, two requests are one merge and what races or follows it, and two
products are one that both carts hold and one that they do not; a cart request and a
favourites request do not overlap (`MemeTable`: they share the session row only, and
`CreateSession` is raced within each). `MaxArticles` bounds what additions can build up,
`FusionSeule` leaves out the merges of which section 4 shows that they lose. In `comptes`
only two changes of role overlap, the case users.service.ts:57 is exposed to, and every
other request of several steps runs alone; `SyncUser`, sign-ins, expirations and links
come at any moment. One account is enough: no handler looks at two.

In `suivi`, `MaxClics` bounds the clicks of the staff for each payment method: on a cash
order a state change, the cash and an assignment meet, on an online one, which has no cash
to confirm, a state change and an assignment (a third click there took the run from 1.4 to
4.4 million states, and held), and each may meet a cancellation. Lost answers
(`Perdre`) are not counted: a slot has one answer to lose.
A member of the staff has one page and does not load it anew while a request of it runs
(`AttendRien`): the answer would come to nobody.
`Recharge = FALSE`: a return page that is reloaded while it waits is run
`double_capture`, after which `BoutonAccepte` and `PagesVraies` fail too, since the order
was cancelled although it is paid. Slots and PayPal orders are symmetric there and every
property is an invariant. In `messagerie`, `Prise = 1` stands for the 50 broadcasts the
route returns, so that the second one is past the limit; the bell's first count, when it
is still under way, is one of the two gestures.

`gestion` follows one page at a time (`volet`): the pages share no table that a property
relates. `MaxGestes` bounds, page by page, what the user does; a request takes the first
free slot (slots are alike); the products page starts with one product, the other id is
for a creation. The orders of `document` are lines of one price for every multiple of ten
millimes up to 10 DT, every dinar up to 1 100 DT, a sample up to two million dinars, and
two alternating prices for 2 to 72 lines, which meet each of the page breaks. In its
profile, `MaxSaisies = 4` is what the person does: open, type, save, leave or save
again. In `achats`, `MaxFautes` counts failures, reloads and tokens that expire, one product is enough since
no handler looks at two, and three calls are a click, its answer's refresh and another.

### Fairness

`FairCaisse`, for the violation run `double_capture`, is weak fairness of the steps of
running requests: Node resumes a handler whose call returned. Nothing makes a user send a
request, a client approve, or a request die. In `comptes` it is, beside that, weak
fairness of `Connexion` and `Expire` and strong fairness of `SyncUser`: tokens last
minutes, and a person who keeps the shop open has theirs renewed (`lib/auth.ts:74`) and
requests made with it. `RoleConverge` asks nothing of an account that is not enabled or
still being changed. `FairNavigation` lets tokens age, `SessionProvider` ask for the
session and get its answer (each time its window gets the focus: providers.tsx:9 sets no
interval), the watcher's
effect run, and a sign-out that began go on. `FairGestion` has the interval of the
banner, and for the profile: some request goes on or starts, and tokens are renewed and
expire. `Promesse!ESpec` has no fairness: `ArgentDAbord` is about safety.

## 4. Findings

Three properties said in comments are violated by a run each:

- `double_capture`: the return page is reloaded while its capture runs. PayPal refuses
  the second capture, which writes FAILED over SUCCESS and cancels the order that was
  paid.
- `jeton_oublie`: the frontend sends the account's token or the session's, never both,
  so the merge that the backend makes when it gets both never happens.
- `coeurs_du_visiteur`: a client who loads a page gets the visitor's hearts: the list is
  asked for before the session is known, and once.

The same modules with other instances show more. These are properties the modules
state; each fails under the instance named:

- `FactureSuivie` without its exception `NumeroPris`, two cash orders: confirmed at the
  same time they draw the same invoice number, and the second insert fails on it; without
  `RangDisparu`, one online order: a row of the cart removed during the consumption makes
  it throw. Both leave a payment in SUCCESS and no invoice, with no failure from outside,
  and for ever: capture and confirmCash return at once when they read SUCCESS
  (payments.service.ts:108, :178), and nothing else writes an invoice.
- `EtatsDefinitifs`, two requests: a status change that read the order before it was
  cancelled writes over ANNULEE (orders.service.ts:356 says it is final).
- `VenteCouverte`, two requests: two cash orders read the same stock before either takes
  it, and the second takes it below zero (orders.service.ts:65).
- `PasDeStockFantome` (`Boutique`), two cancellations of a cash order at the same time:
  its quantities are put back twice.
- `CommandeBloquee` (`Comptes`), a registration that dies after it made the account in
  Keycloak cannot be done again (409), and the first sign-in creates the row with
  `isVerified: true`: the address is never confirmed and orders are open.
- `BoutonAccepte` and `PagesVraies`, `Recharge = TRUE`: the order that a second capture
  cancelled is paid.
- `PagesVraies`, an order captured while another one is paid (28 states): both draw the
  same number, the capture whose insert fails is answered with an error, and when the
  return page is loaded again the payment is already SUCCESS: the page says that it was
  accepted, and the order has no invoice (invoices.service.ts:37, payments.service.ts:108).
- `OuvrirCestLire` (`Boites`): the client's bubble asks for the thread, which marks it
  read, as soon as it knows its contact, while it is still closed.

What the listeners of the pages keep from their first rendering, against what their
comments say, is part of two properties, which name it as their exceptions:

- `CompteurJuste`: notification-bell.tsx:18-20 and :52-54 say that the bell counts anew
  when a thread is opened. Its listener keeps the `refresh` of the first rendering
  (:55-59) and, through `useApi`, its access token. After a renewal that token expires,
  the count is answered 401 and the error is swallowed: what is read is no longer taken
  off the bell, which goes on adding what arrives, until the page is loaded again.
- `PanierJuste`: cart-badge.tsx:8-10 says that the badge follows each change of the cart.
  Its listener keeps the first token too. Once it has expired `OptionalAuthGuard` ignores
  it, cart.service.ts:170 answers 400, and the badge stays as it is without anything
  having crossed. The page of the cart (panier/page.tsx:40-44) shows that error instead
  of the cart, and goes on showing it until it is mounted again.

Order pages of the staff: `assign` (orders-admin.tsx:66-77) has a `finally` and no
`catch`. A refused assignment, one that dies and one whose answer is lost give the button
back and show nothing, although the driver may have been written; `updateStatus` beside
it and the cash button show an error. `GestesRendus` therefore asks of an assignment that
it be seen only when it is answered.

Orders and payments: a capture which dies between the statut and the consumption lets a
cancellation put back stock that was never taken; a capture whose answer is lost ends as
FAILED although the money was taken; a cart line removed during the consumption leaves a
captured order without consumption or invoice; an order cancelled while its PayPal page
is open can still be paid (neither `initiate` nor `capture` looks at its state); two
concurrent confirmations of cash send the e-mails twice; an address can be written after
the order left.

Visitors: with `FusionSeule = FALSE` and `Connectes = {"deux"}`, two merges of one session
at the same time lose a cart (`RienPerdu` fails in 12 steps: the first gives the
session's cart to the account, the second, which had found the same cart on both sides,
merges it into itself and deletes it) and a favourite (`RienPerdu` again, 10 steps: the second
finds the product in the account, where the first has just moved it, and deletes that
row). A merge that dies between two rows copies the first again when it is done again,
and two additions of one product at the same time count as one.

Invoices: the PDF's net is the order's total plus a stamp of one dinar, while
`Paiement` and `Facture.montant` have the total alone. From 80 000 dinars on the words
are "quatre-vingts mille" and "deux cents mille", against montant-en-lettres.ts:51 and
:67 (so `LettresJustes` stops there); from a thousand million dinars on a word is undefined. A
row of the cart keeps the price of its first addition, and a cancelled order that comes
back into an existing row takes that row's price. Rounded rows may not add up to the
rounded total above the totals, and a long name takes two lines of a row of one.

Profiles: a name that was saved is written back to the old one by the next request with
an older token (some minutes), and a settings page opened meanwhile shows the old name;
saved for the phone alone it sends that name to Keycloak, and the new one is lost. The
timer of an earlier "✓ Enregistré" re-enables the button of a save that is running
(profile-form.tsx:37). An error may be shown after Keycloak took the new password.

## 5. Proofs

Every theorem holds for any number of users, products, orders, requests, messages and
failures that the assumptions of its module allow. `PROJECT.json` lists them with the
property each one states. The safety properties alone are never inductive: they are
about what is at rest or on a page, and say nothing of a handler that checked its guard
and has not written yet, or of an answer on its way. Each proof module begins with the
invariant that says it; the order below is that of the modules.

### Assumptions

Each is the `ASSUME` of the module that declares the constants: ids and markers
(`Aucun`, `Personne`, `Tous`) do not clash, bounds are numbers, the sets over which the
code sums or counts are finite. Those that say more than this:

- `BoitesAssumption`: a page has the bubble and at most one of the other threads
  (`Ecrans`), since the inbox is on `/messages`, `ChatAdmin` on `/admin/messages`, the
  driver's panel in `order-tracker.tsx` and the bubble in the layout; nobody writes to
  himself.
- `FacturationAssumption`: prices are multiples of ten millimes, zero among them
  (`Decimal(10, 2)` in `schema.prisma`, `step="0.01"` in `admin/product-form.tsx`).
- `VisiteAssumption`: an added quantity is at least one (`@Min(1)` in `cart/dto/`).
- `AchatsAssumption`: the catalogue has a product and finitely many.
- `SuiviAssumption`: `Aucun` is no order, slot, admin or copy of an order, and clicks
  are counted by numbers.
- The two theorems about requests one at a time (`StockJusteVrai`, `UneSeuleFoisVrai`)
  have `Requetes = {r}` and `MaxPannes = 0` as hypotheses: section 4 shows that they
  fail otherwise. `RienPerduVrai` has `FusionSeule`, for the same reason.
- `BoutonAccepteVrai`, `CaptureIdempotenteVraie`, `AnnuleVraie` and `PagesVraiesVrai`
  have `~Recharge`, and the last one `[]UnTirage`: section 4 shows why.

### Orders and payments

`Inductif` says, beside the types, that the tables tell the truth about the money
(`TablesFideles`: a SUCCESS online was captured, a delivered or invoiced order was
paid, a PayPal order belongs to the payment that stores its id), that each running
request still holds a true belief (`RequeteFidele`, one conjunct for each `pc`),
that invoice numbers are 1..n, and that a number drawn and not used is at most the
next one.

The argument (`BoutiquePreuves`): money once taken stays taken, an order stays
created and its method, client and lines do not change (`AcquisPas`); every
belief a request can hold is of that kind, so the steps of other requests cannot
falsify it (`RequeteStable`, `RequetesPas`), and the step of the request itself
establishes the next belief. Then `TablesPas`, and for the invoices a cardinality
argument: a fresh number that is at most n + 1 is n + 1 (`NumerosPas`,
`FacturesPas`). This holds although the statut itself is not stable: a SUCCESS can
be overwritten (run `double_capture`), but the guards that let an order go on were
true of the money. Hence `TypeCorrect`, `LivreeEncaisseeVrai` and
`FacturesSequentiellesVrai`. Its last part shows that every step of every request
is an event of `Encaissement` or a stutter (`ArgentDAbordVrai`).

`UneSortieParCaptureVraie` counts: `EnSuspens(c)` are the requests that hold a capture
of c, or its success, and have not taken the stock yet; what was taken for c plus
their number is never more than the captures (`SortiesJustes`). A capture adds one to
both sides, the consumption moves one from one term to the other.

`FactureSuivieVraie` is an action property: the step that takes the money of an order
leaves its request on the way to the invoice (`Porteur`), a step of another request does
not touch it, and each await of its own leads to the next, to the invoice, or to one of
the three ends the property names. `Inductif` supplies what a step needs to know of the
numbers drawn and of the order.

For one request at a time, `Seul` says what the order, its money, invoice and e-mails
are at each `await` of the one request (`DebitSeul`, `SortieSeule`, `DocumentsSeuls`,
`RequeteSeule`), and that at rest all of it is done.

### Pages of the orders

`CaissePreuves` is about the pages beside the services, which have no invariant of
their own there: `CaisseEstBoutique` (every step of a page is a step of `Boutique` or
none) brings `Inductif` along. On top of it:

- `Pages`: what a slot, its request and its event are about is one order of the kind its
  click needs, each tab waits for the click it made, a page of the staff shows orders
  that exist. Every step is of one of a few kinds (`Genre`), and the lemmas after it are
  about a kind, not about each button.
- `SuiviFort`, for `SuiviFideleVrai`: until a page misses something, at most one event
  is on its way, it carries the state the order has, and without one the page shows it.
- `GestesFort`, for `GestesRendusVrai`: each order that a page owes something for
  (`aVoir`) has an error, a refresh, or a click that will bring one, the click of that
  order when it is an assignment; a button that is off has its click.
- `Payes`, for `BoutonAccepteVrai` and `CaptureIdempotenteVraie`: a capture has a tab
  that waits for it, so an order has one request of its payment at a time, and each of
  its awaits knows whether the payment is SUCCESS (`Argent`); what it made SUCCESS
  nothing takes back (`ArgentDure`), and an order that is not paid online has no driver.
- `Stocks`, for `AnnuleVraie`: the articles of the order that a tab is paying are in its
  cart or out of the stock, never both (`PanierSuit`), since a client has one tab and
  an order whose payment is not SUCCESS has taken nothing (`Nets`).
- `Debits`, `Tirages`, `Invoices`, for `PagesVraiesVrai`: while no request dies, money
  that PayPal took and the payment does not say yet has the handler that will write it,
  and a paid order has its invoice or the handler that will insert it; the number drawn
  is free.

`UnTirage` (no two orders have a number that is drawn and not inserted) is needed for the
invoice behind "payment accepted" alone; that a success was paid and a refusal was not is
`MontrePaye` and `RefusVrai`, without it. In these modules a client has one tab.

### Visitors

`TypeInductif` adds to the types what a running request holds. `SuiviInductif` adds
what a merge still knows: the cart it works on is its owner's, and a product it has left
behind it is in the account's cart unless somebody removed it. `FideleInductif` adds,
for a request that runs alone, that what the visitor should have is what the rest of the
request will make of the tables (`Promis`, which follows the handler backwards from its
last write). The total of a cart is a sum over its rows; `TotalVaut` is all the proofs
use of it.

### Accounts

`Inductif` of `Comptes`: types; accounts and rows that were never made are
untouched (`CompteConnu`); a request is about an account that exists and, past its
insert or its `findOne`, about a row that exists (`RequeteConnue`); a change of role
that runs alone has the rest of Keycloak's roles still to take away and gives the
new one exactly when it is missing (`ChangementFidele`); and, until a failure, one
request runs, Keycloak is ahead of the row of the account being suspended and of
no other (`UneSeule`, `SuspensionLocale`, `SuspensionEnCours`), and a registered
account has its row or a registration that still runs and no token
(`VerificationFidele`, `InscriptionEnCours`). The argument: rows and
accounts never go away (`ExistePas`), a request that starts takes `seule` from the
others, so no other can disturb one that kept it.

### Messages

Four invariants, each on top of the one before. `PagesJustes`: what tables, events,
answers and pages hold exists, is about moi and comes once, and ids stay in their order
(hence `Participant`, `DiffusionPartout` and that no thread shows a message twice).
`PagesCalmes`: at a component that nothing disturbed, the messages of its thread are on
the page or in the events it will get, in order (hence `FilFidele`: at rest no event is
left). `LusCalmes`: what is marked read was shown. `ClocheCalme`: what the bell shows,
plus the events it will count, is what is left to read (`Accord`), and from a refused
token on no less than that (`Plancher`; hence `CompteurJuste`). The
hardest steps are an answer that replaces a thread while events are queued behind it,
and a count that is read while messages are being inserted.

### Catalogue, front page, documents, profiles

The parts of `Gestion` share no state, so each has its own invariant. `EncoursJuste`: a
form that was sent has a request that writes its own row, with what was typed or what
the form was opened with; days are midnights in the tables, so that reading them back
loses none. `VitrineJuste`: the filters in the URL, in the field and in the pending
navigation agree, and the queries of the dashboard that were read are off by what
changed since. `DocumentJuste`: quantities and prices are the same in the cart, the
order, the invoice and the lines left to draw, and the height left on the page is enough
for what is drawn before the next test. `ProfilSuivi`: what a form shows, what it sent
and what is written on either side is what was asked last, unless another form or an
older token came between.

### Browser session

`Inductif` of `Navigation` adds the tokens that the cookie no longer has: those in an
answer of `/api/auth/session` and in a page being rendered have today's roles until an
admin changes them (`RolesDuJour`), the page was let through by the proxy (`Admise`),
and from `signOut` on no token is left anywhere unless an answer crossed the call
(`Deconnectee`).

### Hearts, cart page and badge

`Inductif` of `AchatsPreuves` says what each call on its way will make of what is shown.
For a product that is not in doubt (`CoeurJuste`): its list is the owner's and, once
read, is right; a click that came before the list is in it; a click that came after it
changes the table into what is shown, or is taken back. For the badge and the page of
the cart (`CibleJuste`): the calls for them are the owner's and, once read, are right,
unless an event is still to come; with none on its way, what is shown is the cart. A
component whose listener's token has expired is outside the badge's part of it, and the
page shows the cart or the error.
`OublisSus`: a change that nobody waits for puts both in doubt.

### Sums and counts

`TotalDe`, `Somme`, `Total` and cardinalities are recursive functions or folds. What is
needed of them (bounds, the effect of one changed term, an order for a finite set of
ids) is proved by taking a least counterexample (`WFMin`) or by adding one element at a
time along a finite set.

### Only model-checked

- Liveness, which is out of the prover's reach: `RoleConverge`, `NomConverge`,
  `BanniereTourne`, `SessionMorteFermee`.
- `LettresJustes`: the words of an amount are computed by recursion over its digits;
  what they are for every amount is an induction over data.

## 6. Not modelled

The users page of the admin, the registration and verification pages and the page of
the favourites: one request each and its answer, over operations that are modelled.
Metrics, SMTP, the transfer to Cloudinary, the cryptography of tokens and links, the
layout of the PDF beside its page breaks, navigation bars and static pages. The caches of
PayPal's and Keycloak's admin tokens. Reads without a property: lists, search, the
support contact.

Hazards of the code that no property covers, beside those noted in `PROJECT.json`:
`initiate` again replaces the id of a PayPal order that may still be approved
(payments.service.ts:75); a cart line reduced since it was read becomes zero or negative
by the decrement (orders.service.ts:161); two additions of one product at the same time
count as one (cart.service.ts:49).

## 7. Plan

1. An abstract cart that `Visiteur` implements when requests come one at a time.
2. A client with several tabs in `Caisse`: two return pages of one order.
