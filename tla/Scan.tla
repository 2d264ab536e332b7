-------------------------------- MODULE Scan --------------------------------
(***************************************************************************)
(* A scan of one resource type, page by page, beside everything ReadAlias  *)
(* lets happen to the type's alias, indices and instances.  Every page is  *)
(* a request to any instance that serves; the token carries the scan from  *)
(* one to the next.  The consumer asks for the next page with the token of *)
(* the last page it received, so a page whose answer is lost is asked for  *)
(* again.                                                                  *)
(***************************************************************************)
EXTENDS ReadAlias, SequencesExt

VARIABLES
    scan,   \* the scan: the consumer's token and hits, and the request in flight
    pit,    \* the point in time its pages read
    world   \* the clock, the cluster's release, and what has been spent

scanVars == <<scan, pit, world>>
vars == <<aliasVars, scanVars>>

NoToken == [start |-> 0, version |-> 0, print |-> <<0, 0, 0>>, after |-> 0]
NoPit == [version |-> 0, docs |-> {}, live |-> FALSE]

\* The documents among docs that a request sees under one content of a
\* version's config: its filters, and the scope its middlewares set.
Visible(docs, shape, ask) == {r \in docs : <<shape, ask, r>> \notin Setup.hidden}

\* The next page: the first PageSize documents after the last one seen, in
\* the search's total order.
PageOf(docs, after) ==
    LET rest == SetToSortSeq({r \in docs : r > after}, <)
    IN  SubSeq(rest, 1, IF Len(rest) < Setup.pageSize THEN Len(rest) ELSE Setup.pageSize)

Charge(what) ==
    /\ world[what] < Setup[what]
    /\ world' = [world EXCEPT ![what] = @ + 1]

\* The scan ends with ErrScanFault, ErrCursorExpired or ErrInvalidPageToken.
Fails(error) == scan' = [scan EXCEPT !.pc = "failed", !.error = error]

(***************************************************************************)
(* Indexer.Search: pin the first page, check a later page's token          *)
(***************************************************************************)

\* SHA-256 over the request, the pinned version and the content of its
\* config: two requests have the same fingerprint when these are the same.
ScanFingerprint(i, ask, v) == <<ask, v, Config(i).shape[v]>>

\* The configured version whose index is the one the alias points to.
PinReadAlias(i) == {v \in Config(i).versions : alias = {v}}

\* The first page pins what the alias serves: an alias that does not exist
\* yet answers an empty scan, one with several targets or with a target no
\* configured version owns is a fault.
BeginFirst(i) ==
    /\ scan.pc = "ready" /\ scan.token = NoToken /\ inst[i].pc = "serving"
    /\ \E ask \in Setup.asks :
        \/ /\ alias = {}
           /\ scan' = [scan EXCEPT !.pc = "ended"]
        \/ /\ alias # {} /\ PinReadAlias(i) = {}
           /\ Fails("fault")
        \/ \E v \in PinReadAlias(i) :
               scan' = [scan EXCEPT !.pc = "open", !.inst = i, !.version = v, !.start = world.ticks,
                                    !.began = world.ticks, !.print = ScanFingerprint(i, ask, v)]
    /\ UNCHANGED <<aliasVars, pit, world>>

\* Faulty variant: the token is good for any request of its version.
TokenErrorUnfingerprinted(i, ask) ==
    CASE world.ticks - scan.token.start > Setup.maxAge -> "expired"
      [] OTHER -> IF scan.token.version \in Config(i).versions THEN "no" ELSE "expired"

\* A later page's token: not older than ScanMaxAge, its version still
\* configured, and issued for this request under this config.
TokenError(i, ask) ==
    CASE world.ticks - scan.token.start > Setup.maxAge -> "expired"
      [] world.ticks - scan.token.start <= Setup.maxAge ->
            IF scan.token.version \notin Config(i).versions THEN "expired"
            ELSE IF ScanFingerprint(i, ask, scan.token.version) # scan.token.print THEN "invalid" ELSE "no"

BeginLater(i) ==
    /\ scan.pc = "ready" /\ scan.token # NoToken /\ inst[i].pc = "serving"
    /\ \E ask \in Setup.asks :
        \/ /\ TokenError(i, ask) # "no"
           /\ Fails(TokenError(i, ask))
        \/ /\ TokenError(i, ask) = "no"
           /\ scan' = [scan EXCEPT !.pc = "search", !.inst = i, !.version = scan.token.version,
                                   !.start = scan.token.start,
                                   !.print = ScanFingerprint(i, ask, scan.token.version)]
    /\ UNCHANGED <<aliasVars, pit, world>>

(***************************************************************************)
(* Client.scan                                                             *)
(***************************************************************************)

\* The config a page's query is built with, as the page's beginning pinned it.
Shape == scan.print[3]

\* checkScanSupported.  A passing version is remembered, and the cluster's
\* release never goes back, so asking each time gives the same answers.
CheckScanSupported == world.modern

\* A refused scan leaves no point in time behind.
ScanRefused ==
    /\ scan.pc \in {"open", "search"}
    /\ ~CheckScanSupported
    /\ Fails("fault")
    /\ UNCHANGED <<aliasVars, pit, world>>

\* The first page opens a point in time on the index it pinned, which may be
\* gone by now.
OpenPointInTime ==
    /\ scan.pc = "open" /\ CheckScanSupported
    /\ IF ~Exists(scan.version)
       THEN Fails("expired") /\ UNCHANGED pit
       ELSE LET docs == {r \in Rows : index[scan.version].doc[r] # 0}
            IN  /\ pit' = [version |-> scan.version, docs |-> docs, live |-> TRUE]
                /\ scan' = [scan EXCEPT !.pc = "search", !.want = Visible(docs, Shape, scan.print[1])]
    /\ UNCHANGED <<aliasVars, world>>

\* Before 8.11.0 a search_after page drops the documents without the sort
\* field.
Served == IF world.modern \/ scan.token = NoToken THEN pit.docs ELSE pit.docs \ Setup.unsorted

Hits == PageOf(Visible(Served, Shape, scan.print[1]), scan.token.after)

\* The next token copies the start, version and fingerprint; only the cursor
\* is new.
NextToken(hits) ==
    [start |-> scan.start, version |-> scan.version, print |-> scan.print, after |-> Last(hits)]

LastPage(hits) == Len(hits) < Setup.pageSize

\* A whole page.  The last one closes the point in time; the answer may be
\* lost on its way to the consumer, who then asks again.
SearchPage ==
    /\ scan.pc = "search" /\ CheckScanSupported /\ pit.live
    /\ pit' = IF LastPage(Hits) THEN [pit EXCEPT !.live = FALSE] ELSE pit
    /\ \/ /\ scan' = IF LastPage(Hits)
                     THEN [scan EXCEPT !.pc = "ended", !.got = @ \o Hits]
                     ELSE [scan EXCEPT !.pc = "ready", !.got = @ \o Hits, !.token = NextToken(Hits)]
          /\ UNCHANGED world
       \/ Charge("retries") /\ scan' = [scan EXCEPT !.pc = "ready"]
    /\ UNCHANGED aliasVars

\* A search timeout or a failed shard cuts the page short.
CutShort ==
    /\ scan.pc = "search" /\ CheckScanSupported /\ pit.live /\ Charge("cuts")
    /\ Fails("fault")
    /\ UNCHANGED <<aliasVars, pit>>

\* Any 404 is ErrCursorExpired.
PitGone ==
    /\ scan.pc = "search" /\ CheckScanSupported /\ ~pit.live
    /\ Fails("expired")
    /\ UNCHANGED <<aliasVars, pit, world>>

\* A request fails on its way: the page is asked for again.
RequestLost ==
    /\ scan.pc \in {"open", "search"}
    /\ Charge("retries")
    /\ scan' = [scan EXCEPT !.pc = "ready"]
    /\ UNCHANGED <<aliasVars, pit>>

(***************************************************************************)
(* What happens around the scan                                            *)
(***************************************************************************)
Tick == Charge("ticks") /\ UNCHANGED <<aliasVars, scan, pit>>

\* The keep-alive runs out between two pages.
PitExpires ==
    /\ pit.live /\ Charge("expiries")
    /\ pit' = [pit EXCEPT !.live = FALSE]
    /\ UNCHANGED <<aliasVars, scan>>

ClusterUpgraded ==
    /\ ~world.modern
    /\ world' = [world EXCEPT !.modern = TRUE]
    /\ UNCHANGED <<aliasVars, scan, pit>>

\* A deleted index takes its points in time with it, and an instance that
\* stops the page it was serving: the consumer asks another for it.
AliasStep ==
    /\ AliasNext
    /\ scan' = IF scan.pc \in {"open", "search"} /\ inst'[scan.inst].pc # "serving"
               THEN [scan EXCEPT !.pc = "ready"] ELSE scan
    /\ pit' = IF pit.live /\ index'[pit.version].made = "no" THEN [pit EXCEPT !.live = FALSE] ELSE pit
    /\ UNCHANGED world

Init ==
    /\ AliasInit
    /\ scan = [pc |-> IF Setup.scans THEN "ready" ELSE "off", error |-> "no", inst |-> 0, version |-> 0,
               start |-> 0, print |-> <<0, 0, 0>>, token |-> NoToken, began |-> 0, want |-> {}, got |-> <<>>]
    /\ pit = NoPit
    /\ world = [ticks |-> 0, modern |-> Setup.modern, retries |-> 0, cuts |-> 0, expiries |-> 0]

Next ==
    \/ AliasStep
    \/ \E i \in Setup.instances : BeginFirst(i) \/ BeginLater(i)
    \/ ScanRefused \/ OpenPointInTime \/ SearchPage \/ CutShort \/ PitGone \/ RequestLost
    \/ Tick \/ PitExpires \/ ClusterUpgraded

Spec == Init /\ [][Next]_vars

(***************************************************************************)
(* Properties                                                              *)
(***************************************************************************)

\* A scan that ends without an error has handed out every document of the
\* one snapshot its first page read that its request may see under the
\* config it pinned, each exactly once and in order, whatever cutovers,
\* rollouts, deletes, writes and retried pages happened between its pages;
\* until then, and when it fails, it has handed out a prefix of that.
ScanExact ==
    /\ IsPrefix(scan.got, SetToSortSeq(scan.want, <))
    /\ scan.pc = "ended" => scan.got = SetToSortSeq(scan.want, <)

=============================================================================
