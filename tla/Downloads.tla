----------------------------- MODULE Downloads -----------------------------
(***************************************************************************)
(* Downloads by a browser, which cannot send the session's bearer token: a *)
(* short-lived grant in the URL, then a cookie that the redemption of the  *)
(* grant sets, each bound to one resource.  The resources are a backup's   *)
(* archive, served in byte ranges and resumed by the browser, and the zip  *)
(* of a server's files, streamed while they change.                        *)
(*                                                                         *)
(* One user and one browser.  A request is admitted, resolved and then     *)
(* streamed; grants, permissions, files and archive change in between.     *)
(***************************************************************************)
EXTENDS Naturals, Sequences

CONSTANTS
  None,
  download_grant_ttl, download_cookie_ttl,
  Names,       \* files of the server
  Size,        \* bytes of the archive
  MaxTime,     \* bound: the clock
  MaxEvents,   \* bound: changes of permissions, files and archive
  MaxRequests, MaxGrants  \* bounds: requests, grants

Resources == {"backup", "files"}

VARIABLES
  now,
  active, allowed,  \* the account is active; it may read the server
  at_rest,     \* the server's
  url, jar,    \* per resource: the grant of the URL and the cookie the browser has
  req,         \* the request in progress
  archive,     \* the backup: "kept", "unlinked" (its row is left) or "gone"
  got, finished, \* the bytes of the archive the browser has, by number; it has asked
               \* for the rest and the answer was complete
  trees, pinned, \* the published generations, and the one the zip reads
  zip, stayed, \* its members; the files that have been there since it was opened
  events, requests, issues

vars == <<now, active, allowed, at_rest, url, jar, req, archive, got, finished, trees, pinned, zip, stayed, events, requests, issues>>
rights == <<active, allowed>>
store == <<archive, trees>>
counts == <<events, requests, issues>>
client == <<got, finished, zip, stayed, pinned>>

current == Len(trees)

-----------------------------------------------------------------------------
(* Credentials *)

\* root is when the session's own token was last shown for the resource.
issue_resource_scoped(purpose, res, ttl, root) == [purpose |-> purpose, res |-> res, exp |-> now + ttl, root |-> root]

verify_resource_scoped(token, res, purpose) ==
  IF token = None THEN FALSE ELSE now < token.exp /\ token.purpose = purpose /\ token.res = res

authorize_two_layer == allowed
Idle == req = None

Resolves(res) == IF res = "backup" THEN archive # "gone" ELSE at_rest
issue_download_grant(res) ==
  /\ Idle /\ active /\ authorize_two_layer /\ Resolves(res)
  /\ issues < MaxGrants /\ issues' = issues + 1
  /\ url' = [url EXCEPT ![res] = issue_resource_scoped("download", res, download_grant_ttl, now)]
  /\ UNCHANGED <<now, rights, at_rest, jar, req, store, client, events, requests>>
issue_backup_download_grant == issue_download_grant("backup")
issue_file_download_grant == issue_download_grant("files")

Held == {url[r]: r \in Resources} \cup {jar[r]: r \in Resources} \cup {None}

redeem_download_grant(grant, res) == active /\ verify_resource_scoped(grant, res, "download")
redeem_download_cookie(cookie, res) == active /\ verify_resource_scoped(cookie, res, "cookie")

\* A Range header: the first and last byte asked for, or None for either; Rest are those
\* that ask for all the browser lacks.
Header(first, last) == [first |-> first, last |-> last]
Rest == {None, Header(Len(got), None), Header(None, Size - Len(got))}

\* What the request is good for, and the cookie its answer sets, if it succeeds.
Admitted(res, root, mint, range) ==
  /\ authorize_two_layer
  /\ req' = [res |-> res, at |-> now, root |-> root, mint |-> mint, range |-> range, stage |-> "admitted", todo |-> {}, rest |-> range \in Rest]

\* The session's token is enough, and sets no cookie.
require_bearer(res, range) == active /\ Admitted(res, now, None, range)

\* The grant first; when it does not verify, the cookie, which is not renewed.
require_download_access(res, grant, cookie, range) ==
  \/ /\ redeem_download_grant(grant, res)
     /\ Admitted(res, grant.root, issue_resource_scoped("cookie", res, download_cookie_ttl, grant.root), range)
  \/ /\ ~redeem_download_grant(grant, res) /\ redeem_download_cookie(cookie, res)
     /\ Admitted(res, cookie.root, None, range)

\* download_cookie_middleware: on an answer that succeeds.
SetsCookie == jar' = IF req.mint = None THEN jar ELSE [jar EXCEPT ![req.res] = req.mint]

Arrives(res, grant, cookie, range) ==
  /\ Idle /\ requests < MaxRequests /\ requests' = requests + 1
  /\ \/ grant = None /\ cookie = None /\ require_bearer(res, range)
     \/ require_download_access(res, grant, cookie, range)
  /\ zip' = [n \in Names |-> None] /\ stayed' = {}
  /\ UNCHANGED <<now, rights, at_rest, url, jar, store, got, finished, pinned, events, issues>>

Unsatisfiable == [start |-> 1, end |-> 0]   \* RangeNotSatisfiableError
At(res, stage) == req # None /\ IF req = None THEN FALSE ELSE req.res = res /\ req.stage = stage
Refused ==
  /\ req # None /\ req.stage \in {"admitted", "sized"}
  /\ \/ req.res = "backup" /\ archive # "kept"
     \/ req.res = "files" /\ ~at_rest
     \/ req.stage = "sized" /\ req.range = Unsatisfiable
  /\ req' = None /\ UNCHANGED <<now, rights, at_rest, url, jar, store, client, counts>>

-----------------------------------------------------------------------------
(* A backup's archive, in ranges *)

Least(a, b) == IF a <= b THEN a ELSE b
Most(a, b) == IF a >= b THEN a ELSE b

suffix_range(suffix) ==
  IF suffix = 0 \/ Size = 0 THEN Unsatisfiable ELSE [start |-> Most(Size, suffix) - suffix, end |-> Size - 1]

parse_byte_range(header) ==
  CASE header = None -> None
    [] header # None /\ header.first = None -> suffix_range(header.last)
    [] header # None /\ header.first # None ->
         IF header.last # None /\ (IF header.last = None THEN FALSE ELSE header.last < header.first) THEN None
         ELSE IF header.first >= Size THEN Unsatisfiable
         ELSE [start |-> header.first, end |-> IF header.last = None THEN Size - 1 ELSE Least(header.last, Size - 1)]

served_range(header, if_range, etag) ==
  IF if_range # None /\ if_range # etag THEN None ELSE parse_byte_range(header)

\* Headers a browser sends: none, what it lacks of the file, as a range or as a suffix,
\* the next byte, more than there is, or none that is valid.
Headers == Rest \cup {Header(Len(got), Len(got)), Header(Len(got), Size + 1), Header(1, 0)}
archive_etag == "etag"

download_backup(if_range) ==
  /\ At("backup", "admitted") /\ archive = "kept"
  /\ req' = [req EXCEPT !.stage = "sized", !.range = served_range(@, if_range, archive_etag)]
  /\ UNCHANGED <<now, rights, at_rest, url, jar, store, client, counts>>

\* The first chunk is read before the status is chosen.  A whole answer replaces what the
\* browser has; a partial one is appended to the bytes it asked to have continued.
archive_stream ==
  /\ At("backup", "sized") /\ archive = "kept" /\ req.range # Unsatisfiable
  /\ LET whole == [start |-> 0, end |-> Size - 1]
         range == IF req.range = None THEN whole ELSE req.range
     IN /\ req' = [req EXCEPT !.stage = "streaming", !.range = [start |-> range.start, left |-> range.end + 1 - range.start]]
        /\ got' = IF req.range = None THEN <<>> ELSE got
  /\ finished' = FALSE /\ SetsCookie
  /\ UNCHANGED <<now, rights, at_rest, url, store, zip, stayed, pinned, counts>>

\* The open file is read to its end even when the archive is unlinked.
Sent ==
  /\ At("backup", "streaming") /\ req.range.left > 0
  /\ got' = Append(got, req.range.start)
  /\ req' = [req EXCEPT !.range = [start |-> @.start + 1, left |-> @.left - 1]]
  /\ UNCHANGED <<now, rights, at_rest, url, jar, store, finished, zip, stayed, pinned, counts>>

\* counted: the answer ends with as many bytes as were declared, or it is broken off.
Ends ==
  /\ At("backup", "streaming") /\ req.range.left = 0 /\ req' = None /\ finished' = req.rest
  /\ UNCHANGED <<now, rights, at_rest, url, jar, store, got, zip, stayed, pinned, counts>>
BreaksOff ==
  /\ At("backup", "streaming") /\ req' = None
  /\ UNCHANGED <<now, rights, at_rest, url, jar, store, client, counts>>

-----------------------------------------------------------------------------
(* The files, as a zip *)

view == pinned

walk_files == {n \in Names: trees[current][n] # None}

\* download_file, export_server: the first chunk is asked for, so the view is open.
download_dir ==
  /\ At("files", "admitted") /\ at_rest
  /\ req' = [req EXCEPT !.stage = "streaming", !.todo = walk_files] /\ stayed' = walk_files
  /\ pinned' = current /\ zip' = [n \in Names |-> None] /\ SetsCookie
  /\ UNCHANGED <<now, rights, at_rest, url, store, got, finished, counts>>

\* A listed file that is gone is left out.
zip_dir(n) ==
  /\ At("files", "streaming") /\ n \in req.todo
  /\ zip' = [zip EXCEPT ![n] = trees[view][n]]
  /\ req' = [req EXCEPT !.todo = @ \ {n}]
  /\ UNCHANGED <<now, rights, at_rest, url, jar, store, got, finished, stayed, pinned, counts>>

ZipEnds ==
  /\ At("files", "streaming") /\ req.todo = {} /\ req' = None
  /\ UNCHANGED <<now, rights, at_rest, url, jar, store, client, counts>>

\* The browser goes away: the stream is closed, and the lease with it.
aclose_stream ==
  /\ At("files", "streaming") /\ req' = None /\ zip' = [n \in Names |-> None] /\ stayed' = {}
  /\ UNCHANGED <<now, rights, at_rest, url, jar, store, got, finished, pinned, counts>>

-----------------------------------------------------------------------------
(* Around the downloads *)

Event == events < MaxEvents /\ events' = events + 1 /\ UNCHANGED <<now, url, jar, req, got, finished, zip, pinned, requests, issues>>

Publish ==
  /\ Event /\ trees' = Append(trees, [n \in Names |-> current + 1])
  /\ UNCHANGED <<rights, at_rest, archive, stayed>>
DeleteFile(n) ==
  /\ Event /\ at_rest /\ trees' = [trees EXCEPT ![current][n] = None]
  /\ stayed' = IF current = pinned THEN stayed \ {n} ELSE stayed
  /\ UNCHANGED <<rights, at_rest, archive>>
\* The archive first, then the row.
DeleteBackup ==
  /\ Event /\ archive # "gone" /\ archive' = IF archive = "kept" THEN "unlinked" ELSE "gone"
  /\ UNCHANGED <<rights, at_rest, trees, stayed>>
StartOrStop == Event /\ at_rest' = ~at_rest /\ UNCHANGED <<rights, store, stayed>>
Revoke == Event /\ allowed' = ~allowed /\ UNCHANGED <<active, at_rest, store, stayed>>
Deactivate == Event /\ active' = ~active /\ UNCHANGED <<allowed, at_rest, store, stayed>>
\* A request looks at the clock when it is admitted, and not again.
Time ==
  /\ Idle /\ now < MaxTime /\ now' = now + 1
  /\ UNCHANGED <<rights, at_rest, url, jar, req, store, client, counts>>

Init ==
  /\ now = 0 /\ active = TRUE /\ allowed = TRUE /\ at_rest = TRUE
  /\ url = [r \in Resources |-> None] /\ jar = [r \in Resources |-> None] /\ req = None
  /\ archive = "kept" /\ got = <<>> /\ finished = FALSE
  /\ trees = <<[n \in Names |-> 1]>> /\ pinned = 1 /\ zip = [n \in Names |-> None] /\ stayed = {}
  /\ events = 0 /\ requests = 0 /\ issues = 0

Next ==
  \/ issue_backup_download_grant \/ issue_file_download_grant
  \/ Idle /\ \E grant, cookie \in Held: Arrives("files", grant, cookie, None)
  \/ Idle /\ \E grant, cookie \in Held, range \in Headers: Arrives("backup", grant, cookie, range)
  \/ Refused \/ (\E if_range \in {None, archive_etag, "stale"}: download_backup(if_range)) \/ archive_stream \/ Sent \/ Ends \/ BreaksOff
  \/ download_dir \/ (\E n \in Names: zip_dir(n)) \/ ZipEnds \/ aclose_stream
  \/ Publish \/ (\E n \in Names: DeleteFile(n)) \/ DeleteBackup \/ StartOrStop \/ Revoke \/ Deactivate \/ Time

Spec == Init /\ [][Next]_vars

-----------------------------------------------------------------------------
\* However its credentials are combined and retried, a browser is admitted to a resource
\* only for so long after the session's token was shown for that resource: a retry with
\* the cookie does not renew it, and neither credential passes for the other.
CredentialsExpire == req # None => req.at < req.root + download_grant_ttl + download_cookie_ttl - 1

\* What the browser has of the archive is its beginning, byte by byte, however the
\* download was broken off and resumed, and all of it when the rest has been sent; a zip
\* holds the files of one published generation, and each that was there throughout.
DownloadsWhole ==
  /\ \A i \in DOMAIN got: got[i] = i - 1
  /\ finished => Len(got) = Size
  /\ req = None /\ stayed # {} =>
       \A n \in Names: zip[n] \in (IF n \in stayed THEN {pinned} ELSE {pinned, None})
=============================================================================
