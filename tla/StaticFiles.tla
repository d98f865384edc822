---------------------------- MODULE StaticFiles ----------------------------
(***************************************************************************)
(* One request to a static mount (static/static.go): Mount serves a         *)
(* directory, MountFile one file, MountFS an fs.FS.                         *)
(*                                                                         *)
(* The disk belongs to everyone.  Whatever the handler looks at may be      *)
(* something else the next time, so a step that reads the disk is told what *)
(* it sees, and only the os.Root it opened stays the directory it was when  *)
(* it was opened.                                                           *)
(***************************************************************************)
EXTENDS Sequences, FiniteSets

CONSTANTS MountPoint    \* [kind, spa, index]: see Mounts

\* A mount is of a kind, falls back to its index or not (SPAFallback), and has
\* the default index, one of another name, or one whose extension it denies.
Mounts == [kind : {"directory", "file", "fs"}, spa : BOOLEAN,
           index : {"index.html", "custom", "denied"}]

ASSUME StaticFilesAssumption == MountPoint \subseteq Mounts

(***************************************************************************)
(* requestPath and the two tests before the disk is touched.  "prefix" is   *)
(* the mount's own path, "asset" a file with an allowed extension, "denied" *)
(* one with another extension, "page" a path without an extension, and      *)
(* "unsafe" one that does not decode to a clean path.  No asset has the name *)
(* of the index.                                                            *)
(***************************************************************************)
RequestPath == {"prefix", "asset", "denied", "page", "unsafe"}

VARIABLE visit

Outside == [pc |-> "idle", mount |-> <<>>, path |-> "prefix", handles |-> {},
            root |-> "mounted", serving |-> "request", answer |-> "none"]

StaticFilesInit == visit = Outside

\* Every return closes the root, which is what the deferred Close does.
Answered(result) ==
  visit' = [visit EXCEPT !.pc = "idle", !.handles = @ \ {"root"}, !.answer = result]

RefusesPath(mount, get, path) ==
  \/ path \in {"unsafe", "denied"}
  \/ mount.kind # "file" /\ (~get \/ (path = "prefix" /\ mount.index = "denied"))

\* What StartVisit leaves behind.  MountFS has no root to open.
Entered(mount, get, path) ==
  LET entered == [Outside EXCEPT !.mount = <<mount>>, !.path = path]
  IN  IF RefusesPath(mount, get, path) THEN [entered EXCEPT !.answer = "404"]
      ELSE [entered EXCEPT !.pc = IF mount.kind = "fs" THEN "links" ELSE "open"]

StartVisit(mount, get, path) ==
  /\ visit.pc = "idle"
  /\ visit' = Entered(mount, get, path)

M == Head(visit.mount)

\* openVerifiedRoot: the path may lead to another directory by now, or to
\* none; the handle is compared with the directory that was mounted.
OpenRoot(sees) ==
  /\ visit.pc = "open"
  /\ IF sees = "gone" THEN Answered("404")
     ELSE visit' = [visit EXCEPT !.pc = "verify", !.root = sees, !.handles = {"root"}]

\* Mutant: the handle is trusted because it opened.
AnyRoot == visit.root \in {"mounted", "other"}
Verified == visit.root = "mounted"

VerifyRoot ==
  /\ visit.pc = "verify"
  /\ IF Verified THEN visit' = [visit EXCEPT !.pc = "links"] ELSE Answered("404")

\* rootPathHasSymlink and fsPathHasSymlink: a link anywhere on the path, or
\* something in the way of it.  A path that does not exist has none on disk,
\* and an fs.FS that knows links reports it as one.  For a file mount this is
\* the Lstat.
\* The second look is at the index of a directory, and the third at the index
\* that a fallback serves.
CheckLinks(sees) ==
  /\ visit.pc = "links"
  /\ IF sees = "link" \/ (M.kind = "file" /\ sees # "file")
     THEN IF visit.serving = "request" THEN
            IF M.kind = "fs" THEN visit' = [visit EXCEPT !.pc = "fallback"] ELSE Answered("404")
          ELSE IF visit.serving = "index" THEN visit' = [visit EXCEPT !.pc = "fallback"]
          ELSE Answered("404")
     ELSE visit' = [visit EXCEPT !.pc = "file"]

\* The extension of the candidate: a page has none, and no list allows that.
CandidateAllowed ==
  IF visit.serving = "request" /\ visit.path # "prefix" THEN M.kind = "file" \/ visit.path = "asset"
  ELSE M.index # "denied"

\* A failed first attempt is followed by the fallback, a failed fallback by
\* 404; what was opened is closed.
NotServed ==
  visit' = IF M.kind = "file" \/ visit.serving \in {"fallback", "fallbackIndex"}
           THEN [visit EXCEPT !.pc = "idle", !.answer = "404", !.handles = {}]
           ELSE [visit EXCEPT !.pc = "fallback", !.handles = @ \ {"file"}]

\* localFile and fsFile: open (or stat) and look what it is.  A directory is
\* closed again and its index tried, once.
OpenFile(sees) ==
  /\ visit.pc = "file"
  /\ CASE sees = "directory" /\ M.kind # "file" /\ visit.serving \in {"request", "fallback"} ->
            visit' = [visit EXCEPT !.pc = "links",
                                   !.serving = IF @ = "request" THEN "index" ELSE "fallbackIndex"]
       [] sees = "file" ->
            visit' = [visit EXCEPT !.pc = "candidate",
                                   !.handles = IF M.kind = "fs" THEN @ ELSE @ \cup {"file"}]
       [] OTHER -> NotServed

\* A file whose extension is not allowed is closed again.
CheckCandidate ==
  /\ visit.pc = "candidate"
  /\ IF CandidateAllowed THEN visit' = [visit EXCEPT !.pc = "serve"] ELSE NotServed

\* serveFallback and serveFSFallback: for a path without an extension only.
\* On disk, the path that was asked for must not be a link even so.
Fallback(sees) ==
  /\ visit.pc = "fallback"
  /\ IF ~M.spa \/ M.index = "denied" \/ visit.path = "asset" \/ (M.kind = "directory" /\ sees = "link")
     THEN Answered("404")
     ELSE visit' = [visit EXCEPT !.serving = "fallback", !.pc = IF M.kind = "fs" THEN "links" ELSE "file"]

\* http.FileServer sends the client of a path that ends in /index.html to the
\* directory, which is where it came from.
FileServerRedirects ==
  M.index = "index.html" /\ (visit.path = "prefix" \/ visit.serving # "request")

\* serveLocalFile reads the handle, and closes it; serveFSFile hands the name
\* to http.FileServer, which opens it again.
Serve(sees) ==
  /\ visit.pc = "serve"
  /\ visit' = [visit EXCEPT
       !.pc = "idle", !.handles = {},
       !.answer = IF M.kind # "fs" THEN "200"
                  ELSE IF FileServerRedirects THEN "redirect"
                  ELSE CASE sees = "absent" -> "404" [] sees = "directory" -> "moved" [] OTHER -> "200"]

Seen == {"file", "directory", "link", "absent"}

VisitStep ==
  \/ \E sees \in {"mounted", "other", "gone"} : OpenRoot(sees)
  \/ VerifyRoot
  \/ \E sees \in Seen : CheckLinks(sees)
  \/ \E sees \in Seen : OpenFile(sees)
  \/ CheckCandidate
  \/ \E sees \in Seen : Fallback(sees)
  \/ \E sees \in Seen : Serve(sees)

StaticFilesNext ==
  \/ \E mount \in MountPoint, get \in BOOLEAN, path \in RequestPath : StartVisit(mount, get, path)
  \/ VisitStep

StaticFilesSpec == StaticFilesInit /\ [][StaticFilesNext]_visit

-----------------------------------------------------------------------------
\* What a directory or a file mount sends comes from the directory that was
\* mounted, whatever was put in its place since, and a request that is over
\* has closed every handle it opened.
ServedFromMount ==
  /\ visit.answer = "200" /\ M.kind # "fs" => visit.root = "mounted"
  /\ visit.pc = "idle" => visit.handles = {}

\* A mount serves the index it is configured with: nobody who asks for it is
\* sent back to where it came from.
IndexIsServed == visit.answer # "redirect"

\* What the proofs need: past VerifyRoot a directory or file mount reads below the
\* directory it mounted, and a file is open only until it is served or refused.
VisitInv ==
  /\ visit = [pc |-> visit.pc, mount |-> visit.mount, path |-> visit.path,
              handles |-> visit.handles, root |-> visit.root, serving |-> visit.serving,
              answer |-> visit.answer]
  /\ visit.handles \subseteq {"root", "file"}
  /\ visit.pc # "idle" => visit.answer = "none"
  /\ visit.pc \in {"idle", "open"} => visit.handles = {}
  /\ "file" \in visit.handles => visit.pc \in {"candidate", "serve"}
  /\ (visit.pc \notin {"idle", "open", "verify"} \/ visit.answer = "200") /\ M.kind # "fs"
        => visit.root = "mounted"
=============================================================================
