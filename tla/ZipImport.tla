------------------------------- MODULE ZipImport -------------------------------
(***************************************************************************)
(* Archive uploads: the guards an archive passes entry by entry before     *)
(* anything is written, and the quota that an import and a WriteFile check *)
(* under the site's lock.  An entry's header may lie about its size.  One  *)
(* branch stays checked out.  Its served export lies in the worktree too:  *)
(* neither the wipe nor the quota touches it, and `git add -A' commits it. *)
(* No name of the site's own lies below served/ (nothing refuses one: the  *)
(* wipe would keep it like the export).                                    *)
(***************************************************************************)
EXTENDS Naturals, Sequences, FiniteSets, SequencesExt

CONSTANTS
    Uploads,                        \* import requests
    Folder, InFolder, OtherPaths,   \* a file, a file below a folder of the same
                                    \*   name, and paths that clash with nothing
    BadName,                        \* a name the guards refuse
    MaxEntries, MaxEntryBytes, MaxTotalBytes, MaxRatio,   \* cfg.Zip
    Quota,                          \* cfg.SiteQuotaBytes
    MaxSaves                        \* bound on commits

ASSUME ZipAssumption ==
    /\ MaxEntries \in Nat /\ MaxEntryBytes \in Nat /\ MaxTotalBytes \in Nat
    /\ MaxRatio \in Nat /\ MaxSaves \in Nat
    /\ Quota \in Nat /\ Quota > 1    \* room for the placeholder page and its object
    /\ "nobody" \notin Uploads

VARIABLES
    upload,    \* upload[u]: pc, files read so far, held: bytes in memory, base: the
               \*   tip its author saw, next: file to write
    section,   \* who is in the write lock
    tree,      \* the worktree: path -> size
    head,      \* the tree of the branch's last commit
    tip,       \* number of commits
    objects,   \* bytes in the object store
    export,    \* the commit whose export lies under served/, 0 before the first
    carried    \* the export that is part of the branch's last commit, 0 for none

zipVars == <<upload, section, tree, head, tip, objects, export, carried>>

ZipPaths == OtherPaths \union {Folder, InFolder}
Nobody == "nobody"
NoUpload == [pc |-> "idle", files |-> << >>, held |-> 0, base |-> 0, next |-> 0]
Failed == [NoUpload EXCEPT !.pc = "failed"]
EntrySizes == 0 .. MaxEntryBytes + 1

(* What the central directory lists: a name, the sizes its header declares and
   the bytes the data really inflates to. *)
ZipEntries ==
    [kind : {"dir", "link", "file"}, path : ZipPaths \union {BadName},
     declared : EntrySizes, packed : EntrySizes, actual : EntrySizes]

(* The placeholder page of a new site. *)
ZipInit ==
    /\ upload = [u \in Uploads |-> NoUpload]
    /\ section = Nobody
    /\ \E p \in OtherPaths : tree = [q \in {p} |-> 1]
    /\ head = tree
    /\ tip = 1
    /\ objects = 1
    /\ export = 0 /\ carried = 0

(* ImportZip opens an archive that is not too large and lists at most MaxEntries. *)
OpenArchive(u) ==
    /\ upload[u].pc = "idle"
    /\ upload' = [upload EXCEPT ![u].pc = "validate", ![u].base = tip]
    /\ UNCHANGED <<section, tree, head, tip, objects, export, carried>>

NameAllowed(e) == e.kind = "file" /\ e.path \in ZipPaths

(* Integer division; a compressed size of 0 counts as one byte. *)
WithinRatio(e) ==
    IF e.packed > 0 THEN e.declared \div e.packed <= MaxRatio ELSE e.declared <= MaxRatio

DeclaredAllowed(e) == e.declared <= MaxEntryBytes /\ WithinRatio(e)

(* archive/zip hands out at most the declared bytes and fails unless the data
   ends there. *)
Inflated(e) == IF e.actual < e.declared THEN e.actual ELSE e.declared
ReadFails(e) == e.actual # e.declared

TotalAllowed(held) == held <= MaxTotalBytes

(* What one round of validateAndReadZip's loop makes of an upload: a folder is
   skipped, an entry that is refused ends the import with nothing written. *)
AfterEntry(r, e) ==
    LET readable == NameAllowed(e) /\ DeclaredAllowed(e)
        held == r.held + (IF readable THEN Inflated(e) ELSE 0)
        accepted == readable /\ ~ReadFails(e) /\ TotalAllowed(held)
    IN  CASE e.kind = "dir" -> r
          [] accepted -> [r EXCEPT !.held = held,
                            !.files = Append(@, [path |-> e.path, size |-> Inflated(e)])]
          [] OTHER -> [Failed EXCEPT !.held = held]

ValidateEntry(u) ==
    /\ upload[u].pc = "validate" /\ Len(upload[u].files) < MaxEntries
    /\ \E e \in ZipEntries : upload' = [upload EXCEPT ![u] = AfterEntry(@, e)]
    /\ UNCHANGED <<section, tree, head, tip, objects, export, carried>>

ValidationEnds(u) ==
    /\ upload[u].pc = "validate"
    /\ upload' = [upload EXCEPT ![u] = IF @.files = << >> THEN Failed ELSE [@ EXCEPT !.pc = "ready"]]
    /\ UNCHANGED <<section, tree, head, tip, objects, export, carried>>

BytesOf(t) == FoldFunction(LAMBDA z, n : z + n, 0, t)
ZipEntriesBytes(files) == FoldSeq(LAMBDA f, n : f.size + n, 0, files)

WorktreeSize == BytesOf(tree)
(* repoDiskSize: objects and worktree. *)
RepoDiskSize == objects + BytesOf(tree)

ExceedsQuota(delta) == RepoDiskSize + delta > Quota

Unwiped(t) == t
(* replaceWorktree keeps .git and served/ only: of the site's files nothing. *)
Wiped(t) == << >>

(* The section begins: base and quota are checked, then the worktree is wiped. *)
EnterImport(u) ==
    /\ upload[u].pc = "ready" /\ section = Nobody
    /\ IF upload[u].base # tip \/ ExceedsQuota(ZipEntriesBytes(upload[u].files))
         THEN /\ upload' = [upload EXCEPT ![u] = Failed]
              /\ UNCHANGED <<section, tree>>
         ELSE /\ upload' = [upload EXCEPT ![u].pc = "writing", ![u].next = 1]
              /\ section' = u
              /\ tree' = Wiped(tree)
    /\ UNCHANGED <<head, tip, objects, export, carried>>

(* os.WriteFile: a new file, or a new content. *)
Put(t, p, z) == [q \in DOMAIN t \union {p} |-> IF q = p THEN z ELSE t[q]]

(* A path cannot be a file and a folder at once. *)
Clashes(p, t) ==
    \/ p = Folder /\ InFolder \in DOMAIN t
    \/ p = InFolder /\ Folder \in DOMAIN t

(* MkdirAll and WriteFile of one entry; a failure leaves what was written. *)
WriteEntry(u) ==
    /\ upload[u].pc = "writing" /\ upload[u].next <= Len(upload[u].files)
    /\ LET f == upload[u].files[upload[u].next] IN
         IF Clashes(f.path, tree)
           THEN /\ upload' = [upload EXCEPT ![u] = Failed]
                /\ section' = Nobody
                /\ UNCHANGED tree
           ELSE /\ upload' = [upload EXCEPT ![u].next = @ + 1]
                /\ tree' = Put(tree, f.path, f.size)
                /\ UNCHANGED section
    /\ UNCHANGED <<head, tip, objects, export, carried>>

(* git stores a new blob compressed, somewhere between nothing and all of it; the
   blobs of an export are in the store already. *)
Stored(delta) == {0, delta}

(* git add -A, status, commitStaged, gcRepo: the site's files and what lies under
   served/ at that moment. *)
CommitImport(u) ==
    /\ upload[u].pc = "writing" /\ upload[u].next > Len(upload[u].files)
    /\ section' = Nobody
    /\ IF tree = head /\ export = carried
         THEN /\ upload' = [upload EXCEPT ![u] = Failed]
              /\ UNCHANGED <<head, tip, objects, carried>>
         ELSE /\ tip < MaxSaves
              /\ upload' = [upload EXCEPT ![u] = [NoUpload EXCEPT !.pc = "acknowledged"]]
              /\ head' = tree /\ carried' = export
              /\ tip' = tip + 1
              /\ \E z \in Stored(ZipEntriesBytes(upload[u].files)) : objects' = objects + z
    /\ UNCHANGED <<tree, export>>

RespondImport(u) ==
    /\ upload[u].pc \in {"failed", "acknowledged"}
    /\ upload' = [upload EXCEPT ![u] = NoUpload]
    /\ UNCHANGED <<section, tree, head, tip, objects, export, carried>>

(* WriteFile of one path by somebody else: the index holds that path alone, so what
   a failed import left in the worktree stays there, and so does the export. *)
SaveFile(p, z) ==
    /\ section = Nobody /\ tip < MaxSaves
    /\ ~ExceedsQuota(z) /\ ~Clashes(p, tree)
    /\ tree' = Put(tree, p, z)
    /\ IF p \in DOMAIN head /\ head[p] = z
         THEN UNCHANGED <<head, tip, objects>>
         ELSE /\ head' = Put(head, p, z)
              /\ tip' = tip + 1
              /\ \E s \in Stored(z) : objects' = objects + s
    /\ UNCHANGED <<upload, section, export, carried>>

(* refreshServed after a commit, or a visitor: the tip's export replaces the one
   before, with or without a writer in the lock (ServedExport has the steps). *)
RefreshExport ==
    /\ export # tip
    /\ export' = tip
    /\ UNCHANGED <<upload, section, tree, head, tip, objects, carried>>

ZipNext ==
    \/ \E u \in Uploads :
         \/ OpenArchive(u) \/ ValidateEntry(u) \/ ValidationEnds(u) \/ EnterImport(u)
         \/ WriteEntry(u) \/ CommitImport(u) \/ RespondImport(u)
    \/ \E p \in ZipPaths, z \in 0 .. MaxEntryBytes : SaveFile(p, z)
    \/ RefreshExport

ZipSpec == ZipInit /\ [][ZipNext]_zipVars

(* What an archive stands for: the last entry of a path is the one that stays. *)
Contents(files) ==
    [p \in {files[i].path : i \in DOMAIN files} |->
       files[Max({i \in DOMAIN files : files[i].path = p})].size]

-----------------------------------------------------------------------------
(* The bytes an import holds in memory never exceed the limit on the archive by
   more than one entry, whatever sizes the headers declare
   (validateAndReadZip). *)
ImportMemoryBounded == \A u \in Uploads : upload[u].held <= MaxTotalBytes + MaxEntryBytes

(* An archive's files, or the one file of a WriteFile. *)
LargestWrite == IF MaxEntryBytes > MaxTotalBytes THEN MaxEntryBytes ELSE MaxTotalBytes

(* The repository outgrows its quota by no more than one accepted write, however
   imports, failed imports and WriteFiles follow each other: content lands twice, in
   the worktree and in the object store, and is charged once (enforceQuota). *)
QuotaOverrunBounded == objects + BytesOf(tree) <= Quota + LargestWrite

(* Imports stay within their limits, in memory and on disk. *)
ImportWithinLimits == ImportMemoryBounded /\ QuotaOverrunBounded

(* Of the site's files, an acknowledged import leaves the branch with the archive's
   and no others, also after an import that failed half way through writing, and
   with other requests between its validation and its turn in the lock.  Besides
   them the commit carries the export that lay under served/, whichever that was
   (ImportZip, replaceWorktree). *)
ImportedExactly ==
    [][\A u \in Uploads :
         upload[u].pc = "writing" /\ upload'[u].pc = "acknowledged"
           => head' = Contents(upload[u].files) /\ carried' = export]_zipVars
=============================================================================
