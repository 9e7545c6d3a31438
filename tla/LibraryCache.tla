---------------------------- MODULE LibraryCache ----------------------------
(***************************************************************************)
(* Loading a standard library through the on-disk cache:                    *)
(* crates/sysmlv2-model/src/prepared.rs (load_library_with_cache and what   *)
(* it calls) and libcache.rs (keys, atomic writes).                         *)
(*                                                                          *)
(* Several processes share a cache directory and a library directory.  In   *)
(* a process, loads run on several threads and share three tables: the      *)
(* memo of directory keys, the weak registry SHARED of libraries by key,    *)
(* and RETAINED, the libraries kept after their sessions closed.  A load    *)
(* reads the cache's only snapshot on a guess while it hashes the library,  *)
(* then asks the registry, the cache, the snapshots shipped with the        *)
(* toolkit, and at last prepares the library from source and writes a       *)
(* snapshot on a thread of its own.                                         *)
(*                                                                          *)
(* A library's content stands for its key: the 64-bit content hash is       *)
(* taken to be injective.  A session is one load; the handle it makes, if   *)
(* any, is named after it.                                                  *)
(***************************************************************************)
EXTENDS Naturals, Sequences, FiniteSets, Subsequences

CONSTANTS
  Procs,              \* operating system processes
  Sessions,           \* loads, each in one process
  ProcessOf,          \* [Sessions -> Procs]
  Detached,           \* processes that leave their saves to exit (the CLI)
  Contents,           \* what the library directory may hold
  None,               \* no content, no handle, no file
  RetainedLibraries,  \* RETAINED_LIBRARIES
  CacheStates,        \* what the cache may hold of a key at first
  ShippedStates,      \* what may be shipped of a key
  EditsDuringLoad,    \* TRUE: the library may change while a load runs
  MaxEdits, MaxDamage, MaxCrashes

ASSUME CacheAssumption ==
  /\ ProcessOf \in [Sessions -> Procs]
  /\ Detached \subseteq Procs
  /\ None \notin Sessions \cup Contents
  /\ RetainedLibraries \in Nat \ {0}
  /\ CacheStates \subseteq {"absent", "sound", "damaged", "foreign"}
  /\ ShippedStates \subseteq {"absent", "sound", "damaged", "foreign"}
  /\ EditsDuringLoad \in BOOLEAN
  /\ MaxEdits \in Nat /\ MaxDamage \in Nat /\ MaxCrashes \in Nat

VARIABLES
  lib,         \* the library directory's content
  stamp,       \* its files' lengths and modification times
  cache,       \* [Contents -> snapshot file in the cache directory]
  recordings,  \* [Contents -> resolution recording beside it]
  shipped,     \* [Contents -> snapshot file shipped with the toolkit]
  temps,       \* [Sessions -> temporary file of the session's save]
  memo,        \* [Procs -> DIRECTORY_KEYS entry of the library directory]
  shared,      \* [Procs -> [Contents -> SHARED entry]]
  retained,    \* [Procs -> RETAINED]
  pc,          \* [Sessions -> where the load is]
  key,         \* [Sessions -> content key, once hashed]
  listing,     \* [Sessions -> stamps the key is being hashed over]
  guess,       \* [Sessions -> key of the snapshot being read on a guess]
  guessed,     \* [Sessions -> the handle decoded on a guess]
  found,       \* [Sessions -> handle the registry answered]
  handle,      \* [Sessions -> the handle the load made]
  held,        \* [Sessions -> name of the handle its model has installed]
  noticed,     \* [Sessions -> PreparedLibrary::damaged of its handle]
  saving,      \* [Sessions -> where its background save is]
  readers,     \* threads reading a part that will not verify
  asked,       \* history: [Sessions -> directory content as the load began]
  shunned,     \* history: [Sessions -> handles damaged as the load began]
  damages, crashes

diskVars == <<cache, recordings, shipped, temps>>
procVars == <<memo, shared, retained>>
loadVars == <<pc, key, listing, guess, guessed, found, handle, held, noticed>>
histVars == <<asked, shunned>>
vars == <<lib, stamp, diskVars, procVars, loadVars, saving, readers,
          histVars, damages, crashes>>

(***************************************************************************)
(* A snapshot file: whose content it holds, which save wrote it (None: one  *)
(* from before), and its state.  "foreign" stands for all that a load       *)
(* refuses as a whole: another build, another format, an eager part that    *)
(* does not verify; "damaged" for a facts or plans part that does not.      *)
(***************************************************************************)
Files == [holds : Contents, by : Sessions \cup {None},
          state : {"sound", "damaged", "foreign", "partial"}]

Handles == [key : Contents, content : Contents,
            from : {"source", "cache", "shipped"},
            by : Sessions \cup {None}, bad : BOOLEAN]

Readers == [by : Sessions, key : Contents, place : {"cache", "shipped"}]

Loading == {"keying", "found", "cache", "shipped", "source", "register",
            "joining"}

Listings == [stamp : Nat, key : Contents]

ASSUME NoneAssumption ==
  None \notin Files /\ None \notin Handles /\ None \notin Listings

NoHandles == [s \in Sessions |-> None]
NoEntries == [k \in Contents |-> None]

FileAtStart(state, k) ==
  IF state = "absent" THEN None ELSE [holds |-> k, by |-> None, state |-> state]

Init ==
  /\ lib \in Contents
  /\ stamp = 0
  /\ \E st \in [Contents -> CacheStates] :
       cache = [k \in Contents |-> FileAtStart(st[k], k)]
  /\ \E st \in [Contents -> ShippedStates] :
       shipped = [k \in Contents |-> FileAtStart(st[k], k)]
  /\ recordings = NoEntries
  /\ temps = [s \in Sessions |-> "none"]
  /\ memo = [p \in Procs |-> None]
  /\ shared = [p \in Procs |-> NoEntries]
  /\ retained = [p \in Procs |-> <<>>]
  /\ pc = [s \in Sessions |-> "idle"]
  /\ key = NoHandles /\ listing = [s \in Sessions |-> 0]
  /\ guess = NoHandles /\ guessed = NoHandles /\ found = NoHandles
  /\ handle = NoHandles /\ held = NoHandles
  /\ noticed = [s \in Sessions |-> FALSE]
  /\ saving = [s \in Sessions |-> "no"]
  /\ readers = {}
  /\ asked = NoHandles /\ shunned = [s \in Sessions |-> {}]
  /\ damages = 0 /\ crashes = 0

----------------------------------------------------------------------------
(***************************************************************************)
(* Handles, and the tables of a process.                                    *)
(***************************************************************************)

Kept(q) == {q[i] : i \in DOMAIN q}

\* Weak::strong_count() > 0: a session, a load, RETAINED or a save has it.
Strong(h) ==
  \/ \E s \in Sessions : h \in {held[s], found[s]}
  \/ h \in Kept(retained[ProcessOf[h]])
  \/ saving[h] # "no"

\* The cache's file read whole and its eager parts verified, or a miss.
Readable(f) == f # None /\ f.state \in {"sound", "damaged"}

Decoded(f, k, place) ==
  [key |-> k, content |-> f.holds, from |-> place, by |-> f.by,
   bad |-> f.state = "damaged"]

\* The threads a decode starts over the parts it left in the file; one over
\* a part that verifies changes nothing and is left out.
Started(s, f, k, place) ==
  {r \in [by : {s}, key : {k}, place : {place}] : f.state = "damaged"}

RetainTwice(p, h) ==
  LET q == Append(retained[p], h)
  IN  IF Len(q) > RetainedLibraries THEN Tail(q) ELSE q

RetainAll(p, h) ==
  Append(Only(retained[p], Sessions \ {h}), h)

Retain(p, h) ==
  LET q == Append(Only(retained[p], Sessions \ {h}), h)
  IN  IF Len(q) > RetainedLibraries THEN Tail(q) ELSE q

\* retain: a damaged handle is not kept.
AfterRetain(p, h) == IF noticed[h] THEN retained[p] ELSE Retain(p, h)

\* shared_holds: the registry will answer for the cache's recording of k.
SharedHolds(p, k) ==
  LET h == shared[p][k]
  IN  h # None /\ Strong(h) /\ handle[h].from # "shipped"

\* snapshot_guess: the key of the only snapshot in the cache directory.
SnapshotGuess(p) ==
  LET there == {k \in Contents : cache[k] # None}
      only  == IF Cardinality(there) = 1 THEN CHOOSE k \in there : TRUE
                                         ELSE None
  IN  IF only # None /\ SharedHolds(p, only) THEN None ELSE only

----------------------------------------------------------------------------
(***************************************************************************)
(* load_library_with_cache_in: the key, and the guess beside it.            *)
(***************************************************************************)

\* A load into an empty model begins: what to read on a guess is settled.
Start(s) ==
  /\ pc[s] = "idle"
  /\ pc' = [pc EXCEPT ![s] = "keying"]
  /\ guess' = [guess EXCEPT ![s] = SnapshotGuess(ProcessOf[s])]
  /\ asked' = [asked EXCEPT ![s] = lib]
  /\ shunned' = [shunned EXCEPT ![s] = {h \in Sessions : noticed[h]}]
  /\ listing' = [listing EXCEPT ![s] = 0]
  /\ UNCHANGED <<lib, stamp, diskVars, procVars, key, guessed, found, handle,
                 held, noticed, saving, readers, damages, crashes>>

DecodeGuessOrHang(s) ==
  /\ pc[s] = "keying" /\ guess[s] # None
  /\ Readable(cache[guess[s]])
  /\ guessed' = [guessed EXCEPT ![s] =
                   Decoded(cache[guess[s]], guess[s], "cache")]
  /\ readers' = readers \cup Started(s, cache[guess[s]], guess[s], "cache")
  /\ guess' = [guess EXCEPT ![s] = None]
  /\ UNCHANGED <<lib, stamp, diskVars, procVars, pc, key, listing, found,
                 handle, held, noticed, saving, histVars, damages, crashes>>

\* The guess is decoded by the thread beside the hash: the file may have
\* been removed or replaced since it was listed.
DecodeGuess(s) ==
  /\ pc[s] = "keying" /\ guess[s] # None
  /\ guess' = [guess EXCEPT ![s] = None]
  /\ IF Readable(cache[guess[s]])
       THEN /\ guessed' = [guessed EXCEPT ![s] =
                             Decoded(cache[guess[s]], guess[s], "cache")]
            /\ readers' = readers \cup
                            Started(s, cache[guess[s]], guess[s], "cache")
       ELSE UNCHANGED <<guessed, readers>>
  /\ UNCHANGED <<lib, stamp, diskVars, procVars, pc, key, listing, found,
                 handle, held, noticed, saving, histVars, damages, crashes>>

MemoizedKeyOfAnyListing(p) == IF memo[p] # None THEN memo[p].key ELSE None

\* memoized_key: the key hashed over this very listing, if any.
MemoizedKey(p) ==
  IF memo[p] # None /\ memo[p].stamp = stamp THEN memo[p].key ELSE None

\* hash_library_dir, first half: the listing, and the memo's answer.  Zero
\* in listing stands for no listing waiting to be hashed.
ListFiles(s) ==
  LET p == ProcessOf[s] IN
  /\ pc[s] = "keying" /\ key[s] = None /\ listing[s] = 0
  /\ key' = [key EXCEPT ![s] = MemoizedKey(p)]
  /\ listing' = [listing EXCEPT ![s] =
                   IF MemoizedKey(p) = None THEN stamp + 1 ELSE 0]
  /\ UNCHANGED <<lib, stamp, diskVars, procVars, pc, guess, guessed, found,
                 handle, held, noticed, saving, readers, histVars, damages,
                 crashes>>

HashFilesThenStamp(s) ==
  /\ pc[s] = "keying" /\ key[s] = None /\ listing[s] # 0
  /\ key' = [key EXCEPT ![s] = asked[s]]
  /\ memo' = [memo EXCEPT ![ProcessOf[s]] = [stamp |-> stamp, key |-> asked[s]]]
  /\ listing' = [listing EXCEPT ![s] = 0]
  /\ UNCHANGED <<lib, stamp, diskVars, shared, retained, pc, guess, guessed,
                 found, handle, held, noticed, saving, readers, histVars,
                 damages, crashes>>

\* hash_library_dir, second half: the files are read, the key is remembered
\* for the listing taken before.
HashFiles(s) ==
  /\ pc[s] = "keying" /\ key[s] = None /\ listing[s] # 0
  /\ key' = [key EXCEPT ![s] = lib]
  /\ memo' = [memo EXCEPT ![ProcessOf[s]] =
                [stamp |-> listing[s] - 1, key |-> lib]]
  /\ listing' = [listing EXCEPT ![s] = 0]
  /\ UNCHANGED <<lib, stamp, diskVars, shared, retained, pc, guess, guessed,
                 found, handle, held, noticed, saving, readers, histVars,
                 damages, crashes>>

----------------------------------------------------------------------------
(***************************************************************************)
(* load_library_with_cache_with: registry, cache, shipped, source.          *)
(***************************************************************************)

LookupTakesAnyGuess(s) ==
  LET p == ProcessOf[s]
      entries == [k \in Contents |->
                    IF shared[p][k] # None /\ Strong(shared[p][k])
                      THEN shared[p][k] ELSE None]
  IN
  /\ pc[s] = "keying" /\ key[s] # None /\ guess[s] = None
  /\ shared' = [shared EXCEPT ![p] = entries]
  /\ found' = [found EXCEPT ![s] = entries[key[s]]]
  /\ pc' = [pc EXCEPT ![s] = "found"]
  /\ UNCHANGED <<lib, stamp, diskVars, memo, retained, key, listing, guess,
                 guessed, handle, held, noticed, saving, readers, histVars,
                 damages, crashes>>

\* par::join done: a guess of another key is dropped; the registry, under
\* its lock, forgets the dead entries and answers for the key.
Lookup(s) ==
  LET p == ProcessOf[s]
      entries == [k \in Contents |->
                    IF shared[p][k] # None /\ Strong(shared[p][k])
                      THEN shared[p][k] ELSE None]
  IN
  /\ pc[s] = "keying" /\ key[s] # None /\ guess[s] = None
  /\ guessed' = [guessed EXCEPT ![s] =
                   IF @ # None /\ @.key = key[s] THEN @ ELSE None]
  /\ shared' = [shared EXCEPT ![p] = entries]
  /\ found' = [found EXCEPT ![s] = entries[key[s]]]
  /\ pc' = [pc EXCEPT ![s] = "found"]
  /\ UNCHANGED <<lib, stamp, diskVars, memo, retained, key, listing, guess,
                 handle, held, noticed, saving, readers, histVars, damages,
                 crashes>>

ServeDamagedToo(s) ==
  LET p == ProcessOf[s]
      h == found[s]
      sound == h # None
  IN
  /\ pc[s] = "found"
  /\ pc' = [pc EXCEPT ![s] = IF sound THEN "loaded" ELSE "cache"]
  /\ held' = [held EXCEPT ![s] = IF sound THEN h ELSE @]
  /\ guessed' = [guessed EXCEPT ![s] = IF sound THEN None ELSE @]
  /\ retained' = [retained EXCEPT ![p] =
       IF sound /\ handle[h].from # "source" THEN AfterRetain(p, h) ELSE @]
  /\ found' = [found EXCEPT ![s] = None]
  /\ UNCHANGED <<lib, stamp, diskVars, memo, shared, key, listing, guess,
                 handle, noticed, saving, readers, histVars, damages, crashes>>

\* The registry's handle is installed, and kept warm when it was decoded;
\* a damaged one is let go instead and the load goes on to the cache.
Serve(s) ==
  LET p == ProcessOf[s]
      h == found[s]
      sound == h # None /\ ~noticed[h]
  IN
  /\ pc[s] = "found"
  /\ pc' = [pc EXCEPT ![s] = IF sound THEN "loaded" ELSE "cache"]
  /\ held' = [held EXCEPT ![s] = IF sound THEN h ELSE @]
  /\ guessed' = [guessed EXCEPT ![s] = IF sound THEN None ELSE @]
  /\ retained' = [retained EXCEPT ![p] =
       IF ~sound THEN Only(@, Sessions \ {h})
       ELSE IF handle[h].from = "source" THEN @
       ELSE AfterRetain(p, h)]
  /\ found' = [found EXCEPT ![s] = None]
  /\ UNCHANGED <<lib, stamp, diskVars, memo, shared, key, listing, guess,
                 handle, noticed, saving, readers, histVars, damages, crashes>>

\* The load made handle h, installed in the session's model.
Make(s, h) ==
  /\ handle' = [handle EXCEPT ![s] = h]
  /\ held' = [held EXCEPT ![s] = s]
  /\ pc' = [pc EXCEPT ![s] = "register"]

\* The cache's own snapshot: the guess, or read now.
TryCache(s) ==
  LET f == cache[key[s]] IN
  /\ pc[s] = "cache"
  /\ IF guessed[s] # None
       THEN Make(s, guessed[s]) /\ UNCHANGED readers
       ELSE IF Readable(f)
         THEN /\ Make(s, Decoded(f, key[s], "cache"))
              /\ readers' = readers \cup Started(s, f, key[s], "cache")
         ELSE /\ pc' = [pc EXCEPT ![s] = "shipped"]
              /\ UNCHANGED <<handle, held, readers>>
  /\ guessed' = [guessed EXCEPT ![s] = None]
  /\ UNCHANGED <<lib, stamp, diskVars, procVars, key, listing, guess, found,
                 noticed, saving, histVars, damages, crashes>>

\* A snapshot shipped with the toolkit, read where it lies.
TryShipped(s) ==
  LET f == shipped[key[s]] IN
  /\ pc[s] = "shipped"
  /\ IF Readable(f)
       THEN /\ Make(s, Decoded(f, key[s], "shipped"))
            /\ readers' = readers \cup Started(s, f, key[s], "shipped")
       ELSE /\ pc' = [pc EXCEPT ![s] = "source"]
            /\ UNCHANGED <<handle, held, readers>>
  /\ UNCHANGED <<lib, stamp, diskVars, procVars, key, listing, guess, guessed,
                 found, noticed, saving, histVars, damages, crashes>>

\* Nothing to read: the library directory is read again and prepared, and
\* the save of what was prepared starts under the key hashed before.
Prepare(s) ==
  /\ pc[s] = "source"
  /\ Make(s, [key |-> key[s], content |-> lib, from |-> "source",
              by |-> s, bad |-> FALSE])
  /\ saving' = [saving EXCEPT ![s] = "recording"]
  /\ UNCHANGED <<lib, stamp, diskVars, procVars, key, listing, guess, guessed,
                 found, noticed, readers, histVars, damages, crashes>>

\* A decoded handle is retained; either kind is entered in the registry.  A
\* caller that does not detach its save waits for it before going on.
Register(s) ==
  LET p == ProcessOf[s]
      source == handle[s].from = "source"
  IN
  /\ pc[s] = "register"
  /\ retained' = [retained EXCEPT ![p] =
                    IF source THEN @ ELSE AfterRetain(p, s)]
  /\ shared' = [shared EXCEPT ![p][key[s]] = s]
  /\ pc' = [pc EXCEPT ![s] =
              IF source /\ p \notin Detached THEN "joining" ELSE "loaded"]
  /\ UNCHANGED <<lib, stamp, diskVars, memo, key, listing, guess, guessed,
                 found, handle, held, noticed, saving, readers, histVars,
                 damages, crashes>>

\* PendingSave dropped: the thread is joined.
Join(s) ==
  /\ pc[s] = "joining" /\ saving[s] = "no"
  /\ pc' = [pc EXCEPT ![s] = "loaded"]
  /\ UNCHANGED <<lib, stamp, diskVars, procVars, key, listing, guess, guessed,
                 found, handle, held, noticed, saving, readers, histVars,
                 damages, crashes>>

----------------------------------------------------------------------------
(***************************************************************************)
(* Sessions on a loaded library.                                            *)
(***************************************************************************)

\* A build, or the thread start_plans started, asks for the parts left in
\* the snapshot: it joins the thread reading them, and the handle is damaged
\* when a part was bad.
TakeParts(h) ==
  /\ handle[h] # None /\ handle[h].bad /\ ~noticed[h]
  /\ \A r \in readers : ~(r.by = h /\ r.key = handle[h].key)
  /\ noticed' = [noticed EXCEPT ![h] = TRUE]
  /\ UNCHANGED <<lib, stamp, diskVars, procVars, pc, key, listing, guess,
                 guessed, found, handle, held, saving, readers, histVars,
                 damages, crashes>>

Close(s) ==
  /\ pc[s] = "loaded"
  /\ pc' = [pc EXCEPT ![s] = "closed"]
  /\ held' = [held EXCEPT ![s] = None]
  /\ asked' = [asked EXCEPT ![s] = None]
  /\ shunned' = [shunned EXCEPT ![s] = {}]
  /\ UNCHANGED <<lib, stamp, diskVars, procVars, key, listing, guess, guessed,
                 found, handle, noticed, saving, readers, damages, crashes>>

\* release_retained_libraries
Release(p) ==
  /\ retained[p] # <<>>
  /\ retained' = [retained EXCEPT ![p] = <<>>]
  /\ UNCHANGED <<lib, stamp, diskVars, memo, shared, loadVars, saving, readers,
                 histVars, damages, crashes>>

----------------------------------------------------------------------------
(***************************************************************************)
(* Threads: part readers and saves.                                         *)
(***************************************************************************)

ReadPartKeeping(r) ==
  /\ r \in readers
  /\ readers' = readers \ {r}
  /\ UNCHANGED <<lib, stamp, diskVars, procVars, loadVars, saving, histVars,
                 damages, crashes>>

\* Snapshot::part on a part that does not verify: the cache's own file is
\* removed, by name, whatever it holds by now; a shipped one is left.
ReadPart(r) ==
  /\ r \in readers
  /\ readers' = readers \ {r}
  /\ cache' = IF r.place = "cache" THEN [cache EXCEPT ![r.key] = None]
                                   ELSE cache
  /\ UNCHANGED <<lib, stamp, recordings, shipped, temps, procVars, loadVars,
                 saving, histVars, damages, crashes>>

saveUnchanged == <<lib, stamp, shipped, procVars, loadVars, readers, histVars,
                   damages, crashes>>

\* LibrarySave::run, first: the recording.  One that cannot be written is a
\* warning and the snapshot is written all the same.  (It is written as the
\* snapshot is; the steps are told apart there.)
SaveRecording(s) ==
  /\ saving[s] = "recording"
  /\ saving' = [saving EXCEPT ![s] = "create"]
  /\ recordings' \in {recordings,
                      [recordings EXCEPT ![key[s]] = handle[s].content]}
  /\ UNCHANGED <<cache, temps, saveUnchanged>>

CreateInPlace(s) ==
  /\ saving[s] = "create"
  /\ saving' = [saving EXCEPT ![s] = "rename"]
  /\ temps' = [temps EXCEPT ![s] = "partial"]
  /\ UNCHANGED <<cache, recordings, saveUnchanged>>

\* write_atomically_parts: a temporary file under a fresh name,
CreateTemporary(s) ==
  /\ saving[s] = "create"
  /\ saving' = [saving EXCEPT ![s] = "write"]
  /\ temps' = [temps EXCEPT ![s] = "partial"]
  /\ UNCHANGED <<cache, recordings, saveUnchanged>>

\* its parts written one after the other,
WriteParts(s) ==
  /\ saving[s] = "write"
  /\ saving' = [saving EXCEPT ![s] = "rename"]
  /\ temps' = [temps EXCEPT ![s] = "whole"]
  /\ UNCHANGED <<cache, recordings, saveUnchanged>>

\* and renamed over whatever is there.
Rename(s) ==
  /\ saving[s] = "rename"
  /\ saving' = [saving EXCEPT ![s] = "no"]
  /\ cache' = [cache EXCEPT ![key[s]] =
       [holds |-> handle[s].content, by |-> s,
        state |-> IF temps[s] = "whole" THEN "sound" ELSE "partial"]]
  /\ temps' = [temps EXCEPT ![s] = "none"]
  /\ UNCHANGED <<recordings, saveUnchanged>>

\* Any of the three may fail: the temporary file is removed, the save ends.
SaveFails(s) ==
  /\ saving[s] \in {"create", "write", "rename"}
  /\ saving' = [saving EXCEPT ![s] = "no"]
  /\ temps' = [temps EXCEPT ![s] = "none"]
  /\ UNCHANGED <<cache, recordings, saveUnchanged>>

----------------------------------------------------------------------------
(***************************************************************************)
(* The world: edits, damage, and processes that end.                        *)
(***************************************************************************)

\* Somebody changes the library; its stamps change with it.
Edit(c) ==
  /\ stamp < MaxEdits /\ c # lib
  /\ EditsDuringLoad \/ \A s \in Sessions : pc[s] \notin Loading
  /\ lib' = c
  /\ stamp' = stamp + 1
  /\ UNCHANGED <<diskVars, procVars, loadVars, saving, readers, histVars,
                 damages, crashes>>

\* A part of a cached snapshot goes bad on disk.
Damage(k) ==
  /\ damages < MaxDamage
  /\ cache[k] # None /\ cache[k].state = "sound"
  /\ damages' = damages + 1
  /\ cache' = [cache EXCEPT ![k].state = "damaged"]
  /\ UNCHANGED <<lib, stamp, recordings, shipped, temps, procVars, loadVars,
                 saving, readers, histVars, crashes>>

\* The process is gone, with its tables and threads; the next load of its
\* program finds only what is on disk.
Gone(p) ==
  LET mine == {s \in Sessions : ProcessOf[s] = p}
      Cleared(f, v) == [s \in Sessions |-> IF s \in mine THEN v ELSE f[s]]
  IN
  /\ memo' = [memo EXCEPT ![p] = None]
  /\ shared' = [shared EXCEPT ![p] = NoEntries]
  /\ retained' = [retained EXCEPT ![p] = <<>>]
  /\ pc' = [s \in Sessions |->
              IF s \in mine /\ pc[s] # "idle" THEN "closed" ELSE pc[s]]
  /\ key' = Cleared(key, None) /\ listing' = Cleared(listing, 0)
  /\ guess' = Cleared(guess, None) /\ guessed' = Cleared(guessed, None)
  /\ found' = Cleared(found, None) /\ handle' = Cleared(handle, None)
  /\ held' = Cleared(held, None) /\ noticed' = Cleared(noticed, FALSE)
  /\ saving' = Cleared(saving, "no")
  /\ readers' = {r \in readers : r.by \notin mine}
  /\ asked' = Cleared(asked, None) /\ shunned' = Cleared(shunned, {})
  /\ UNCHANGED <<lib, stamp, diskVars, damages>>

Running(p) ==
  \E s \in Sessions : /\ ProcessOf[s] = p
                      /\ pc[s] \notin {"idle", "closed"} \/ key[s] # None

\* A normal end: the detached saves are joined (finish_pending_saves).
Exit(p) ==
  /\ Running(p)
  /\ \A s \in Sessions : ProcessOf[s] = p =>
       pc[s] \notin Loading /\ saving[s] = "no"
  /\ Gone(p)
  /\ UNCHANGED crashes

Crash(p) ==
  /\ crashes < MaxCrashes
  /\ Running(p)
  /\ Gone(p)
  /\ crashes' = crashes + 1

----------------------------------------------------------------------------
LoadStep(s) ==
  \/ DecodeGuess(s) \/ ListFiles(s) \/ HashFiles(s) \/ Lookup(s) \/ Serve(s)
  \/ TryCache(s) \/ TryShipped(s) \/ Prepare(s) \/ Register(s) \/ Join(s)

SaveStep(s) ==
  \/ SaveRecording(s) \/ CreateTemporary(s) \/ WriteParts(s) \/ Rename(s)
  \/ SaveFails(s)

Next ==
  \/ \E s \in Sessions :
       Start(s) \/ LoadStep(s) \/ SaveStep(s) \/ TakeParts(s) \/ Close(s)
  \/ \E r \in readers : ReadPart(r)
  \/ \E p \in Procs : Release(p) \/ Exit(p) \/ Crash(p)
  \/ \E c \in Contents : Edit(c) \/ Damage(c)

Spec == Init /\ [][Next]_vars

(***************************************************************************)
(* A thread that can run does: nothing in a load waits on another load, and *)
(* the save a caller joins is a thread of its own.  Sessions start, use     *)
(* their library and close as they like.                                    *)
(***************************************************************************)
FairSpec ==
  /\ Spec
  /\ \A s \in Sessions :
       WF_vars(DecodeGuess(s)) /\ WF_vars(ListFiles(s) \/ HashFiles(s)) /\
       WF_vars(Lookup(s) \/ Serve(s) \/ TryCache(s) \/ TryShipped(s)
               \/ Prepare(s) \/ Register(s) \/ Join(s)) /\
       WF_vars(SaveStep(s))

----------------------------------------------------------------------------
\* The variables have their types; RETAINED holds at most its limit.
TypeOK ==
  /\ lib \in Contents /\ stamp \in 0..MaxEdits
  /\ cache \in [Contents -> Files \cup {None}]
  /\ shipped \in [Contents -> Files \cup {None}]
  /\ recordings \in [Contents -> Contents \cup {None}]
  /\ temps \in [Sessions -> {"none", "partial", "whole"}]
  /\ memo \in [Procs -> [stamp : 0..MaxEdits, key : Contents] \cup {None}]
  /\ shared \in [Procs -> [Contents -> Sessions \cup {None}]]
  /\ \A p \in Procs : /\ retained[p] \in Seq(Sessions)
                      /\ Len(retained[p]) <= RetainedLibraries
  /\ pc \in [Sessions -> Loading \cup {"idle", "loaded", "closed"}]
  /\ key \in [Sessions -> Contents \cup {None}]
  /\ listing \in [Sessions -> 0..(MaxEdits + 1)]
  /\ guess \in [Sessions -> Contents \cup {None}]
  /\ guessed \in [Sessions -> Handles \cup {None}]
  /\ found \in [Sessions -> Sessions \cup {None}]
  /\ handle \in [Sessions -> Handles \cup {None}]
  /\ held \in [Sessions -> Sessions \cup {None}]
  /\ noticed \in [Sessions -> BOOLEAN]
  /\ saving \in [Sessions -> {"no", "recording", "create", "write", "rename"}]
  /\ readers \subseteq Readers
  /\ asked \in [Sessions -> Contents \cup {None}]
  /\ shunned \in [Sessions -> SUBSET Sessions]
  /\ damages \in 0..MaxDamage /\ crashes \in 0..MaxCrashes

(***************************************************************************)
(* Whichever way a load took (the registry, a guess, the cache, a shipped   *)
(* snapshot, the sources), the library its model ends up with is the one    *)
(* the directory held: the point of load_library_with_cache.                *)
(***************************************************************************)
ServesDirectory ==
  \A s \in Sessions : pc[s] = "loaded" => handle[held[s]].content = asked[s]

(***************************************************************************)
(* "a content- and build-identified snapshot file" (prepared.rs:718): a     *)
(* snapshot in the cache holds the library its key was hashed from.         *)
(***************************************************************************)
Identified ==
  \A k \in Contents : cache[k] # None => cache[k].holds = k

(***************************************************************************)
(* write_atomically_parts: readers see the previous file or the whole new   *)
(* one, whatever crashes, fails or saves the same key at the same time.     *)
(***************************************************************************)
WholeFiles ==
  \A k \in Contents : cache[k] # None => cache[k].state # "partial"

(***************************************************************************)
(* hash_library_dir's memo never answers for files it was not hashed over:  *)
(* an edit between the listing and the reading leaves a listing that no     *)
(* later one equals.                                                        *)
(***************************************************************************)
MemoSound ==
  \A p \in Procs :
    memo[p] # None /\ memo[p].stamp = stamp => memo[p].key = lib

(***************************************************************************)
(* "the process serves it to no further load" (PreparedLibrary::damaged):   *)
(* a load begun after a handle proved damaged never installs that handle.   *)
(***************************************************************************)
NeverServedAgain ==
  \A s \in Sessions : pc[s] = "loaded" => held[s] \notin shunned[s]

(***************************************************************************)
(* "The loader removed the cache's file then" (PreparedLibrary::damaged):   *)
(* once a handle decoded from the cache is known damaged, the file it was   *)
(* decoded from is no longer there for another load to decode.              *)
(***************************************************************************)
DamageRemoved ==
  \A s \in Sessions :
    noticed[s] /\ handle[s].from = "cache" =>
      LET f == cache[handle[s].key] IN f = None \/ f.by # handle[s].by

(***************************************************************************)
(* retain: RETAINED names a library once, so that a library loaded over and *)
(* over does not push out the other one the host switches to.               *)
(***************************************************************************)
RetainedOnce ==
  \A p \in Procs : Cardinality(Kept(retained[p])) = Len(retained[p])

(***************************************************************************)
(* Every load begun ends with a library installed, or with its process:     *)
(* neither a guess that came to nothing nor a joined save holds it up.      *)
(***************************************************************************)
LoadsEnd ==
  \A s \in Sessions : pc[s] = "keying" ~> pc[s] \in {"loaded", "closed"}
=============================================================================
