------------------------- MODULE LibraryCacheProofs -------------------------
(***************************************************************************)
(* For any number of processes and loads, over any cache and shipped        *)
(* snapshots, through damage, failed writes and crashes: while the library  *)
(* is not edited during a load, the cache stays keyed by content and every  *)
(* load installs what the library directory holds; and whatever is edited   *)
(* when, no file in the cache is half written, no memoized key is stale,    *)
(* and a snapshot found damaged is neither served again nor left where the  *)
(* next load would read it.                                                 *)
(***************************************************************************)
EXTENDS LibraryCache, SequenceFacts, TLAPS

Pcs == Loading \cup {"idle", "loaded", "closed"}

\* The types of what decides which content a load installs.
Types ==
  /\ lib \in Contents /\ stamp \in Nat
  /\ cache \in [Contents -> Files \cup {None}]
  /\ shipped \in [Contents -> Files \cup {None}]
  /\ memo \in [Procs -> Listings \cup {None}]
  /\ shared \in [Procs -> [Contents -> Sessions \cup {None}]]
  /\ pc \in [Sessions -> Pcs]
  /\ key \in [Sessions -> Contents \cup {None}]
  /\ listing \in [Sessions -> Nat]
  /\ guess \in [Sessions -> Contents \cup {None}]
  /\ guessed \in [Sessions -> Handles \cup {None}]
  /\ found \in [Sessions -> Sessions \cup {None}]
  /\ handle \in [Sessions -> Handles \cup {None}]
  /\ held \in [Sessions -> Sessions \cup {None}]
  /\ saving \in [Sessions -> {"no", "recording", "create", "write", "rename"}]
  /\ asked \in [Sessions -> Contents \cup {None}]

\* Every snapshot holds its key's content.
FilesKeyed ==
  \A k \in Contents : /\ cache[k] # None => cache[k].holds = k
                      /\ shipped[k] # None => shipped[k].holds = k

\* So does every handle; the one a load made has the load's key, and so has
\* the one it guessed once the guess was compared.
HandlesKeyed ==
  \A s \in Sessions :
    /\ handle[s] # None => /\ handle[s].content = handle[s].key
                           /\ handle[s].key = key[s]
    /\ guessed[s] # None => /\ guessed[s].content = guessed[s].key
                            /\ pc[s] # "keying" => guessed[s].key = key[s]

\* Handle h belongs to process p and holds the library keyed by k.
Serves(h, p, k) ==
  h \in Sessions /\ ProcessOf[h] = p /\ handle[h] # None /\ handle[h].key = k

\* Whoever refers to a handle refers to one of his process, by its key.
RefsKeyed ==
  /\ \A p \in Procs, k \in Contents :
       shared[p][k] # None => Serves(shared[p][k], p, k)
  /\ \A s \in Sessions :
       /\ found[s] # None => Serves(found[s], ProcessOf[s], key[s])
       /\ held[s] # None => Serves(held[s], ProcessOf[s], key[s])

\* What is set at which point of a load.
LoadsInv ==
  \A s \in Sessions :
    /\ pc[s] = "idle" => key[s] = None
    /\ found[s] # None => pc[s] = "found"
    /\ held[s] # None <=> pc[s] \in {"register", "joining", "loaded"}
    /\ pc[s] = "register" => handle[s] # None
    /\ listing[s] # 0 => pc[s] = "keying" /\ key[s] = None
    /\ pc[s] \in (Loading \cup {"loaded"}) \ {"keying"} => key[s] # None
    /\ saving[s] # "no" => handle[s] # None

\* A load in progress was asked for the library as it is, and its key is
\* that library's: nobody edits it meanwhile.
KeysInv ==
  \A s \in Sessions :
    /\ pc[s] \in Loading => /\ asked[s] = lib
                            /\ key[s] # None => key[s] = lib
                            /\ listing[s] # 0 => listing[s] = stamp + 1
    /\ pc[s] = "loaded" => key[s] = asked[s]

MemoInv ==
  \A p \in Procs : memo[p] # None =>
    /\ memo[p].stamp <= stamp
    /\ memo[p].stamp = stamp => memo[p].key = lib

CacheInv ==
  /\ Types /\ FilesKeyed /\ HandlesKeyed /\ RefsKeyed /\ LoadsInv
  /\ KeysInv /\ MemoInv

----------------------------------------------------------------------------
(***************************************************************************)
(* Operators.                                                               *)
(***************************************************************************)

\* Decoding a file that holds its key's content yields a handle that does.
LEMMA DecodedKeyed ==
  ASSUME NEW f \in Files, NEW k \in Contents, f.holds = k,
         NEW place \in {"cache", "shipped"}
  PROVE  /\ Decoded(f, k, place) \in Handles
         /\ Decoded(f, k, place) # None
         /\ Decoded(f, k, place).content = k
         /\ Decoded(f, k, place).key = k
<1>1. Decoded(f, k, place) \in Handles
  BY DEF Decoded, Handles, Files
<1>2. QED
  BY <1>1, NoneAssumption DEF Decoded

\* A load whose key is not known yet has made no handle.
LEMMA NoHandleYet ==
  ASSUME Types, HandlesKeyed, NEW s \in Sessions, key[s] = None
  PROVE  handle[s] = None
BY CacheAssumption DEF Types, HandlesKeyed, Handles

\* A load past its key goes for the library as it is.
LEMMA KeyIsLib ==
  ASSUME LoadsInv, KeysInv, NEW s \in Sessions,
         pc[s] \in Loading \ {"keying"}
  PROVE  key[s] = lib
BY DEF LoadsInv, KeysInv

\* Installing a handle of the load's own key keeps what is said of handles.
LEMMA MakeKeeps ==
  ASSUME CacheInv, NEW s \in Sessions, NEW h \in Handles,
         pc[s] \in {"cache", "shipped", "source"},
         h.content = h.key, h.key = key[s], Make(s, h),
         guessed' \in {guessed, [guessed EXCEPT ![s] = None]},
         saving' \in {saving, [saving EXCEPT ![s] = "recording"]},
         UNCHANGED <<lib, stamp, cache, shipped, memo, shared, key, listing,
                     guess, found, asked>>
  PROVE  CacheInv'
<1> USE CacheAssumption DEF CacheInv
<1>1. h # None /\ s # None
  BY NoneAssumption
<1>2. Types'
  BY DEF Types, Make, Loading, Pcs
<1>3. FilesKeyed' /\ MemoInv'
  BY DEF FilesKeyed, MemoInv
<1>4. HandlesKeyed'
  BY DEF Types, HandlesKeyed, Make
<1>5. RefsKeyed'
  <2>1. \A r \in Sessions, p \in Procs, k \in Contents :
          Serves(r, p, k) => Serves(r, p, k)'
    BY <1>1 DEF Types, HandlesKeyed, Make, Serves
  <2>2. Serves(s, ProcessOf[s], key[s])'
    BY <1>1 DEF Types, Make, Serves
  <2>3. \A r \in Sessions : key[r] \in Contents \/ (found[r] = None /\ held[r] = None)
    BY DEF Types, RefsKeyed, LoadsInv, Serves, Handles
  <2>4. ASSUME NEW p \in Procs, NEW k \in Contents, shared[p][k] # None
        PROVE  Serves(shared[p][k], p, k)'
    <3>1. shared[p][k] \in Sessions /\ Serves(shared[p][k], p, k)
      BY <2>4 DEF Types, RefsKeyed
    <3>2. QED
      BY <2>1, <3>1 DEF Serves
  <2>5. ASSUME NEW r \in Sessions
        PROVE  /\ (found[r] # None => Serves(found[r], ProcessOf[r], key[r]))'
               /\ (held[r] # None => Serves(held[r], ProcessOf[r], key[r]))'
    <3>1. held'[r] = IF r = s THEN s ELSE held[r]
      BY DEF Types, Make
    <3>2. ProcessOf[r] \in Procs
      OBVIOUS
    <3>3. QED
      BY <2>1, <2>2, <2>3, <3>1, <3>2 DEF RefsKeyed, Serves
  <2>6. QED
    BY <2>4, <2>5 DEF RefsKeyed
<1>6. LoadsInv'
  BY <1>1 DEF Types, LoadsInv, Make, Loading
<1>7. KeysInv'
  BY DEF Types, LoadsInv, KeysInv, Make, Loading
<1>8. QED
  BY <1>2, <1>3, <1>4, <1>5, <1>6, <1>7

----------------------------------------------------------------------------
(***************************************************************************)
(* One lemma per action that a load takes.                                  *)
(***************************************************************************)

USE DEF diskVars, procVars, loadVars, histVars

\* A load starts with nothing but a guess at its key, so it disturbs nobody.
LEMMA StartKeeps ==
  ASSUME CacheInv, NEW s \in Sessions, Start(s)
  PROVE  CacheInv'
<1>1. Types'
  BY CacheAssumption DEF Start, CacheInv, Types, SnapshotGuess, Loading, Pcs
<1>2. FilesKeyed' /\ HandlesKeyed' /\ MemoInv'
  BY DEF Start, CacheInv, Types, FilesKeyed, HandlesKeyed, LoadsInv, MemoInv
<1>3. RefsKeyed' /\ LoadsInv' /\ KeysInv'
  BY DEF Start, CacheInv, Types, RefsKeyed, LoadsInv, KeysInv, Loading, Serves
<1>4. QED
  BY <1>1, <1>2, <1>3 DEF CacheInv

\* The snapshot decoded ahead of the key holds the content of its own name.
LEMMA DecodeGuessKeeps ==
  ASSUME CacheInv, NEW s \in Sessions, DecodeGuess(s)
  PROVE  CacheInv'
<1> DEFINE f == cache[guess[s]]
           h == Decoded(f, guess[s], "cache")
<1>1. guess[s] \in Contents
  BY DEF DecodeGuess, CacheInv, Types
<1>2. Readable(f) =>
        h \in Handles /\ h # None /\ h.content = h.key
  <2>1. Readable(f) => f \in Files /\ f.holds = guess[s]
    BY <1>1 DEF CacheInv, Types, FilesKeyed, Readable
  <2>2. QED
    BY <1>1, <2>1, DecodedKeyed
<1>3. guessed' \in {guessed, [guessed EXCEPT ![s] = h]}
      /\ (guessed' = guessed \/ Readable(f))
  BY DEF DecodeGuess
<1>4. Types'
  <2>1. guessed' \in [Sessions -> Handles \cup {None}]
    BY <1>2, <1>3 DEF CacheInv, Types
  <2>2. QED
    BY <2>1 DEF DecodeGuess, CacheInv, Types
<1>5. HandlesKeyed'
  BY <1>2, <1>3 DEF DecodeGuess, CacheInv, Types, HandlesKeyed
<1>6. FilesKeyed' /\ MemoInv' /\ RefsKeyed' /\ LoadsInv' /\ KeysInv'
  BY DEF DecodeGuess, CacheInv, FilesKeyed, MemoInv, RefsKeyed, LoadsInv,
         KeysInv, Serves
<1>7. QED
  BY <1>4, <1>5, <1>6 DEF CacheInv

\* Learning the key, when it is the library's, disturbs no handle.
LEMMA KeyKeeps ==
  ASSUME CacheInv, NEW s \in Sessions, pc[s] = "keying", key[s] = None,
         NEW k \in {None, lib}, key' = [key EXCEPT ![s] = k],
         UNCHANGED <<pc, lib, handle, guessed, shared, found, held>>
  PROVE  HandlesKeyed' /\ RefsKeyed'
<1> USE DEF CacheInv
<1>1. handle[s] = None
  BY NoHandleYet
<1>2. HandlesKeyed'
  BY <1>1 DEF Types, HandlesKeyed
<1>3. found[s] = None /\ held[s] = None
  BY DEF LoadsInv
<1>4. RefsKeyed'
  BY <1>3 DEF Types, RefsKeyed, Serves
<1>5. QED
  BY <1>2, <1>4

\* A memoized key is believed only under an unchanged listing, and then it
\* is the key of the library as it is.
LEMMA ListFilesKeeps ==
  ASSUME CacheInv, NEW s \in Sessions, ListFiles(s)
  PROVE  CacheInv'
<1> DEFINE k == MemoizedKey(ProcessOf[s])
<1>1. k \in {None, lib} /\ lib \in Contents /\ lib # None
  BY CacheAssumption DEF CacheInv, MemoInv, MemoizedKey, Types
<1>2. /\ pc[s] = "keying" /\ key[s] = None
      /\ key' = [key EXCEPT ![s] = k]
      /\ listing' = [listing EXCEPT ![s] = IF k = None THEN stamp + 1 ELSE 0]
      /\ UNCHANGED <<lib, stamp, cache, shipped, memo, shared, pc, guess, guessed,
                     found, handle, held, saving, asked>>
  BY DEF ListFiles
<1> HIDE DEF k
<1>3. HandlesKeyed' /\ RefsKeyed'
  BY <1>1, <1>2, KeyKeeps
<1>4. Types'
  <2>1. key' \in [Sessions -> Contents \cup {None}]
    BY <1>1, <1>2 DEF CacheInv, Types
  <2>2. listing' \in [Sessions -> Nat]
    BY <1>2 DEF CacheInv, Types
  <2>3. QED
    BY <1>2, <2>1, <2>2 DEF CacheInv, Types
<1>5. FilesKeyed' /\ MemoInv'
  BY <1>2 DEF CacheInv, FilesKeyed, MemoInv
<1>6. LoadsInv' /\ KeysInv'
  BY <1>1, <1>2 DEF CacheInv, Types, LoadsInv, KeysInv
<1>7. QED
  BY <1>3, <1>4, <1>5, <1>6 DEF CacheInv

\* The listing that is memoized with the hash is the one the hash is of.
LEMMA HashFilesKeeps ==
  ASSUME CacheInv, NEW s \in Sessions, HashFiles(s)
  PROVE  CacheInv'
<1> DEFINE m == [stamp |-> listing[s] - 1, key |-> lib]
<1>1. /\ pc[s] = "keying" /\ key[s] = None /\ listing[s] = stamp + 1
      /\ key' = [key EXCEPT ![s] = lib]
      /\ memo' = [memo EXCEPT ![ProcessOf[s]] = m]
      /\ listing' = [listing EXCEPT ![s] = 0]
      /\ UNCHANGED <<lib, stamp, cache, shipped, shared, pc, guess, guessed,
                     found, handle, held, saving, asked>>
  BY DEF HashFiles, CacheInv, KeysInv, Loading
<1>2. lib \in Contents /\ stamp \in Nat /\ ProcessOf[s] \in Procs
  BY CacheAssumption DEF CacheInv, Types
<1>3. m \in Listings /\ m.stamp = stamp /\ m.key = lib
  BY <1>1, <1>2 DEF Listings
<1> HIDE DEF m
<1>4. HandlesKeyed' /\ RefsKeyed'
  BY <1>1, KeyKeeps
<1>5. Types'
  BY <1>1, <1>2, <1>3 DEF CacheInv, Types
<1>6. FilesKeyed' /\ MemoInv'
  BY <1>1, <1>2, <1>3 DEF CacheInv, Types, FilesKeyed, MemoInv
<1>7. LoadsInv' /\ KeysInv'
  BY <1>1 DEF CacheInv, Types, LoadsInv, KeysInv
<1>8. QED
  BY <1>4, <1>5, <1>6, <1>7 DEF CacheInv

\* Dead entries leave the table, the load finds the one under its key, and a
\* guess of another key is dropped.
LEMMA LookupKeeps ==
  ASSUME CacheInv, NEW s \in Sessions, Lookup(s)
  PROVE  CacheInv'
<1> DEFINE p == ProcessOf[s]
           entries == [k \in Contents |->
                         IF shared[p][k] # None /\ Strong(shared[p][k])
                           THEN shared[p][k] ELSE None]
<1>1. /\ pc[s] = "keying" /\ key[s] # None
      /\ guessed' = [guessed EXCEPT ![s] =
                       IF @ # None /\ @.key = key[s] THEN @ ELSE None]
      /\ shared' = [shared EXCEPT ![p] = entries]
      /\ found' = [found EXCEPT ![s] = entries[key[s]]]
      /\ pc' = [pc EXCEPT ![s] = "found"]
      /\ UNCHANGED <<lib, stamp, cache, shipped, memo, key, listing, guess,
                     handle, held, saving, asked>>
      /\ guess[s] = None
  BY DEF Lookup
<1>2. p \in Procs /\ key[s] \in Contents
  BY <1>1, CacheAssumption DEF CacheInv, Types
<1>3. /\ entries \in [Contents -> Sessions \cup {None}]
      /\ \A k \in Contents : entries[k] \in {shared[p][k], None}
  BY <1>2 DEF CacheInv, Types
<1> HIDE DEF entries
<1>4. Types'
  <2>1. shared' \in [Procs -> [Contents -> Sessions \cup {None}]]
    BY <1>1, <1>3 DEF CacheInv, Types
  <2>2. found' \in [Sessions -> Sessions \cup {None}]
    BY <1>1, <1>2, <1>3 DEF CacheInv, Types
  <2>3. guessed' \in [Sessions -> Handles \cup {None}]
    BY <1>1 DEF CacheInv, Types
  <2>4. pc' \in [Sessions -> Pcs]
    BY <1>1 DEF CacheInv, Types, Pcs, Loading
  <2>5. QED
    BY <1>1, <2>1, <2>2, <2>3, <2>4 DEF CacheInv, Types
<1>5. FilesKeyed' /\ MemoInv'
  BY <1>1 DEF CacheInv, FilesKeyed, MemoInv
<1>6. HandlesKeyed'
  BY <1>1 DEF CacheInv, Types, HandlesKeyed
<1>7. RefsKeyed'
  <2>1. \A q \in Procs, k \in Contents : shared'[q][k] \in {shared[q][k], None}
    BY <1>1, <1>2, <1>3 DEF CacheInv, Types
  <2>2. \A r \in Sessions :
          found'[r] = found[r] \/ (r = s /\ found'[r] \in {shared[p][key[s]], None})
    BY <1>1, <1>2, <1>3 DEF CacheInv, Types
  <2>3. QED
    BY <1>1, <1>2, <2>1, <2>2 DEF CacheInv, RefsKeyed, Serves
<1>8. LoadsInv'
  BY <1>1 DEF CacheInv, Types, LoadsInv, Loading
<1>9. KeysInv'
  BY <1>1 DEF CacheInv, Types, LoadsInv, KeysInv, Loading
<1>10. QED
  BY <1>4, <1>5, <1>6, <1>7, <1>8, <1>9 DEF CacheInv

\* A library found in the process is one of this key, damaged or not.
LEMMA ServeKeeps ==
  ASSUME CacheInv, NEW s \in Sessions, Serve(s)
  PROVE  CacheInv'
<1>1. Types'
  BY CacheAssumption DEF Serve, CacheInv, Types, Loading, Pcs
<1>2. FilesKeyed' /\ HandlesKeyed' /\ MemoInv'
  BY DEF Serve, CacheInv, Types, FilesKeyed, HandlesKeyed, MemoInv
<1>3. RefsKeyed'
  BY DEF Serve, CacheInv, Types, RefsKeyed, Serves
<1>4. LoadsInv' /\ KeysInv'
  BY DEF Serve, CacheInv, Types, LoadsInv, KeysInv, Loading
<1>5. QED
  BY <1>1, <1>2, <1>3, <1>4 DEF CacheInv

\* Nothing was found at one place: the load goes on to the next.
LEMMA GoesOnKeeps ==
  ASSUME CacheInv, NEW s \in Sessions, NEW at \in {"shipped", "source"},
         pc[s] \in {"cache", "shipped"}, pc' = [pc EXCEPT ![s] = at],
         guessed' \in {guessed, [guessed EXCEPT ![s] = None]},
         UNCHANGED <<lib, stamp, cache, shipped, memo, shared, key, listing,
                     guess, found, handle, held, saving, asked>>
  PROVE  CacheInv'
<1>1. Types'
  BY DEF CacheInv, Types, Loading, Pcs
<1>2. FilesKeyed' /\ HandlesKeyed' /\ MemoInv'
  BY DEF CacheInv, Types, FilesKeyed, HandlesKeyed, MemoInv
<1>3. RefsKeyed' /\ LoadsInv' /\ KeysInv'
  BY DEF CacheInv, Types, RefsKeyed, LoadsInv, KeysInv, Loading, Serves
<1>4. QED
  BY <1>1, <1>2, <1>3 DEF CacheInv

\* Whatever the cache yields, guessed or read now, has the key of the load.
LEMMA TryCacheKeeps ==
  ASSUME CacheInv, NEW s \in Sessions, TryCache(s)
  PROVE  CacheInv'
<1> DEFINE f == cache[key[s]]
<1>1. key[s] \in Contents
  BY DEF TryCache, CacheInv, Types, LoadsInv, Loading
<1>2. CASE guessed[s] # None
  <2>1. /\ guessed[s] \in Handles
        /\ guessed[s].content = guessed[s].key /\ guessed[s].key = key[s]
    BY <1>2 DEF TryCache, CacheInv, Types, HandlesKeyed
  <2>2. Make(s, guessed[s])
    BY <1>2 DEF TryCache
  <2>3. QED
    BY <2>1, <2>2, MakeKeeps DEF TryCache, diskVars, procVars, histVars
<1>3. CASE guessed[s] = None /\ Readable(f)
  <2>1. f \in Files /\ f.holds = key[s]
    BY <1>1, <1>3 DEF CacheInv, Types, FilesKeyed, Readable
  <2>2. Make(s, Decoded(f, key[s], "cache"))
    BY <1>3 DEF TryCache
  <2>3. /\ Decoded(f, key[s], "cache") \in Handles
        /\ Decoded(f, key[s], "cache").content = key[s]
        /\ Decoded(f, key[s], "cache").key = key[s]
    BY <1>1, <2>1, DecodedKeyed
  <2>4. QED
    BY <2>2, <2>3, MakeKeeps DEF TryCache, diskVars, procVars, histVars
<1>4. CASE guessed[s] = None /\ ~Readable(f)
  BY <1>4, GoesOnKeeps DEF TryCache, diskVars, procVars, histVars
<1>5. QED
  BY <1>2, <1>3, <1>4

\* So has what the shipped snapshots yield.
LEMMA TryShippedKeeps ==
  ASSUME CacheInv, NEW s \in Sessions, TryShipped(s)
  PROVE  CacheInv'
<1> DEFINE f == shipped[key[s]]
<1>1. key[s] \in Contents
  BY DEF TryShipped, CacheInv, Types, LoadsInv, Loading
<1>2. CASE Readable(f)
  <2>1. f \in Files /\ f.holds = key[s]
    BY <1>1, <1>2 DEF CacheInv, Types, FilesKeyed, Readable
  <2>2. Make(s, Decoded(f, key[s], "shipped"))
    BY <1>2 DEF TryShipped
  <2>3. /\ Decoded(f, key[s], "shipped") \in Handles
        /\ Decoded(f, key[s], "shipped").content = key[s]
        /\ Decoded(f, key[s], "shipped").key = key[s]
    BY <1>1, <2>1, DecodedKeyed
  <2>4. QED
    BY <2>2, <2>3, MakeKeeps DEF TryShipped, diskVars, procVars, histVars
<1>3. CASE ~Readable(f)
  BY <1>3, GoesOnKeeps DEF TryShipped, diskVars, procVars, histVars
<1>4. QED
  BY <1>2, <1>3

\* What is prepared from the sources is the library as it is, which is what
\* was hashed: nobody edits it during a load.
LEMMA PrepareKeeps ==
  ASSUME CacheInv, NEW s \in Sessions, Prepare(s)
  PROVE  CacheInv'
<1> DEFINE h == [key |-> key[s], content |-> lib, from |-> "source",
                 by |-> s, bad |-> FALSE]
<1>1. key[s] = lib /\ lib \in Contents
  BY KeyIsLib DEF Prepare, CacheInv, Types, Loading
<1>2. h \in Handles /\ h.content = h.key /\ h.key = key[s]
  BY <1>1 DEF Handles
<1>3. Make(s, h)
  BY DEF Prepare
<1>4. QED
  BY <1>2, <1>3, MakeKeeps DEF Prepare, diskVars, procVars, histVars

\* The load's own handle enters the table under the load's own key.
LEMMA RegisterKeeps ==
  ASSUME CacheInv, NEW s \in Sessions, Register(s)
  PROVE  CacheInv'
<1>1. /\ pc[s] = "register" /\ handle[s] # None /\ key[s] \in Contents
      /\ shared' = [shared EXCEPT ![ProcessOf[s]][key[s]] = s]
      /\ pc' \in {[pc EXCEPT ![s] = "joining"], [pc EXCEPT ![s] = "loaded"]}
      /\ UNCHANGED <<lib, stamp, cache, shipped, memo, key, listing, guess,
                     guessed, found, handle, held, saving, asked>>
  BY DEF Register, diskVars, histVars, CacheInv, Types, LoadsInv, Loading
<1>2. ProcessOf[s] \in Procs
  BY CacheAssumption
<1>3. Types'
  <2>1. shared' \in [Procs -> [Contents -> Sessions \cup {None}]]
    BY <1>1, <1>2 DEF CacheInv, Types
  <2>2. pc' \in [Sessions -> Pcs]
    BY <1>1 DEF CacheInv, Types, Pcs, Loading
  <2>3. QED
    BY <1>1, <2>1, <2>2 DEF CacheInv, Types
<1>4. FilesKeyed' /\ HandlesKeyed' /\ MemoInv'
  BY <1>1 DEF CacheInv, Types, FilesKeyed, HandlesKeyed, MemoInv
<1>5. RefsKeyed'
  BY <1>1, <1>2 DEF CacheInv, Types, HandlesKeyed, RefsKeyed, Serves
<1>6. LoadsInv' /\ KeysInv'
  BY <1>1 DEF CacheInv, Types, LoadsInv, KeysInv, Loading
<1>7. QED
  BY <1>3, <1>4, <1>5, <1>6 DEF CacheInv

\* Waiting for the writing thread changes no content.
LEMMA JoinKeeps ==
  ASSUME CacheInv, NEW s \in Sessions, Join(s)
  PROVE  CacheInv'
<1>1. Types'
  BY DEF Join, diskVars, procVars, histVars, CacheInv, Types, Loading, Pcs
<1>2. FilesKeyed' /\ HandlesKeyed' /\ MemoInv'
  BY DEF Join, diskVars, procVars, CacheInv, Types, FilesKeyed, HandlesKeyed,
         MemoInv
<1>3. RefsKeyed' /\ LoadsInv' /\ KeysInv'
  BY DEF Join, diskVars, procVars, histVars, CacheInv, Types, RefsKeyed,
         LoadsInv, KeysInv, Loading, Serves
<1>4. QED
  BY <1>1, <1>2, <1>3 DEF CacheInv

\* Closing a session leaves its handle to those who found it.
LEMMA CloseKeeps ==
  ASSUME CacheInv, NEW s \in Sessions, Close(s)
  PROVE  CacheInv'
<1>1. Types'
  BY DEF Close, diskVars, procVars, CacheInv, Types, Loading, Pcs
<1>2. FilesKeyed' /\ HandlesKeyed' /\ MemoInv'
  BY DEF Close, diskVars, procVars, CacheInv, Types, FilesKeyed, HandlesKeyed,
         MemoInv
<1>3. RefsKeyed' /\ LoadsInv' /\ KeysInv'
  BY DEF Close, diskVars, procVars, CacheInv, Types, RefsKeyed,
         LoadsInv, KeysInv, Loading, Serves
<1>4. QED
  BY <1>1, <1>2, <1>3 DEF CacheInv

----------------------------------------------------------------------------
(***************************************************************************)
(* The threads and the world.                                               *)
(***************************************************************************)

\* A snapshot removed, damaged or written with its key's content.
LEMMA FilesChange ==
  ASSUME CacheInv, NEW k \in Contents, NEW f \in Files \cup {None},
         f # None => f.holds = k,
         cache' \in {cache, [cache EXCEPT ![k] = f]},
         saving' \in [Sessions -> {"no", "recording", "create", "write", "rename"}],
         \A s \in Sessions : saving'[s] # "no" => saving[s] # "no",
         UNCHANGED <<lib, stamp, shipped, memo, shared, pc, key, listing,
                     guess, guessed, found, handle, held, asked>>
  PROVE  CacheInv'
<1>1. Types'
  BY DEF CacheInv, Types
<1>2. FilesKeyed'
  BY DEF CacheInv, Types, FilesKeyed
<1>3. HandlesKeyed' /\ RefsKeyed' /\ LoadsInv' /\ KeysInv' /\ MemoInv'
  BY DEF CacheInv, HandlesKeyed, RefsKeyed, LoadsInv, KeysInv, MemoInv, Serves
<1>4. QED
  BY <1>1, <1>2, <1>3 DEF CacheInv

\* What touches nothing that decides a load's content.
LEMMA NothingChanges ==
  ASSUME CacheInv,
         UNCHANGED <<lib, stamp, cache, shipped, memo, shared, pc, key, listing,
                     guess, guessed, found, handle, held, saving, asked>>
  PROVE  CacheInv'
BY DEF CacheInv, Types, FilesKeyed, HandlesKeyed, RefsKeyed, LoadsInv, KeysInv,
       MemoInv, Serves

\* The writing thread puts what the load prepared under the key of the load,
\* whole, partial or not at all.
LEMMA SaveKeeps ==
  ASSUME CacheInv, NEW s \in Sessions, SaveStep(s)
  PROVE  CacheInv'
<1> USE DEF saveUnchanged, procVars, loadVars, histVars
<1>1. CASE SaveRecording(s)
  BY <1>1, FilesChange DEF SaveRecording, CacheInv, Types
<1>2. CASE CreateTemporary(s)
  BY <1>2, FilesChange DEF CreateTemporary, CacheInv, Types
<1>3. CASE WriteParts(s)
  BY <1>3, FilesChange DEF WriteParts, CacheInv, Types
<1>4. CASE Rename(s)
  <2> DEFINE f == [holds |-> handle[s].content, by |-> s,
                   state |-> IF temps[s] = "whole" THEN "sound" ELSE "partial"]
  <2>1. handle[s] \in Handles /\ handle[s].content = key[s]
    BY <1>4 DEF Rename, CacheInv, Types, LoadsInv, HandlesKeyed
  <2>2. key[s] \in Contents /\ f \in Files /\ f.holds = key[s]
    BY <2>1 DEF Handles, Files
  <2>3. /\ cache' = [cache EXCEPT ![key[s]] = f]
        /\ saving' = [saving EXCEPT ![s] = "no"]
        /\ UNCHANGED saveUnchanged
    BY <1>4 DEF Rename
  <2>4. saving' \in [Sessions -> {"no", "recording", "create", "write", "rename"}]
        /\ \A r \in Sessions : saving'[r] # "no" => saving[r] # "no"
    BY <2>3 DEF CacheInv, Types
  <2> HIDE DEF f
  <2>5. QED
    BY <2>2, <2>3, <2>4, FilesChange
<1>5. CASE SaveFails(s)
  BY <1>5, FilesChange DEF SaveFails, CacheInv, Types
<1>6. QED
  BY <1>1, <1>2, <1>3, <1>4, <1>5 DEF SaveStep

\* A reading thread that meets damage removes the snapshot, or does nothing.
LEMMA ReadPartKeeps ==
  ASSUME CacheInv, NEW r \in readers, ReadPart(r)
  PROVE  CacheInv'
<1> USE DEF ReadPart, procVars, loadVars, histVars
<1>1. CASE r.key \in Contents
  BY <1>1, FilesChange DEF CacheInv, Types
<1>2. CASE r.key \notin Contents
  <2>1. cache' = cache
    BY <1>2 DEF CacheInv, Types
  <2>2. QED
    BY <2>1, NothingChanges
<1>3. QED
  BY <1>1, <1>2

\* Damage changes no content: the digest tells it.
LEMMA DamageKeeps ==
  ASSUME CacheInv, NEW k \in Contents, Damage(k)
  PROVE  CacheInv'
<1> DEFINE f == [cache[k] EXCEPT !.state = "damaged"]
<1>1. cache[k] \in Files /\ cache[k].holds = k
  BY DEF Damage, CacheInv, Types, FilesKeyed
<1>2. f \in Files /\ f.holds = k
  BY <1>1 DEF Files
<1>3. cache' = [cache EXCEPT ![k] = f]
  BY DEF Damage
<1> HIDE DEF f
<1>4. QED
  BY <1>2, <1>3, FilesChange DEF Damage, procVars, loadVars, histVars,
     CacheInv, Types

\* No load runs while the library is edited, and the stamps grow.
LEMMA EditKeeps ==
  ASSUME CacheInv, EditsDuringLoad = FALSE, NEW c \in Contents, Edit(c)
  PROVE  CacheInv'
<1>1. /\ \A s \in Sessions : pc[s] \notin Loading
      /\ lib' = c /\ stamp' = stamp + 1
      /\ UNCHANGED <<cache, shipped, memo, shared, pc, key, listing, guess,
                     guessed, found, handle, held, saving, asked>>
  BY DEF Edit, diskVars, procVars, loadVars, histVars
<1>2. Types' /\ FilesKeyed' /\ HandlesKeyed' /\ RefsKeyed' /\ LoadsInv'
  BY <1>1 DEF CacheInv, Types, FilesKeyed, HandlesKeyed, RefsKeyed, LoadsInv,
              Serves
<1>3. KeysInv'
  BY <1>1 DEF CacheInv, KeysInv
<1>4. MemoInv'
  BY <1>1 DEF CacheInv, Types, MemoInv, Listings
<1>5. QED
  BY <1>2, <1>3, <1>4 DEF CacheInv

\* A process takes its tables and the state of its loads with it; what other
\* processes refer to is their own.
LEMMA GoneKeeps ==
  ASSUME CacheInv, NEW p \in Procs, Gone(p)
  PROVE  CacheInv'
<1>1. /\ memo' = [memo EXCEPT ![p] = None]
      /\ shared' = [shared EXCEPT ![p] = NoEntries]
      /\ UNCHANGED <<lib, stamp, cache, shipped>>
  BY DEF Gone, diskVars
<1>2. /\ pc' = [s \in Sessions |-> IF ProcessOf[s] = p /\ pc[s] # "idle"
                                     THEN "closed" ELSE pc[s]]
      /\ key' = [s \in Sessions |-> IF ProcessOf[s] = p THEN None ELSE key[s]]
      /\ listing' = [s \in Sessions |-> IF ProcessOf[s] = p THEN 0 ELSE listing[s]]
      /\ guess' = [s \in Sessions |-> IF ProcessOf[s] = p THEN None ELSE guess[s]]
      /\ guessed' = [s \in Sessions |->
                       IF ProcessOf[s] = p THEN None ELSE guessed[s]]
      /\ found' = [s \in Sessions |-> IF ProcessOf[s] = p THEN None ELSE found[s]]
      /\ handle' = [s \in Sessions |-> IF ProcessOf[s] = p THEN None ELSE handle[s]]
      /\ held' = [s \in Sessions |-> IF ProcessOf[s] = p THEN None ELSE held[s]]
      /\ saving' = [s \in Sessions |-> IF ProcessOf[s] = p THEN "no" ELSE saving[s]]
      /\ asked' = [s \in Sessions |-> IF ProcessOf[s] = p THEN None ELSE asked[s]]
  BY DEF Gone
<1>3. Types'
  BY <1>1, <1>2 DEF CacheInv, Types, NoEntries, Pcs
<1>4. FilesKeyed' /\ MemoInv'
  BY <1>1 DEF CacheInv, Types, FilesKeyed, MemoInv
<1>5. HandlesKeyed'
  BY <1>2 DEF CacheInv, HandlesKeyed
<1>6. RefsKeyed'
  <2>1. \A h \in Sessions, q \in Procs, k \in Contents :
          q # p /\ Serves(h, q, k) => handle'[h] = handle[h]
    BY <1>2 DEF Serves
  <2>2. ASSUME NEW q \in Procs, NEW k \in Contents, shared'[q][k] # None
        PROVE  Serves(shared[q][k], q, k)'
    <3>1. shared'[q][k] = IF q = p THEN None ELSE shared[q][k]
      BY <1>1 DEF CacheInv, Types, NoEntries
    <3>2. q # p /\ Serves(shared[q][k], q, k)
      BY <2>2, <3>1 DEF CacheInv, RefsKeyed
    <3>3. QED
      BY <2>1, <3>1, <3>2 DEF Serves
  <2>3. \A s \in Sessions :
          /\ (found[s] # None => Serves(found[s], ProcessOf[s], key[s]))'
          /\ (held[s] # None => Serves(held[s], ProcessOf[s], key[s]))'
    BY <1>2 DEF CacheInv, RefsKeyed, Serves
  <2>4. QED
    BY <2>2, <2>3 DEF RefsKeyed
<1>7. LoadsInv'
  BY <1>2 DEF CacheInv, LoadsInv, Loading
<1>8. KeysInv'
  BY <1>1, <1>2 DEF CacheInv, KeysInv, Loading
<1>9. QED
  BY <1>3, <1>4, <1>5, <1>6, <1>7, <1>8 DEF CacheInv

----------------------------------------------------------------------------
\* The snapshots found at start, sound or not, are named after what they hold.
LEMMA InitCacheInv == Init => CacheInv
<1> SUFFICES ASSUME Init PROVE CacheInv
  OBVIOUS
<1> USE CacheAssumption DEF Init, NoHandles, NoEntries
<1>1. /\ cache \in [Contents -> Files \cup {None}]
      /\ \A k \in Contents : cache[k] # None => cache[k].holds = k
  <2>1. PICK st \in [Contents -> CacheStates] :
          cache = [k \in Contents |-> FileAtStart(st[k], k)]
    OBVIOUS
  <2>2. QED
    BY <2>1 DEF FileAtStart, Files
<1>2. /\ shipped \in [Contents -> Files \cup {None}]
      /\ \A k \in Contents : shipped[k] # None => shipped[k].holds = k
  <2>1. PICK st \in [Contents -> ShippedStates] :
          shipped = [k \in Contents |-> FileAtStart(st[k], k)]
    OBVIOUS
  <2>2. QED
    BY <2>1 DEF FileAtStart, Files
<1>3. Types
  BY <1>1, <1>2 DEF Types, Pcs
<1>4. FilesKeyed
  BY <1>1, <1>2 DEF FilesKeyed
<1>5. HandlesKeyed /\ RefsKeyed /\ LoadsInv /\ KeysInv /\ MemoInv
  BY DEF HandlesKeyed, RefsKeyed, LoadsInv, KeysInv, MemoInv, Loading
<1>6. QED
  BY <1>3, <1>4, <1>5 DEF CacheInv

\* Every step keeps the invariant.
LEMMA NextCacheInv ==
  ASSUME EditsDuringLoad = FALSE, CacheInv, [Next]_vars
  PROVE  CacheInv'
<1>1. ASSUME NEW s \in Sessions, LoadStep(s) PROVE CacheInv'
  BY <1>1, DecodeGuessKeeps, ListFilesKeeps, HashFilesKeeps, LookupKeeps,
     ServeKeeps, TryCacheKeeps, TryShippedKeeps, PrepareKeeps, RegisterKeeps,
     JoinKeeps DEF LoadStep
<1>2. ASSUME NEW s \in Sessions, TakeParts(s) PROVE CacheInv'
  BY <1>2, NothingChanges DEF TakeParts, diskVars, procVars, histVars
<1>3. ASSUME NEW p \in Procs, Release(p) PROVE CacheInv'
  BY <1>3, NothingChanges DEF Release, diskVars, loadVars, histVars
<1>4. ASSUME NEW p \in Procs, Exit(p) \/ Crash(p) PROVE CacheInv'
  BY <1>4, GoneKeeps DEF Exit, Crash
<1>5. CASE UNCHANGED vars
  BY <1>5, NothingChanges DEF vars, diskVars, procVars, loadVars, histVars
<1>6. QED
  BY <1>1, <1>2, <1>3, <1>4, <1>5, StartKeeps, SaveKeeps, CloseKeeps,
     ReadPartKeeps, EditKeeps, DamageKeeps DEF Next

(***************************************************************************)
(* The library is not edited during a load: then what decides the content   *)
(* of a load is consistent in every reachable state.                        *)
(***************************************************************************)
THEOREM CacheInvariance ==
  ASSUME EditsDuringLoad = FALSE
  PROVE  Spec => []CacheInv
<1>1. CacheInv /\ [Next]_vars => CacheInv'
  BY NextCacheInv
<1>2. QED
  BY <1>1, InitCacheInv, PTL DEF Spec

(***************************************************************************)
(* Then no snapshot in the cache ever holds another content than its key's  *)
(* (write under the key that was hashed, prepared.rs:2006-2024).            *)
(***************************************************************************)
THEOREM CacheIdentified ==
  ASSUME EditsDuringLoad = FALSE
  PROVE  Spec => []Identified
<1>1. CacheInv => Identified
  BY DEF CacheInv, FilesKeyed, Identified
<1>2. QED
  BY <1>1, CacheInvariance, PTL

(***************************************************************************)
(* And every load, whichever of its five paths it takes, installs what the  *)
(* library directory held (load_library_with_cache).                        *)
(***************************************************************************)
THEOREM LoadsServeDirectory ==
  ASSUME EditsDuringLoad = FALSE
  PROVE  Spec => []ServesDirectory
<1>1. CacheInv => ServesDirectory
  <2> SUFFICES ASSUME CacheInv, NEW s \in Sessions, pc[s] = "loaded"
               PROVE  handle[held[s]].content = asked[s]
    BY DEF ServesDirectory
  <2>1. Serves(held[s], ProcessOf[s], key[s])
    BY DEF CacheInv, LoadsInv, RefsKeyed
  <2>2. handle[held[s]].content = key[s]
    BY <2>1 DEF CacheInv, HandlesKeyed, Serves
  <2>3. QED
    BY <2>2 DEF CacheInv, KeysInv
<1>2. QED
  BY <1>1, CacheInvariance, PTL

(***************************************************************************)
(* Whatever is edited when.  Each of these invariants stands on one about   *)
(* the shape of the state, StateInv.                                        *)
(***************************************************************************)
SavePhases == {"no", "recording", "create", "write", "rename"}

\* What a load has at which point of its way.
PhaseOf(s) ==
  /\ pc[s] = "idle" => key[s] = None /\ handle[s] = None /\ held[s] = None
  /\ pc[s] \in (Loading \cup {"loaded"}) \ {"keying"} => key[s] # None
  /\ handle[s] # None => pc[s] \in {"register", "joining", "loaded", "closed"}
  /\ guessed[s] # None => pc[s] \in {"keying", "found", "cache"}
  /\ saving[s] # "no" => handle[s] # None /\ key[s] # None
  /\ noticed[s] => handle[s] # None /\ handle[s].bad
  /\ found[s] # None => ProcessOf[found[s]] = ProcessOf[s]

StateInv ==
  /\ lib \in Contents
  /\ cache \in [Contents -> Files \cup {None}]
  /\ shipped \in [Contents -> Files \cup {None}]
  /\ shared \in [Procs -> [Contents -> Sessions \cup {None}]]
  /\ \A p \in Procs, k \in Contents :
       shared[p][k] # None => ProcessOf[shared[p][k]] = p
  /\ memo \in [Procs -> Listings \cup {None}]
  /\ pc \in [Sessions -> Pcs]
  /\ key \in [Sessions -> Contents \cup {None}]
  /\ guess \in [Sessions -> Contents \cup {None}]
  /\ guessed \in [Sessions -> Handles \cup {None}]
  /\ found \in [Sessions -> Sessions \cup {None}]
  /\ handle \in [Sessions -> Handles \cup {None}]
  /\ held \in [Sessions -> Sessions \cup {None}]
  /\ noticed \in [Sessions -> BOOLEAN]
  /\ saving \in [Sessions -> SavePhases]
  /\ stamp \in Nat /\ listing \in [Sessions -> Nat]
  /\ \A s \in Sessions : PhaseOf(s)

\* A key is memoized for a listing taken no later than now, and one taken
\* now is that of the library as it is.
MemoListed ==
  /\ \A s \in Sessions : listing[s] <= stamp + 1
  /\ \A p \in Procs : memo[p] # None =>
       /\ memo[p].stamp <= stamp
       /\ memo[p].stamp = stamp => memo[p].key = lib

\* Only a file written to its end is renamed into the cache.
WholeInv ==
  /\ temps \in [Sessions -> {"none", "partial", "whole"}]
  /\ \A s \in Sessions : saving[s] = "rename" => temps[s] = "whole"
  /\ \A k \in Contents : cache[k] # None => cache[k].state # "partial"

\* A load knows as damaged what its process did when it began, and holds none
\* of it.
ShunInv ==
  /\ shunned \in [Sessions -> SUBSET Sessions]
  /\ \A s \in Sessions :
       /\ held[s] # None => held[s] \notin shunned[s]
       /\ s \notin shunned[s]
       /\ pc[s] \in Loading =>
            \A h \in shunned[s] : ProcessOf[h] = ProcessOf[s] => noticed[h]

\* Session w has saved for the last time; None names the files of before.
Spent(w) ==
  w = None \/ (saving[w] = "no" /\
               pc[w] \in {"register", "joining", "loaded", "closed"})

\* The file d was decoded from is no longer in the cache.
Removed(d) == cache[d.key] = None \/ cache[d.key].by # d.by

\* A bad file decoded by s is gone, or s reads the part that will remove it.
Condemned(s, d) ==
  d # None /\ d.from = "cache" /\ d.bad =>
    /\ Spent(d.by)
    /\ Removed(d) \/ [by |-> s, key |-> d.key, place |-> "cache"] \in readers

DamageInv ==
  /\ \A k \in Contents : cache[k] # None => Spent(cache[k].by)
  /\ \A s \in Sessions :
       /\ Condemned(s, handle[s]) /\ Condemned(s, guessed[s])
       /\ noticed[s] =>
            \A r \in readers : ~(r.by = s /\ r.key = handle[s].key)
----------------------------------------------------------------------------
(***************************************************************************)
(* The shape of the state.                                                  *)
(***************************************************************************)
USE DEF diskVars, procVars, loadVars, histVars, saveUnchanged

\* A readable file of the disk decodes into a handle.
LEMMA DecodedHandle ==
  ASSUME NEW f \in Files, NEW k \in Contents, NEW place \in {"cache", "shipped"}
  PROVE  Decoded(f, k, place) \in Handles /\ Decoded(f, k, place) # None
<1>1. Decoded(f, k, place) \in Handles
  BY DEF Decoded, Handles, Files
<1>2. QED
  BY <1>1, NoneAssumption

\* Installing a handle the load made is only done on the way to it.
LEMMA MakeShape ==
  ASSUME StateInv, NEW s \in Sessions, NEW h \in Handles, Make(s, h),
         pc[s] \in {"cache", "shipped", "source"},
         guessed' \in {guessed, [guessed EXCEPT ![s] = None]},
         guessed'[s] = None,
         saving' \in {saving, [saving EXCEPT ![s] = "recording"]},
         UNCHANGED <<lib, stamp, cache, shipped, memo, shared, key, listing,
                     guess, found, noticed>>
  PROVE  StateInv'
<1>1. h # None /\ key[s] # None /\ handle[s] = None /\ ~noticed[s]
  BY NoneAssumption DEF StateInv, PhaseOf, Loading
<1>2. /\ handle' = [handle EXCEPT ![s] = h]
      /\ held' = [held EXCEPT ![s] = s]
      /\ pc' = [pc EXCEPT ![s] = "register"]
  BY DEF Make
<1>3. ASSUME NEW r \in Sessions PROVE PhaseOf(r)'
  <2>1. CASE r = s
    BY <1>1, <1>2, <2>1 DEF StateInv, PhaseOf, Loading, Pcs
  <2>2. CASE r # s
    BY <1>2, <2>2 DEF StateInv, PhaseOf
  <2> QED BY <2>1, <2>2
<1>4. /\ handle' \in [Sessions -> Handles \cup {None}]
      /\ held' \in [Sessions -> Sessions \cup {None}]
      /\ pc' \in [Sessions -> Pcs]
      /\ guessed' \in [Sessions -> Handles \cup {None}]
      /\ saving' \in [Sessions -> SavePhases]
  BY <1>2 DEF StateInv, Pcs, Loading, SavePhases
<1> QED
  BY <1>3, <1>4 DEF StateInv

\* The load goes on to the next place to look.
LEMMA GoesOnShape ==
  ASSUME StateInv, NEW s \in Sessions, NEW at \in {"shipped", "source"},
         pc[s] \in {"cache", "shipped"}, pc' = [pc EXCEPT ![s] = at],
         guessed' \in {guessed, [guessed EXCEPT ![s] = None]},
         guessed'[s] = None,
         UNCHANGED <<lib, stamp, cache, shipped, memo, shared, key, listing,
                     guess, found, handle, held, noticed, saving>>
  PROVE  StateInv'
<1>1. /\ pc' \in [Sessions -> Pcs]
      /\ guessed' \in [Sessions -> Handles \cup {None}]
  BY DEF StateInv, Pcs, Loading
<1>2. \A r \in Sessions : PhaseOf(r)'
  BY DEF StateInv, PhaseOf, Pcs, Loading
<1> QED
  BY <1>1, <1>2 DEF StateInv

\* Looking for a library: the steps up to the registry's answer.
LEMMA KeyingShape ==
  ASSUME StateInv, NEW s \in Sessions,
         Start(s) \/ DecodeGuess(s) \/ ListFiles(s) \/ HashFiles(s)
  PROVE  StateInv'
<1> USE CacheAssumption
<1>1. CASE Start(s)
  <2>1. /\ pc' \in [Sessions -> Pcs]
        /\ guess' \in [Sessions -> Contents \cup {None}]
        /\ listing' \in [Sessions -> Nat]
    BY <1>1 DEF Start, StateInv, Pcs, Loading, SnapshotGuess
  <2>2. \A r \in Sessions : PhaseOf(r)'
    BY <1>1 DEF Start, StateInv, PhaseOf, Pcs, Loading
  <2> QED BY <1>1, <2>1, <2>2 DEF Start, StateInv
<1>2. CASE DecodeGuess(s)
  <2> DEFINE f == cache[guess[s]]
  <2>1. Readable(f) => Decoded(f, guess[s], "cache") \in Handles
    <3>1. guess[s] \in Contents
      BY <1>2 DEF DecodeGuess, StateInv
    <3>2. Readable(f) => f \in Files
      BY <3>1 DEF Readable, StateInv
    <3> QED BY <3>1, <3>2, DecodedHandle
  <2>2. /\ guessed' \in [Sessions -> Handles \cup {None}]
        /\ guess' \in [Sessions -> Contents \cup {None}]
    BY <1>2, <2>1 DEF DecodeGuess, StateInv
  <2>3. \A r \in Sessions : PhaseOf(r)'
    BY <1>2 DEF DecodeGuess, StateInv, PhaseOf
  <2> QED BY <1>2, <2>2, <2>3 DEF DecodeGuess, StateInv
<1>3. CASE ListFiles(s)
  <2> DEFINE k == MemoizedKey(ProcessOf[s])
  <2>1. k \in Contents \cup {None}
    BY DEF MemoizedKey, StateInv, Listings
  <2>2. /\ key' = [key EXCEPT ![s] = k]
        /\ listing' = [listing EXCEPT ![s] = IF k = None THEN stamp + 1 ELSE 0]
    BY <1>3 DEF ListFiles
  <2> HIDE DEF k
  <2>3. /\ key' \in [Sessions -> Contents \cup {None}]
        /\ listing' \in [Sessions -> Nat]
    BY <2>1, <2>2 DEF StateInv
  <2>4. \A r \in Sessions : PhaseOf(r)'
    BY <1>3, <2>2 DEF ListFiles, StateInv, PhaseOf, Loading
  <2> QED BY <1>3, <2>3, <2>4 DEF ListFiles, StateInv
<1>4. CASE HashFiles(s)
  <2>1. [stamp |-> listing[s] - 1, key |-> lib] \in Listings
    <3>1. listing[s] \in Nat /\ listing[s] # 0 /\ lib \in Contents
      BY <1>4 DEF HashFiles, StateInv
    <3>2. listing[s] - 1 \in Nat
      BY <3>1
    <3> QED BY <3>1, <3>2 DEF Listings
  <2>2. /\ key' \in [Sessions -> Contents \cup {None}]
        /\ listing' \in [Sessions -> Nat]
        /\ memo' \in [Procs -> Listings \cup {None}]
    BY <1>4, <2>1 DEF HashFiles, StateInv
  <2>3. \A r \in Sessions : PhaseOf(r)'
    BY <1>4 DEF HashFiles, StateInv, PhaseOf, Loading
  <2> QED BY <1>4, <2>2, <2>3 DEF HashFiles, StateInv
<1> QED BY <1>1, <1>2, <1>3, <1>4

\* The registry answers with a library of the load's own process.
LEMMA LookupShape ==
  ASSUME StateInv, NEW s \in Sessions, Lookup(s)
  PROVE  StateInv'
<1> DEFINE p == ProcessOf[s]
           entries == [k \in Contents |->
                         IF shared[p][k] # None /\ Strong(shared[p][k])
                           THEN shared[p][k] ELSE None]
<1>1. p \in Procs /\ key[s] \in Contents /\ pc[s] = "keying"
  BY CacheAssumption DEF Lookup, StateInv
<1>2. /\ entries \in [Contents -> Sessions \cup {None}]
      /\ \A k \in Contents : entries[k] # None => ProcessOf[entries[k]] = p
  BY <1>1 DEF StateInv
<1>3. /\ shared' = [shared EXCEPT ![p] = entries]
      /\ found' = [found EXCEPT ![s] = entries[key[s]]]
      /\ guessed' = [guessed EXCEPT ![s] =
                       IF @ # None /\ @.key = key[s] THEN @ ELSE None]
      /\ pc' = [pc EXCEPT ![s] = "found"]
  BY DEF Lookup
<1> HIDE DEF entries
<1>4. /\ shared' \in [Procs -> [Contents -> Sessions \cup {None}]]
      /\ found' \in [Sessions -> Sessions \cup {None}]
      /\ guessed' \in [Sessions -> Handles \cup {None}]
      /\ pc' \in [Sessions -> Pcs]
  BY <1>1, <1>2, <1>3 DEF StateInv, Pcs, Loading
<1>5. \A q \in Procs, k \in Contents :
        shared'[q][k] # None => ProcessOf[shared'[q][k]] = q
  BY <1>1, <1>2, <1>3 DEF StateInv
<1>6. \A r \in Sessions : PhaseOf(r)'
  BY <1>1, <1>2, <1>3 DEF Lookup, StateInv, PhaseOf, Loading
<1> QED
  BY <1>4, <1>5, <1>6 DEF Lookup, StateInv

\* Serving, registering, joining and closing.
LEMMA ServingShape ==
  ASSUME StateInv, NEW s \in Sessions,
         Serve(s) \/ Register(s) \/ Join(s) \/ Close(s)
  PROVE  StateInv'
<1> USE CacheAssumption
<1>1. CASE Serve(s)
  <2>1. /\ pc' \in [Sessions -> Pcs]
        /\ held' \in [Sessions -> Sessions \cup {None}]
        /\ guessed' \in [Sessions -> Handles \cup {None}]
        /\ found' \in [Sessions -> Sessions \cup {None}]
    BY <1>1 DEF Serve, StateInv, Pcs, Loading
  <2>2. \A r \in Sessions : PhaseOf(r)'
    BY <1>1 DEF Serve, StateInv, PhaseOf, Pcs, Loading
  <2> QED BY <1>1, <2>1, <2>2 DEF Serve, StateInv
<1>2. CASE Register(s)
  <2>1. /\ ProcessOf[s] \in Procs /\ key[s] \in Contents
        /\ shared' = [shared EXCEPT ![ProcessOf[s]][key[s]] = s]
        /\ pc' \in {[pc EXCEPT ![s] = "joining"], [pc EXCEPT ![s] = "loaded"]}
    <3>1. PhaseOf(s) /\ key[s] \in Contents \cup {None} /\ pc[s] = "register"
      BY <1>2 DEF Register, StateInv
    <3>2. key[s] \in Contents
      BY <3>1 DEF PhaseOf, Loading
    <3> QED BY <1>2, <3>2 DEF Register
  <2>2. /\ pc' \in [Sessions -> Pcs]
        /\ shared' \in [Procs -> [Contents -> Sessions \cup {None}]]
        /\ \A q \in Procs, k \in Contents :
             shared'[q][k] # None => ProcessOf[shared'[q][k]] = q
    BY <2>1, ZenonT(30) DEF StateInv, Pcs, Loading
  <2>3. \A r \in Sessions : PhaseOf(r)'
    BY <1>2, <2>1 DEF Register, StateInv, PhaseOf, Pcs, Loading
  <2> QED BY <1>2, <2>2, <2>3 DEF Register, StateInv
<1>3. CASE Join(s)
  <2>1. pc' \in [Sessions -> Pcs] /\ \A r \in Sessions : PhaseOf(r)'
    BY <1>3 DEF Join, StateInv, PhaseOf, Pcs, Loading
  <2> QED BY <1>3, <2>1 DEF Join, StateInv
<1>4. CASE Close(s)
  <2>1. /\ pc' \in [Sessions -> Pcs]
        /\ held' \in [Sessions -> Sessions \cup {None}]
        /\ \A r \in Sessions : PhaseOf(r)'
    BY <1>4 DEF Close, StateInv, PhaseOf, Pcs, Loading
  <2> QED BY <1>4, <2>1 DEF Close, StateInv
<1> QED BY <1>1, <1>2, <1>3, <1>4

\* The three places a load takes a library from.
LEMMA TakingShape ==
  ASSUME StateInv, NEW s \in Sessions,
         TryCache(s) \/ TryShipped(s) \/ Prepare(s)
  PROVE  StateInv'
<1>1. PhaseOf(s) /\ key[s] \in Contents \cup {None}
  BY DEF StateInv
<1>2. key[s] \in Contents
  BY <1>1 DEF TryCache, TryShipped, Prepare, PhaseOf, Loading
<1>3. CASE TryCache(s)
  <2> DEFINE f == cache[key[s]]
  <2>1. guessed' = [guessed EXCEPT ![s] = None] /\ guessed'[s] = None
    BY <1>3 DEF TryCache, StateInv
  <2>2. CASE guessed[s] # None
    <3>1. guessed[s] \in Handles /\ Make(s, guessed[s])
      BY <1>3, <2>2 DEF TryCache, StateInv
    <3> QED BY <1>3, <2>1, <3>1, MakeShape DEF TryCache
  <2>3. CASE guessed[s] = None /\ Readable(f)
    <3>1. f \in Files
      BY <1>2, <2>3 DEF StateInv, Readable
    <3>2. Decoded(f, key[s], "cache") \in Handles
      BY <1>2, <3>1, DecodedHandle
    <3>3. Make(s, Decoded(f, key[s], "cache"))
      BY <1>3, <2>3 DEF TryCache
    <3> QED BY <1>3, <2>1, <3>2, <3>3, MakeShape DEF TryCache
  <2>4. CASE guessed[s] = None /\ ~Readable(f)
    <3>1. pc' = [pc EXCEPT ![s] = "shipped"]
      BY <1>3, <2>4 DEF TryCache
    <3> QED BY <1>3, <2>1, <2>4, <3>1, GoesOnShape DEF TryCache
  <2> QED BY <2>2, <2>3, <2>4
<1>4. CASE TryShipped(s)
  <2> DEFINE f == shipped[key[s]]
  <2>1. guessed' = guessed /\ guessed[s] = None
    BY <1>1, <1>4 DEF TryShipped, PhaseOf
  <2>2. CASE Readable(f)
    <3>1. f \in Files
      BY <1>2, <2>2 DEF StateInv, Readable
    <3>2. Decoded(f, key[s], "shipped") \in Handles
      BY <1>2, <3>1, DecodedHandle
    <3>3. Make(s, Decoded(f, key[s], "shipped"))
      BY <1>4, <2>2 DEF TryShipped
    <3> QED BY <1>4, <2>1, <3>2, <3>3, MakeShape DEF TryShipped
  <2>3. CASE ~Readable(f)
    <3>1. pc' = [pc EXCEPT ![s] = "source"]
      BY <1>4, <2>3 DEF TryShipped
    <3> QED BY <1>4, <2>1, <2>3, <3>1, GoesOnShape DEF TryShipped
  <2> QED BY <2>2, <2>3
<1>5. CASE Prepare(s)
  <2> DEFINE h == [key |-> key[s], content |-> lib, from |-> "source",
                   by |-> s, bad |-> FALSE]
  <2>1. guessed' = guessed /\ guessed[s] = None
    BY <1>1, <1>5 DEF Prepare, PhaseOf
  <2>2. h \in Handles
    BY <1>2 DEF StateInv, Handles
  <2>3. Make(s, h)
    BY <1>5 DEF Prepare
  <2> QED BY <1>5, <2>1, <2>2, <2>3, MakeShape DEF Prepare
<1> QED BY <1>3, <1>4, <1>5

\* A file of the cache removed, damaged or written; a save goes on or ends.
LEMMA FilesShape ==
  ASSUME StateInv, NEW k \in Contents, NEW f \in Files \cup {None},
         cache' \in {cache, [cache EXCEPT ![k] = f]},
         NEW s \in Sessions, NEW at \in SavePhases,
         saving' \in {saving, [saving EXCEPT ![s] = at]},
         saving' = saving \/ saving[s] # "no",
         UNCHANGED <<lib, stamp, shipped, memo, shared, loadVars>>
  PROVE  StateInv'
<1>1. /\ cache' \in [Contents -> Files \cup {None}]
      /\ saving' \in [Sessions -> SavePhases]
  <2>1. cache \in [Contents -> Files \cup {None}]
    BY DEF StateInv
  <2>2. saving \in [Sessions -> SavePhases]
    BY DEF StateInv
  <2>3. saving' \in [Sessions -> SavePhases]
    BY <2>2
  <2>4. cache' \in [Contents -> Files \cup {None}]
    BY <2>1
  <2> QED BY <2>3, <2>4
<1>2. \A r \in Sessions : PhaseOf(r)'
  BY DEF StateInv, PhaseOf
<1> QED
  BY <1>1, <1>2 DEF StateInv

\* A save holds the handle its load prepared to the end.
LEMMA SaveShape ==
  ASSUME StateInv, NEW s \in Sessions, SaveStep(s)
  PROVE  StateInv'
<1>1. saving[s] # "no"
  BY DEF SaveStep, SaveRecording, CreateTemporary, WriteParts, Rename, SaveFails
<1>2. /\ PhaseOf(s) /\ key[s] \in Contents \cup {None}
      /\ handle[s] \in Handles \cup {None}
  BY DEF StateInv
<1>3. key[s] \in Contents /\ handle[s] \in Handles
  BY <1>1, <1>2 DEF PhaseOf
<1>4. PICK at \in SavePhases : saving' = [saving EXCEPT ![s] = at]
  BY DEF SaveStep, SaveRecording, CreateTemporary, WriteParts, Rename,
         SaveFails, SavePhases
<1>5. UNCHANGED <<lib, stamp, shipped, memo, shared, loadVars>>
  BY DEF SaveStep, SaveRecording, CreateTemporary, WriteParts, Rename, SaveFails
<1>6. CASE Rename(s)
  <2> DEFINE f == [holds |-> handle[s].content, by |-> s,
                   state |-> IF temps[s] = "whole" THEN "sound" ELSE "partial"]
  <2>1. f \in Files
    BY <1>3 DEF Files, Handles
  <2>2. cache' = [cache EXCEPT ![key[s]] = f]
    BY <1>6 DEF Rename
  <2> HIDE DEF f
  <2> QED BY <1>1, <1>3, <1>4, <1>5, <2>1, <2>2, FilesShape
<1>7. CASE ~Rename(s)
  <2>1. cache' = cache
    BY <1>7 DEF SaveStep, SaveRecording, CreateTemporary, WriteParts, SaveFails
  <2> QED BY <1>1, <1>3, <1>4, <1>5, <2>1, FilesShape
<1> QED BY <1>6, <1>7

\* What the processes lose when they end.
LEMMA GoneShape ==
  ASSUME StateInv, NEW p \in Procs, Gone(p)
  PROVE  StateInv'
<1>1. /\ memo' = [memo EXCEPT ![p] = None]
      /\ shared' = [shared EXCEPT ![p] = NoEntries]
      /\ UNCHANGED <<lib, stamp, cache, shipped>>
  BY DEF Gone
<1>2. /\ pc' = [s \in Sessions |-> IF ProcessOf[s] = p /\ pc[s] # "idle"
                                     THEN "closed" ELSE pc[s]]
      /\ key' = [s \in Sessions |-> IF ProcessOf[s] = p THEN None ELSE key[s]]
      /\ listing' = [s \in Sessions |-> IF ProcessOf[s] = p THEN 0 ELSE listing[s]]
      /\ guess' = [s \in Sessions |-> IF ProcessOf[s] = p THEN None ELSE guess[s]]
      /\ guessed' = [s \in Sessions |->
                       IF ProcessOf[s] = p THEN None ELSE guessed[s]]
      /\ found' = [s \in Sessions |-> IF ProcessOf[s] = p THEN None ELSE found[s]]
      /\ handle' = [s \in Sessions |-> IF ProcessOf[s] = p THEN None ELSE handle[s]]
      /\ held' = [s \in Sessions |-> IF ProcessOf[s] = p THEN None ELSE held[s]]
      /\ noticed' = [s \in Sessions |->
                       IF ProcessOf[s] = p THEN FALSE ELSE noticed[s]]
      /\ saving' = [s \in Sessions |-> IF ProcessOf[s] = p THEN "no" ELSE saving[s]]
  BY DEF Gone
<1>3. /\ memo' \in [Procs -> Listings \cup {None}]
      /\ shared' \in [Procs -> [Contents -> Sessions \cup {None}]]
      /\ \A q \in Procs, k \in Contents :
           shared'[q][k] # None => ProcessOf[shared'[q][k]] = q
  BY <1>1 DEF StateInv, NoEntries
<1>4. /\ pc' \in [Sessions -> Pcs]
      /\ key' \in [Sessions -> Contents \cup {None}]
      /\ guess' \in [Sessions -> Contents \cup {None}]
      /\ guessed' \in [Sessions -> Handles \cup {None}]
      /\ found' \in [Sessions -> Sessions \cup {None}]
      /\ handle' \in [Sessions -> Handles \cup {None}]
      /\ held' \in [Sessions -> Sessions \cup {None}]
      /\ noticed' \in [Sessions -> BOOLEAN]
      /\ saving' \in [Sessions -> SavePhases]
      /\ listing' \in [Sessions -> Nat]
  BY <1>2 DEF StateInv, Pcs, SavePhases
<1>5. ASSUME NEW s \in Sessions PROVE PhaseOf(s)'
  <2>1. PhaseOf(s)
    BY DEF StateInv
  <2>2. CASE ProcessOf[s] = p
    BY <1>2, <2>1, <2>2 DEF PhaseOf, Loading
  <2>3. CASE ProcessOf[s] # p
    BY <1>2, <2>1, <2>3 DEF PhaseOf
  <2> QED BY <2>2, <2>3
<1> QED
  BY <1>1, <1>3, <1>4, <1>5 DEF StateInv

\* At first there is nothing but files.
LEMMA InitShape == Init => StateInv
<1> SUFFICES ASSUME Init PROVE StateInv
  OBVIOUS
<1> USE CacheAssumption DEF Init, NoHandles, NoEntries
<1>1. cache \in [Contents -> Files \cup {None}]
  <2>1. PICK st \in [Contents -> CacheStates] :
          cache = [k \in Contents |-> FileAtStart(st[k], k)]
    OBVIOUS
  <2> QED BY <2>1 DEF FileAtStart, Files
<1>2. shipped \in [Contents -> Files \cup {None}]
  <2>1. PICK st \in [Contents -> ShippedStates] :
          shipped = [k \in Contents |-> FileAtStart(st[k], k)]
    OBVIOUS
  <2> QED BY <2>1 DEF FileAtStart, Files
<1>3. \A s \in Sessions : PhaseOf(s)
  BY DEF PhaseOf, Loading
<1> QED
  BY <1>1, <1>2, <1>3 DEF StateInv, Pcs, SavePhases

\* Every step keeps the shape.
LEMMA NextShape ==
  ASSUME StateInv, [Next]_vars
  PROVE  StateInv'
<1>1. ASSUME NEW s \in Sessions, LoadStep(s) PROVE StateInv'
  BY <1>1, KeyingShape, LookupShape, ServingShape, TakingShape DEF LoadStep
<1>2. ASSUME NEW s \in Sessions, Start(s) \/ Close(s) PROVE StateInv'
  BY <1>2, KeyingShape, ServingShape
<1>3. ASSUME NEW s \in Sessions, TakeParts(s) PROVE StateInv'
  <2>1. noticed' \in [Sessions -> BOOLEAN] /\ \A r \in Sessions : PhaseOf(r)'
    BY <1>3 DEF TakeParts, StateInv, PhaseOf
  <2> QED BY <1>3, <2>1 DEF TakeParts, StateInv
<1>4. ASSUME NEW r \in readers, ReadPart(r) PROVE StateInv'
  <2>1. cache' \in [Contents -> Files \cup {None}]
    BY <1>4 DEF ReadPart, StateInv
  <2>2. \A s \in Sessions : PhaseOf(s)'
    BY <1>4 DEF ReadPart, StateInv, PhaseOf
  <2> QED BY <1>4, <2>1, <2>2 DEF ReadPart, StateInv
<1>5. ASSUME NEW k \in Contents, Damage(k) PROVE StateInv'
  <2>1. cache[k] \in Files
    BY <1>5 DEF Damage, StateInv
  <2>2. [cache[k] EXCEPT !.state = "damaged"] \in Files
    BY <2>1 DEF Files
  <2>3. cache' = [cache EXCEPT ![k] = [cache[k] EXCEPT !.state = "damaged"]]
    BY <1>5 DEF Damage
  <2>4. cache' \in [Contents -> Files \cup {None}]
    BY <2>2, <2>3 DEF StateInv
  <2>5. \A s \in Sessions : PhaseOf(s)'
    BY <1>5 DEF Damage, StateInv, PhaseOf
  <2> QED BY <1>5, <2>4, <2>5 DEF Damage, StateInv
<1>6. ASSUME NEW c \in Contents, Edit(c) PROVE StateInv'
  <2>1. \A s \in Sessions : PhaseOf(s)'
    BY <1>6 DEF Edit, StateInv, PhaseOf
  <2> QED BY <1>6, <2>1 DEF Edit, StateInv
<1>7. ASSUME NEW p \in Procs, Release(p) PROVE StateInv'
  <2>1. \A s \in Sessions : PhaseOf(s)'
    BY <1>7 DEF Release, StateInv, PhaseOf
  <2> QED BY <1>7, <2>1 DEF Release, StateInv
<1>8. ASSUME NEW p \in Procs, Exit(p) \/ Crash(p) PROVE StateInv'
  BY <1>8, GoneShape DEF Exit, Crash
<1>9. CASE UNCHANGED vars
  <2>1. \A s \in Sessions : PhaseOf(s)'
    BY <1>9 DEF vars, StateInv, PhaseOf
  <2> QED BY <1>9, <2>1 DEF vars, StateInv
<1> QED
  BY <1>1, <1>2, <1>3, <1>4, <1>5, <1>6, <1>7, <1>8, <1>9, SaveShape DEF Next

(***************************************************************************)
(* Whatever happens, a load is at one point of its way with what belongs to *)
(* that point, and refers to handles of its own process only.               *)
(***************************************************************************)
THEOREM StateShape == Spec => []StateInv
<1>1. StateInv /\ [Next]_vars => StateInv'
  BY NextShape
<1> QED
  BY <1>1, InitShape, PTL DEF Spec

----------------------------------------------------------------------------
(***************************************************************************)
(* The memo.                                                                *)
(***************************************************************************)

\* A key hashed over files that changed since their listing is remembered
\* for that listing, which no later one equals.
LEMMA NextMemo ==
  ASSUME StateInv, MemoListed, [Next]_vars
  PROVE  MemoListed'
<1> USE DEF MemoListed
<1>1. CASE UNCHANGED <<lib, stamp, memo, listing>>
  BY <1>1
<1>2. ASSUME NEW s \in Sessions, Start(s) PROVE MemoListed'
  BY <1>2 DEF Start, StateInv
<1>3. ASSUME NEW s \in Sessions, ListFiles(s) PROVE MemoListed'
  BY <1>3 DEF ListFiles, StateInv
<1>4. ASSUME NEW s \in Sessions, HashFiles(s) PROVE MemoListed'
  <2> DEFINE m == [stamp |-> listing[s] - 1, key |-> lib]
  <2>1. listing[s] \in Nat /\ listing[s] # 0 /\ listing[s] <= stamp + 1
        /\ stamp \in Nat
    BY <1>4 DEF HashFiles, StateInv
  <2>2. m.stamp <= stamp /\ m.key = lib
    BY <2>1
  <2>3. /\ memo' = [memo EXCEPT ![ProcessOf[s]] = m]
        /\ listing' = [listing EXCEPT ![s] = 0]
        /\ UNCHANGED <<lib, stamp>>
    BY <1>4 DEF HashFiles
  <2> HIDE DEF m
  <2>4. \A p \in Procs : memo'[p] = memo[p] \/ memo'[p] = m
    BY <2>3 DEF StateInv
  <2>5. \A r \in Sessions : listing'[r] <= stamp' + 1
    BY <2>1, <2>3 DEF StateInv
  <2> QED BY <2>2, <2>3, <2>4, <2>5
<1>5. ASSUME NEW c \in Contents, Edit(c) PROVE MemoListed'
  <2>1. /\ stamp' = stamp + 1 /\ stamp \in Nat
        /\ listing \in [Sessions -> Nat] /\ memo \in [Procs -> Listings \cup {None}]
        /\ UNCHANGED <<memo, listing>>
    BY <1>5 DEF Edit, StateInv
  <2>2. \A p \in Procs : memo[p] # None => memo[p].stamp \in Nat
    BY <2>1 DEF Listings
  <2> QED BY <2>1, <2>2
<1>6. ASSUME NEW p \in Procs, Exit(p) \/ Crash(p) PROVE MemoListed'
  <2>1. /\ memo' = [memo EXCEPT ![p] = None]
        /\ listing' = [s \in Sessions |-> IF ProcessOf[s] = p THEN 0 ELSE listing[s]]
        /\ UNCHANGED <<lib, stamp>>
    BY <1>6 DEF Exit, Crash, Gone
  <2> QED BY <2>1 DEF StateInv
<1>7. ASSUME NEW s \in Sessions, LoadStep(s), ~ListFiles(s), ~HashFiles(s)
      PROVE  UNCHANGED <<lib, stamp, memo, listing>>
  BY <1>7 DEF LoadStep, DecodeGuess, Lookup, Serve, TryCache, TryShipped,
     Prepare, Register, Join
<1>8. ASSUME NEW s \in Sessions, SaveStep(s) \/ TakeParts(s) \/ Close(s)
      PROVE  UNCHANGED <<lib, stamp, memo, listing>>
  BY <1>8 DEF SaveStep, SaveRecording, CreateTemporary, WriteParts, Rename,
     SaveFails, TakeParts, Close
<1> QED
  BY <1>1, <1>2, <1>3, <1>4, <1>5, <1>6, <1>7, <1>8
     DEF Next, vars, ReadPart, Release, Damage

(***************************************************************************)
(* An edit between the listing and the reading, in any process, leaves no   *)
(* stale key behind (hash_library_dir).                                     *)
(***************************************************************************)
THEOREM MemoIsSound == Spec => []MemoSound
<1>1. Init => MemoListed
  BY DEF Init, MemoListed
<1>2. StateInv /\ MemoListed /\ [Next]_vars => MemoListed'
  BY NextMemo
<1>3. MemoListed => MemoSound
  BY DEF MemoListed, MemoSound
<1> QED
  BY <1>1, <1>2, <1>3, StateShape, PTL DEF Spec

----------------------------------------------------------------------------
(***************************************************************************)
(* The files.                                                               *)
(***************************************************************************)

\* What a file of the cache becomes: nothing, damaged, or one written whole.
LEMMA NextWhole ==
  ASSUME StateInv, WholeInv, [Next]_vars
  PROVE  WholeInv'
<1> USE DEF WholeInv
<1>1. CASE UNCHANGED <<cache, temps, saving>>
  BY <1>1
<1>2. ASSUME NEW s \in Sessions, Prepare(s) PROVE WholeInv'
  BY <1>2 DEF Prepare, StateInv, SavePhases
<1>3. ASSUME NEW s \in Sessions, SaveStep(s) PROVE WholeInv'
  <2>1. CASE Rename(s)
    <3> DEFINE f == [holds |-> handle[s].content, by |-> s,
                     state |-> IF temps[s] = "whole" THEN "sound" ELSE "partial"]
    <3>1. f.state = "sound"
      BY <2>1 DEF Rename
    <3>2. cache' = [cache EXCEPT ![key[s]] = f]
      BY <2>1 DEF Rename
    <3> HIDE DEF f
    <3>3. \A k \in Contents : cache'[k] \in {cache[k], f}
      BY <3>2 DEF StateInv
    <3>4. \A k \in Contents : cache'[k] # None => cache'[k].state # "partial"
      BY <3>1, <3>3
    <3> QED BY <2>1, <3>4 DEF Rename, StateInv, SavePhases
  <2>2. CASE SaveRecording(s)
    BY <2>2 DEF SaveRecording, StateInv
  <2>3. CASE CreateTemporary(s)
    BY <2>3 DEF CreateTemporary, StateInv
  <2>4. CASE WriteParts(s)
    BY <2>4 DEF WriteParts, StateInv
  <2>5. CASE SaveFails(s)
    BY <2>5 DEF SaveFails, StateInv
  <2> QED BY <1>3, <2>1, <2>2, <2>3, <2>4, <2>5 DEF SaveStep
<1>4. ASSUME NEW r \in readers, ReadPart(r) PROVE WholeInv'
  BY <1>4 DEF ReadPart, StateInv
<1>5. ASSUME NEW k \in Contents, Damage(k) PROVE WholeInv'
  <2> DEFINE f == [cache[k] EXCEPT !.state = "damaged"]
  <2>1. cache[k] \in Files
    BY <1>5 DEF Damage, StateInv
  <2>2. f.state = "damaged"
    BY <2>1 DEF Files
  <2>3. cache' = [cache EXCEPT ![k] = f]
    BY <1>5 DEF Damage
  <2> HIDE DEF f
  <2>4. \A j \in Contents : cache'[j] \in {cache[j], f}
    BY <2>3 DEF StateInv
  <2> QED BY <1>5, <2>2, <2>4 DEF Damage
<1>6. ASSUME NEW p \in Procs, Exit(p) \/ Crash(p) PROVE WholeInv'
  BY <1>6 DEF Exit, Crash, Gone
<1>7. ASSUME NEW s \in Sessions, LoadStep(s), ~Prepare(s)
      PROVE  UNCHANGED <<cache, temps, saving>>
  BY <1>7 DEF LoadStep, DecodeGuess, ListFiles, HashFiles, Lookup, Serve,
     TryCache, TryShipped, Register, Join
<1>8. ASSUME NEW s \in Sessions, Start(s) \/ TakeParts(s) \/ Close(s)
      PROVE  UNCHANGED <<cache, temps, saving>>
  BY <1>8 DEF Start, TakeParts, Close
<1> QED
  BY <1>1, <1>2, <1>3, <1>4, <1>5, <1>6, <1>7, <1>8 DEF Next, vars, Release, Edit

\* No file is half written at first.
LEMMA InitWhole == Init => WholeInv
<1> SUFFICES ASSUME Init PROVE WholeInv
  OBVIOUS
<1>1. PICK st \in [Contents -> CacheStates] :
        cache = [k \in Contents |-> FileAtStart(st[k], k)]
  BY DEF Init
<1>2. \A k \in Contents : cache[k] # None => cache[k].state # "partial"
  BY <1>1, CacheAssumption DEF FileAtStart
<1> QED BY <1>2 DEF Init, WholeInv

(***************************************************************************)
(* Readers see the previous file or the whole new one, whatever crashes,    *)
(* fails or saves the same key at once (write_atomically_parts).            *)
(***************************************************************************)
THEOREM FilesAreWhole == Spec => []WholeFiles
<1>1. Init => WholeInv
  BY InitWhole
<1>2. StateInv /\ WholeInv /\ [Next]_vars => WholeInv'
  BY NextWhole
<1>3. WholeInv => WholeFiles
  BY DEF WholeInv, WholeFiles
<1> QED
  BY <1>1, <1>2, <1>3, StateShape, PTL DEF Spec

----------------------------------------------------------------------------
(***************************************************************************)
(* Damaged handles.                                                         *)
(***************************************************************************)

\* What a process knows to be damaged it does not forget while it runs.
LEMMA NextShun ==
  ASSUME StateInv, ShunInv, [Next]_vars
  PROVE  ShunInv'
<1> USE DEF ShunInv
<1>1. CASE UNCHANGED <<pc, held, noticed, shunned>>
  BY <1>1
<1>2. ASSUME NEW s \in Sessions, Start(s) PROVE ShunInv'
  <2>1. ~noticed[s] /\ held[s] = None
    BY <1>2 DEF Start, StateInv, PhaseOf
  <2>2. /\ shunned' = [shunned EXCEPT ![s] = {h \in Sessions : noticed[h]}]
        /\ pc' = [pc EXCEPT ![s] = "keying"]
        /\ UNCHANGED <<held, noticed>>
    BY <1>2 DEF Start
  <2> QED BY <2>1, <2>2 DEF StateInv
<1>3. ASSUME NEW s \in Sessions, Serve(s) PROVE ShunInv'
  <2>1. CASE found[s] # None /\ ~noticed[found[s]]
    <3>1. /\ pc' = [pc EXCEPT ![s] = "loaded"]
          /\ held' = [held EXCEPT ![s] = found[s]]
          /\ UNCHANGED <<noticed, shunned>>
      BY <1>3, <2>1 DEF Serve
    <3>2. ProcessOf[found[s]] = ProcessOf[s] /\ pc[s] \in Loading
      BY <1>3, <2>1 DEF Serve, StateInv, PhaseOf, Loading
    <3>3. found[s] \notin shunned[s]
      BY <2>1, <3>2
    <3> QED BY <3>1, <3>3 DEF StateInv, Loading
  <2>2. CASE ~(found[s] # None /\ ~noticed[found[s]])
    <3>1. /\ pc' = [pc EXCEPT ![s] = "cache"]
          /\ UNCHANGED <<held, noticed, shunned>>
      BY <1>3, <2>2 DEF Serve, StateInv
    <3>2. pc[s] \in Loading
      BY <1>3 DEF Serve, Loading
    <3> QED BY <3>1, <3>2 DEF StateInv
  <2> QED BY <2>1, <2>2
<1>4. ASSUME NEW s \in Sessions, TryCache(s) \/ TryShipped(s) \/ Prepare(s)
      PROVE  ShunInv'
  <2>1. /\ held' \in {held, [held EXCEPT ![s] = s]}
        /\ \E at \in Loading : pc' = [pc EXCEPT ![s] = at]
        /\ UNCHANGED <<noticed, shunned>>
    BY <1>4 DEF TryCache, TryShipped, Prepare, Make, Loading
  <2>2. pc[s] \in Loading
    BY <1>4 DEF TryCache, TryShipped, Prepare, Loading
  <2> QED BY <2>1, <2>2 DEF StateInv
<1>5. ASSUME NEW s \in Sessions, Lookup(s) PROVE ShunInv'
  BY <1>5 DEF Lookup, StateInv, Loading
<1>6. ASSUME NEW s \in Sessions, Register(s) \/ Join(s) PROVE ShunInv'
  <2>1. /\ \E at \in {"joining", "loaded"} : pc' = [pc EXCEPT ![s] = at]
        /\ UNCHANGED <<held, noticed, shunned>>
    BY <1>6 DEF Register, Join
  <2>2. pc[s] \in Loading
    BY <1>6 DEF Register, Join, Loading
  <2> QED BY <2>1, <2>2 DEF StateInv
<1>7. ASSUME NEW s \in Sessions, TakeParts(s) PROVE ShunInv'
  BY <1>7 DEF TakeParts, StateInv
<1>8. ASSUME NEW s \in Sessions, Close(s) PROVE ShunInv'
  BY <1>8 DEF Close, StateInv, Loading
<1>9. ASSUME NEW p \in Procs, Exit(p) \/ Crash(p) PROVE ShunInv'
  <2>1. /\ pc' = [s \in Sessions |-> IF ProcessOf[s] = p /\ pc[s] # "idle"
                                       THEN "closed" ELSE pc[s]]
        /\ held' = [s \in Sessions |-> IF ProcessOf[s] = p THEN None ELSE held[s]]
        /\ noticed' = [s \in Sessions |->
                         IF ProcessOf[s] = p THEN FALSE ELSE noticed[s]]
        /\ shunned' = [s \in Sessions |-> IF ProcessOf[s] = p THEN {} ELSE shunned[s]]
    BY <1>9 DEF Exit, Crash, Gone
  <2> QED BY <2>1 DEF Loading
<1>10. ASSUME NEW s \in Sessions,
              DecodeGuess(s) \/ ListFiles(s) \/ HashFiles(s) \/ SaveStep(s)
       PROVE  UNCHANGED <<pc, held, noticed, shunned>>
  BY <1>10 DEF DecodeGuess, ListFiles, HashFiles, SaveStep, SaveRecording,
     CreateTemporary, WriteParts, Rename, SaveFails
<1>11. ASSUME NEW s \in Sessions, LoadStep(s) PROVE ShunInv'
  BY <1>1, <1>3, <1>4, <1>5, <1>6, <1>10, <1>11 DEF LoadStep
<1> QED
  BY <1>1, <1>2, <1>7, <1>8, <1>9, <1>10, <1>11
     DEF Next, vars, ReadPart, Release, Edit, Damage

(***************************************************************************)
(* "the process serves it to no further load" (PreparedLibrary::damaged).   *)
(***************************************************************************)
THEOREM DamagedServedNoMore == Spec => []NeverServedAgain
<1>1. Init => ShunInv
  BY DEF Init, ShunInv, NoHandles
<1>2. StateInv /\ ShunInv /\ [Next]_vars => ShunInv'
  BY NextShun
<1>3. ShunInv /\ StateInv => NeverServedAgain
  BY CacheAssumption DEF ShunInv, StateInv, NeverServedAgain
<1> QED
  BY <1>1, <1>2, <1>3, StateShape, PTL DEF Spec

----------------------------------------------------------------------------
(***************************************************************************)
(* Damaged files.                                                           *)
(***************************************************************************)

\* A save that ended does not begin again, whatever the session does next.
LEMMA SpentForGood ==
  ASSUME StateInv, [Next]_vars, NEW w, w \in Sessions \cup {None}, Spent(w)
  PROVE  Spent(w)'
<1> SUFFICES ASSUME w # None, w \in Sessions, saving[w] = "no",
                    pc[w] \in {"register", "joining", "loaded", "closed"}
             PROVE  saving'[w] = "no" /\
                    pc'[w] \in {"register", "joining", "loaded", "closed"}
  BY DEF Spent
<1>1. CASE UNCHANGED <<pc, saving>>
  BY <1>1
<1>2. ASSUME NEW s \in Sessions, LoadStep(s) \/ Start(s) \/ Close(s)
      PROVE  /\ saving'[w] = "no"
             /\ pc'[w] \in {"register", "joining", "loaded", "closed"}
  BY <1>2 DEF LoadStep, DecodeGuess, ListFiles, HashFiles, Lookup, Serve,
     TryCache, TryShipped, Prepare, Make, Register, Join, Start, Close, StateInv
<1>3. ASSUME NEW s \in Sessions, SaveStep(s)
      PROVE  pc' = pc /\ saving'[w] = "no"
  BY <1>3 DEF SaveStep, SaveRecording, CreateTemporary, WriteParts, Rename,
     SaveFails, StateInv
<1>4. ASSUME NEW p \in Procs, Exit(p) \/ Crash(p)
      PROVE  /\ saving'[w] = "no"
             /\ pc'[w] \in {"register", "joining", "loaded", "closed"}
  BY <1>4 DEF Exit, Crash, Gone
<1>5. ASSUME NEW s \in Sessions, TakeParts(s) PROVE UNCHANGED <<pc, saving>>
  BY <1>5 DEF TakeParts
<1> QED
  BY <1>1, <1>2, <1>3, <1>4, <1>5 DEF Next, vars, ReadPart, Release, Edit, Damage

\* What a step does to the file of a key: nothing, a save over it, damage
\* that leaves its name, or its removal.
LEMMA CacheStep ==
  ASSUME StateInv, [Next]_vars, NEW k \in Contents
  PROVE  \/ cache'[k] = cache[k]
         \/ \E s \in Sessions : Rename(s) /\ key[s] = k
         \/ cache[k] # None /\ cache'[k] # None /\ cache'[k].by = cache[k].by
         \/ cache'[k] = None
<1>1. ASSUME NEW s \in Sessions, LoadStep(s) \/ Start(s) \/ Close(s) \/ TakeParts(s)
      PROVE  cache' = cache
  BY <1>1 DEF LoadStep, DecodeGuess, ListFiles, HashFiles, Lookup, Serve,
     TryCache, TryShipped, Prepare, Register, Join, Start, Close, TakeParts
<1>2. ASSUME NEW s \in Sessions, SaveStep(s)
      PROVE  cache'[k] = cache[k] \/ (Rename(s) /\ key[s] = k)
  BY <1>2 DEF SaveStep, SaveRecording, CreateTemporary, WriteParts, Rename,
     SaveFails, StateInv
<1>3. ASSUME NEW r \in readers, ReadPart(r)
      PROVE  cache'[k] = cache[k] \/ cache'[k] = None
  BY <1>3 DEF ReadPart, StateInv
<1>4. ASSUME NEW j \in Contents, Damage(j)
      PROVE  \/ cache'[k] = cache[k]
             \/ cache[k] # None /\ cache'[k] # None /\ cache'[k].by = cache[k].by
  <2>1. cache' = [cache EXCEPT ![j] = [cache[j] EXCEPT !.state = "damaged"]]
    BY <1>4 DEF Damage
  <2>2. cache[j] \in Files
    BY <1>4 DEF Damage, StateInv
  <2>3. /\ [cache[j] EXCEPT !.state = "damaged"] \in Files
        /\ [cache[j] EXCEPT !.state = "damaged"].by = cache[j].by
    BY <2>2 DEF Files
  <2>4. [cache[j] EXCEPT !.state = "damaged"] # None
    BY <2>3, NoneAssumption
  <2>5. cache[j] # None
    BY <1>4 DEF Damage
  <2> QED BY <2>1, <2>3, <2>4, <2>5 DEF StateInv
<1>5. ASSUME NEW p \in Procs, Exit(p) \/ Crash(p) PROVE cache' = cache
  BY <1>5 DEF Exit, Crash, Gone
<1> QED
  BY <1>1, <1>2, <1>3, <1>4, <1>5 DEF Next, vars, Release, Edit

\* A file that stays where it is stays spent, and one is written by a save
\* that ends with it.
LEMMA FilesSpent ==
  ASSUME StateInv, DamageInv, [Next]_vars
  PROVE  (\A k \in Contents : cache[k] # None => Spent(cache[k].by))'
<1> SUFFICES ASSUME NEW k \in Contents, cache'[k] # None
             PROVE  Spent(cache[k].by)'
  OBVIOUS
<1>1. CASE cache[k] # None /\ cache'[k].by = cache[k].by
  <2>1. PICK w \in Sessions \cup {None} : w = cache[k].by
    BY <1>1 DEF StateInv, Files
  <2>2. Spent(w)
    BY <1>1, <2>1 DEF DamageInv
  <2>3. Spent(w)'
    BY <2>2, SpentForGood
  <2> QED BY <1>1, <2>1, <2>3 DEF Spent
<1>2. ASSUME NEW s \in Sessions, Rename(s), key[s] = k PROVE Spent(cache[k].by)'
  <2>1. cache'[k].by = s /\ saving' = [saving EXCEPT ![s] = "no"] /\ pc' = pc
    BY <1>2 DEF Rename, StateInv
  <2>2. saving[s] # "no"
    BY <1>2 DEF Rename
  <2>3. pc[s] \in {"register", "joining", "loaded", "closed"}
    BY <2>2 DEF StateInv, PhaseOf
  <2> QED BY <2>1, <2>3 DEF Spent, StateInv
<1>3. \/ cache'[k] = cache[k]
      \/ \E s \in Sessions : Rename(s) /\ key[s] = k
      \/ cache[k] # None /\ cache'[k].by = cache[k].by
  BY CacheStep
<1> QED BY <1>1, <1>2, <1>3

\* A file that left the cache does not come back: whoever wrote it is done.
LEMMA RemovedForGood ==
  ASSUME StateInv, [Next]_vars, NEW d \in Handles, Spent(d.by), Removed(d)
  PROVE  Removed(d)'
<1>1. d.key \in Contents /\ d.by \in Sessions \cup {None}
  BY DEF Handles
<1>2. ASSUME NEW s \in Sessions, Rename(s), key[s] = d.key
      PROVE  cache'[d.key].by = s /\ s # d.by
  <2>1. saving[s] # "no"
    BY <1>2 DEF Rename
  <2>2. s # d.by
    BY <2>1, CacheAssumption DEF Spent
  <2>3. cache'[d.key].by = s
    BY <1>1, <1>2 DEF Rename, StateInv
  <2> QED BY <2>2, <2>3
<1> QED
  BY <1>1, <1>2, CacheStep DEF Removed

\* A thread reading a part ends with its process, or finds the part bad.
LEMMA ReadersStep ==
  ASSUME [Next]_vars, NEW r \in readers, r \notin readers'
  PROVE  ReadPart(r) \/ \E p \in Procs : Gone(p) /\ ProcessOf[r.by] = p
<1>1. ASSUME NEW s \in Sessions,
             LoadStep(s) \/ Start(s) \/ Close(s) \/ TakeParts(s) \/ SaveStep(s)
      PROVE  r \in readers'
  BY <1>1 DEF LoadStep, DecodeGuess, ListFiles, HashFiles, Lookup, Serve,
     TryCache, TryShipped, Prepare, Register, Join, Start, Close, TakeParts,
     SaveStep, SaveRecording, CreateTemporary, WriteParts, Rename, SaveFails
<1>2. ASSUME NEW q \in readers, ReadPart(q) PROVE q = r
  BY <1>2 DEF ReadPart
<1>3. ASSUME NEW p \in Procs, Exit(p) \/ Crash(p)
      PROVE  Gone(p) /\ r.by \in {s \in Sessions : ProcessOf[s] = p}
  BY <1>3 DEF Exit, Crash, Gone
<1> QED
  BY <1>1, <1>2, <1>3 DEF Next, vars, Release, Edit, Damage

\* A decoded handle's file stays condemned while its process runs.
LEMMA CondemnedForGood ==
  ASSUME StateInv, [Next]_vars, NEW s \in Sessions, NEW d \in Handles,
         Condemned(s, d), ~Gone(ProcessOf[s])
  PROVE  Condemned(s, d)'
<1> SUFFICES ASSUME d # None, d.from = "cache", d.bad
             PROVE  Condemned(s, d)'
  BY DEF Condemned
<1> DEFINE r == [by |-> s, key |-> d.key, place |-> "cache"]
<1>1. Spent(d.by)'
  BY SpentForGood DEF Condemned, Handles
<1>2. CASE Removed(d)
  BY <1>1, <1>2, RemovedForGood DEF Condemned
<1>3. CASE r \in readers
  <2>1. CASE r \in readers'
    BY <1>1, <2>1 DEF Condemned
  <2>2. CASE ReadPart(r)
    <3>1. cache' = [cache EXCEPT ![d.key] = None]
      BY <2>2 DEF ReadPart
    <3>2. cache'[d.key] = None
      BY <3>1 DEF StateInv, Handles
    <3> QED BY <1>1, <3>2 DEF Condemned, Removed
  <2>3. r \in readers' \/ ReadPart(r)
    BY <1>3, ReadersStep, CacheAssumption
  <2> QED BY <2>1, <2>2, <2>3
<1> QED BY <1>2, <1>3 DEF Condemned

\* What a load reads of the cache is condemned from the start.
LEMMA DecodedCondemned ==
  ASSUME StateInv, DamageInv, [Next]_vars, NEW s \in Sessions,
         NEW k \in Contents, Readable(cache[k]),
         readers' = readers \cup Started(s, cache[k], k, "cache"),
         NEW d, d = Decoded(cache[k], k, "cache")
  PROVE  Condemned(s, d)'
<1> SUFFICES ASSUME d.bad PROVE Condemned(s, d)'
  BY DEF Condemned
<1>1. /\ cache[k] \in Files /\ cache[k].state = "damaged"
      /\ d.by = cache[k].by /\ d.key = k
  BY DEF Readable, StateInv, Decoded
<1>2. d.by \in Sessions \cup {None} /\ Spent(d.by)
  BY <1>1 DEF Files, DamageInv, Readable
<1>3. [by |-> s, key |-> k, place |-> "cache"] \in readers'
  BY <1>1 DEF Started
<1> QED BY <1>1, <1>2, <1>3, SpentForGood DEF Condemned

\* Where the handles of a session come from, while its process runs.
LEMMA HandlesCondemned ==
  ASSUME StateInv, DamageInv, [Next]_vars, NEW s \in Sessions,
         ~Gone(ProcessOf[s])
  PROVE  (Condemned(s, handle[s]) /\ Condemned(s, guessed[s]))'
<1> DEFINE Old == {handle[s], guessed[s], None}
<1>1. ASSUME NEW d, d \in Old \/ d.from # "cache" PROVE Condemned(s, d)'
  <2>1. CASE d = None \/ d.from # "cache"
    BY <2>1 DEF Condemned
  <2>2. CASE d # None /\ d \in Old
    <3>1. d \in Handles /\ Condemned(s, d)
      BY <2>2 DEF StateInv, DamageInv
    <3> QED BY <3>1, CondemnedForGood
  <2> QED BY <1>1, <2>1, <2>2
<1>2. CASE /\ handle'[s] \in Old \/ handle'[s].from # "cache"
           /\ guessed'[s] \in Old
  <2>1. PICK d, e : d = handle'[s] /\ e = guessed'[s]
    OBVIOUS
  <2>2. Condemned(s, d)' /\ Condemned(s, e)'
    BY <1>1, <1>2, <2>1
  <2> QED BY <2>1, <2>2 DEF Condemned, Spent, Removed
<1>3. CASE DecodeGuess(s) /\ Readable(cache[guess[s]])
  <2>1. PICK k \in Contents : k = guess[s]
    BY <1>3 DEF DecodeGuess, StateInv
  <2>2. PICK d : d = Decoded(cache[k], k, "cache")
    OBVIOUS
  <2>3. /\ guessed'[s] = d /\ handle' = handle
        /\ readers' = readers \cup Started(s, cache[k], k, "cache")
    BY <1>3, <2>1, <2>2 DEF DecodeGuess, StateInv
  <2>4. Condemned(s, d)'
    BY <1>3, <2>1, <2>2, <2>3, DecodedCondemned
  <2>5. PICK e : e = handle[s]
    OBVIOUS
  <2>6. Condemned(s, e)'
    BY <1>1, <2>5
  <2> QED BY <2>3, <2>4, <2>5, <2>6 DEF Condemned, Spent, Removed
<1>4. CASE TryCache(s) /\ guessed[s] = None /\ Readable(cache[key[s]])
  <2>1. PICK k \in Contents : k = key[s]
    BY <1>4 DEF TryCache, StateInv, PhaseOf, Loading
  <2>2. PICK d : d = Decoded(cache[k], k, "cache")
    OBVIOUS
  <2>3. /\ handle'[s] = d /\ guessed'[s] = None
        /\ readers' = readers \cup Started(s, cache[k], k, "cache")
    BY <1>4, <2>1, <2>2 DEF TryCache, Make, StateInv
  <2>4. Condemned(s, d)'
    BY <1>4, <2>1, <2>2, <2>3, DecodedCondemned
  <2> QED BY <2>3, <2>4 DEF Condemned, Spent, Removed
<1>5. ASSUME NEW r \in Sessions, LoadStep(r) \/ Start(r) \/ Close(r),
             ~(r = s /\ DecodeGuess(s) /\ Readable(cache[guess[s]])),
             ~(r = s /\ TryCache(s) /\ guessed[s] = None
               /\ Readable(cache[key[s]]))
      PROVE  /\ handle'[s] \in Old \/ handle'[s].from # "cache"
             /\ guessed'[s] \in Old
  BY <1>5 DEF LoadStep, DecodeGuess, ListFiles, HashFiles, Lookup, Serve,
     TryCache, TryShipped, Prepare, Make, Decoded, Register, Join, Start, Close,
     StateInv
<1>6. ASSUME NEW r \in Sessions, SaveStep(r) \/ TakeParts(r)
      PROVE  UNCHANGED <<handle, guessed>>
  BY <1>6 DEF SaveStep, SaveRecording, CreateTemporary, WriteParts, Rename,
     SaveFails, TakeParts
<1>7. ASSUME NEW p \in Procs, Exit(p) \/ Crash(p)
      PROVE  handle'[s] = handle[s] /\ guessed'[s] = guessed[s]
  <2>1. Gone(p)
    BY <1>7 DEF Exit, Crash
  <2>2. ProcessOf[s] # p
    BY <2>1
  <2> QED BY <2>1, <2>2 DEF Gone
<1> QED
  BY <1>2, <1>3, <1>4, <1>5, <1>6, <1>7
     DEF Next, vars, ReadPart, Release, Edit, Damage

\* A handle is only known damaged once none of its parts is being read.
LEMMA NoticedLate ==
  ASSUME StateInv, DamageInv, [Next]_vars, NEW s \in Sessions, noticed'[s]
  PROVE  \A r \in readers' : ~(r.by = s /\ r.key = handle'[s].key)
<1>1. CASE TakeParts(s)
  BY <1>1 DEF TakeParts
<1>2. CASE /\ noticed'[s] = noticed[s] /\ handle'[s] = handle[s]
           /\ \A r \in readers' : r \in readers \/ r.by # s
  BY <1>2 DEF DamageInv
<1>3. ASSUME NEW q \in Sessions, LoadStep(q) \/ Start(q) \/ Close(q)
      PROVE  /\ noticed' = noticed
             /\ noticed[s] => handle'[s] = handle[s]
             /\ noticed[s] => \A r \in readers' : r \in readers \/ r.by # s
  <2>1. noticed' = noticed
    BY <1>3 DEF LoadStep, DecodeGuess, ListFiles, HashFiles, Lookup, Serve,
       TryCache, TryShipped, Prepare, Register, Join, Start, Close
  <2>2. CASE DecodeGuess(q) \/ TryCache(q) \/ TryShipped(q) \/ Prepare(q)
    <3>1. ~noticed[q]
      BY <2>2 DEF DecodeGuess, TryCache, TryShipped, Prepare, StateInv, PhaseOf
    <3>2. handle' = handle \/ \E h : handle' = [handle EXCEPT ![q] = h]
      BY <2>2 DEF DecodeGuess, TryCache, TryShipped, Prepare, Make
    <3>3. \A r \in readers' : r \in readers \/ r.by = q
      BY <2>2 DEF DecodeGuess, TryCache, TryShipped, Prepare, Started
    <3> QED BY <2>1, <3>1, <3>2, <3>3 DEF StateInv
  <2>3. CASE ~(DecodeGuess(q) \/ TryCache(q) \/ TryShipped(q) \/ Prepare(q))
    BY <1>3, <2>1, <2>3 DEF LoadStep, ListFiles, HashFiles, Lookup, Serve,
       Register, Join, Start, Close
  <2> QED BY <2>2, <2>3
<1>4. ASSUME NEW q \in Sessions, SaveStep(q)
      PROVE  UNCHANGED <<handle, noticed, readers>>
  BY <1>4 DEF SaveStep, SaveRecording, CreateTemporary, WriteParts, Rename,
     SaveFails
<1>5. ASSUME NEW q \in Sessions, TakeParts(q), q # s
      PROVE  noticed'[s] = noticed[s] /\ UNCHANGED <<handle, readers>>
  BY <1>5 DEF TakeParts, StateInv
<1>6. ASSUME NEW p \in Procs, Exit(p) \/ Crash(p)
      PROVE  /\ noticed'[s] = noticed[s] /\ handle'[s] = handle[s]
             /\ readers' \subseteq readers
  BY <1>6 DEF Exit, Crash, Gone
<1>7. ASSUME NEW q \in readers, ReadPart(q)
      PROVE  UNCHANGED <<handle, noticed>> /\ readers' \subseteq readers
  BY <1>7 DEF ReadPart
<1> QED
  BY <1>1, <1>2, <1>3, <1>4, <1>5, <1>6, <1>7
     DEF Next, vars, Release, Edit, Damage

\* Every step keeps bad files condemned, or gone.
LEMMA NextDamage ==
  ASSUME StateInv, DamageInv, [Next]_vars
  PROVE  DamageInv'
<1>1. ASSUME NEW s \in Sessions
      PROVE  (Condemned(s, handle[s]) /\ Condemned(s, guessed[s]))'
  <2>1. CASE Gone(ProcessOf[s])
    <3>1. handle'[s] = None /\ guessed'[s] = None
      BY <2>1 DEF Gone
    <3> QED BY <3>1 DEF Condemned
  <2> QED BY <2>1, HandlesCondemned
<1>2. (\A k \in Contents : cache[k] # None => Spent(cache[k].by))'
  BY FilesSpent
<1>3. \A s \in Sessions : noticed'[s] =>
        \A r \in readers' : ~(r.by = s /\ r.key = handle'[s].key)
  BY NoticedLate
<1> QED BY <1>1, <1>2, <1>3 DEF DamageInv

(***************************************************************************)
(* "The loader removed the cache's file then" (PreparedLibrary::damaged).   *)
(***************************************************************************)
THEOREM DamagedRemoved == Spec => []DamageRemoved
<1>1. Init => DamageInv
  <2> SUFFICES ASSUME Init PROVE DamageInv
    OBVIOUS
  <2>1. PICK st \in [Contents -> CacheStates] :
          cache = [k \in Contents |-> FileAtStart(st[k], k)]
    BY DEF Init
  <2>2. \A k \in Contents : cache[k] # None => cache[k].by = None
    BY <2>1 DEF FileAtStart
  <2> QED BY <2>2 DEF Init, NoHandles, DamageInv, Condemned, Spent
<1>2. StateInv /\ DamageInv /\ [Next]_vars => DamageInv'
  BY NextDamage
<1>3. StateInv /\ DamageInv => DamageRemoved
  <2> SUFFICES ASSUME StateInv, DamageInv, NEW s \in Sessions,
                      noticed[s], handle[s].from = "cache"
               PROVE  Removed(handle[s])
    BY DEF DamageRemoved, Removed
  <2>1. handle[s] # None /\ handle[s].bad
    BY DEF StateInv, PhaseOf
  <2>2. [by |-> s, key |-> handle[s].key, place |-> "cache"] \notin readers
    BY DEF DamageInv
  <2> QED BY <2>1, <2>2 DEF DamageInv, Condemned
<1> QED
  BY <1>1, <1>2, <1>3, StateShape, PTL DEF Spec

----------------------------------------------------------------------------
(***************************************************************************)
(* The libraries a process keeps.                                           *)
(***************************************************************************)

\* No more than the limit, none of them twice.
Keeps(q) ==
  /\ q \in Seq(Sessions) /\ Len(q) <= RetainedLibraries
  /\ \A i, j \in 1 .. Len(q) : q[i] = q[j] => i = j

KeptInv ==
  /\ retained \in [Procs -> Seq(Sessions)]
  /\ \A p \in Procs : Keeps(retained[p])

\* A library is taken out of what is kept.
LEMMA DropKeeps ==
  ASSUME NEW q, Keeps(q), NEW T
  PROVE  /\ Keeps(Only(q, T))
         /\ \A i \in 1 .. Len(Only(q, T)) : Only(q, T)[i] \in T
<1> DEFINE r == Only(q, T)
<1>1. q \in Seq(Sessions) /\ Len(q) \in Nat
  BY DEF Keeps
<1>2. LeftOf(r, q, T, Len(q)) /\ r \in Seq(Sessions)
  BY <1>1, OnlyLeaves, OnlyRange
<1> HIDE DEF r
<1>3. /\ Len(r) <= Len(q) /\ Len(r) \in Nat
      /\ \A i, j \in 1 .. Len(r) : r[i] = r[j] => i = j
  BY <1>2 DEF LeftOf, Keeps
<1>4. Len(r) <= RetainedLibraries
  BY <1>1, <1>3, CacheAssumption DEF Keeps
<1>5. \A i \in 1 .. Len(r) : r[i] \in {q[k] : k \in 1 .. Len(q)} \cap T
  BY <1>2 DEF LeftOf
<1> QED BY <1>2, <1>3, <1>4, <1>5 DEF Keeps, r

\* A library comes to the end of what is kept, and the first one goes when
\* there is one too many.
LEMMA RetainKeeps ==
  ASSUME NEW p \in Procs, KeptInv, NEW h \in Sessions
  PROVE  Keeps(Retain(p, h))
<1> DEFINE r == Only(retained[p], Sessions \ {h})
           q == Append(r, h)
<1>1. Keeps(r) /\ \A i \in 1 .. Len(r) : r[i] # h
  BY DropKeeps DEF KeptInv
<1> HIDE DEF r
<1>2. r \in Seq(Sessions) /\ Len(r) \in Nat /\ Len(r) <= RetainedLibraries
  BY <1>1 DEF Keeps
<1>3. /\ q \in Seq(Sessions) /\ Len(q) = Len(r) + 1 /\ q[Len(r) + 1] = h
      /\ \A i \in 1 .. Len(r) : q[i] = r[i]
  BY <1>2
<1> HIDE DEF q
<1>4. \A i \in 1 .. Len(q) : i \in 1 .. Len(r) \/ i = Len(r) + 1
  BY <1>2, <1>3
<1>5. \A i, j \in 1 .. Len(q) : q[i] = q[j] => i = j
  BY <1>1, <1>3, <1>4 DEF Keeps
<1>6. Retain(p, h) = IF Len(q) > RetainedLibraries THEN Tail(q) ELSE q
  BY DEF Retain, q, r
<1>7. CASE Len(q) > RetainedLibraries
  <2>1. /\ Tail(q) \in Seq(Sessions) /\ Len(Tail(q)) = Len(r)
        /\ \A i \in 1 .. Len(r) : Tail(q)[i] = q[i + 1]
    BY <1>2, <1>3
  <2>2. \A i \in 1 .. Len(r) : i + 1 \in 1 .. Len(q)
    BY <1>2, <1>3
  <2>3. \A i, j \in 1 .. Len(r) : Tail(q)[i] = Tail(q)[j] => i = j
    BY <1>2, <1>5, <2>1, <2>2
  <2> QED BY <1>2, <1>6, <1>7, <2>1, <2>3 DEF Keeps
<1>8. CASE ~(Len(q) > RetainedLibraries)
  <2>1. Len(q) <= RetainedLibraries
    BY <1>2, <1>3, <1>8, CacheAssumption
  <2> QED BY <1>3, <1>5, <1>6, <1>8, <2>1 DEF Keeps
<1> QED BY <1>7, <1>8

\* Every step that retains, retains once.
LEMMA NextKept ==
  ASSUME StateInv, KeptInv, [Next]_vars
  PROVE  KeptInv'
<1>1. ASSUME NEW p \in Procs, NEW q, Keeps(q), retained' = [retained EXCEPT ![p] = q]
      PROVE  KeptInv'
  BY <1>1 DEF KeptInv, Keeps
<1>2. CASE UNCHANGED retained
  BY <1>2 DEF KeptInv
<1>3. ASSUME NEW s \in Sessions, Serve(s) PROVE KeptInv'
  <2> DEFINE p == ProcessOf[s]
             h == found[s]
             q == IF ~(h # None /\ ~noticed[h]) THEN Only(retained[p], Sessions \ {h})
                  ELSE IF handle[h].from = "source" THEN retained[p]
                  ELSE AfterRetain(p, h)
  <2>1. p \in Procs /\ Keeps(retained[p])
    BY CacheAssumption DEF KeptInv
  <2>2. retained' = [retained EXCEPT ![p] = q]
    BY <1>3 DEF Serve
  <2>3. Keeps(Only(retained[p], Sessions \ {h}))
    BY <2>1, DropKeeps
  <2>4. h # None => Keeps(AfterRetain(p, h))
    <3>1. h # None => h \in Sessions
      BY DEF StateInv
    <3> QED BY <2>1, <3>1, RetainKeeps DEF AfterRetain
  <2>5. Keeps(q)
    BY <2>1, <2>3, <2>4
  <2> HIDE DEF q
  <2> QED BY <1>1, <2>1, <2>2, <2>5
<1>4. ASSUME NEW s \in Sessions, Register(s) PROVE KeptInv'
  <2> DEFINE p == ProcessOf[s]
             q == IF handle[s].from = "source" THEN retained[p] ELSE AfterRetain(p, s)
  <2>1. p \in Procs /\ Keeps(retained[p])
    BY CacheAssumption DEF KeptInv
  <2>2. retained' = [retained EXCEPT ![p] = q]
    BY <1>4 DEF Register
  <2>3. Keeps(q)
    BY <2>1, RetainKeeps DEF AfterRetain
  <2> HIDE DEF q
  <2> QED BY <1>1, <2>1, <2>2, <2>3
<1>5. Keeps(<<>>)
  <2>1. <<>> \in Seq(Sessions) /\ Len(<<>>) = 0
    OBVIOUS
  <2> QED BY <2>1, CacheAssumption DEF Keeps
<1>6. ASSUME NEW p \in Procs, Release(p) \/ Exit(p) \/ Crash(p) PROVE KeptInv'
  <2>1. retained' = [retained EXCEPT ![p] = <<>>]
    BY <1>6 DEF Release, Exit, Crash, Gone
  <2> QED BY <1>1, <1>5, <2>1
<1>7. ASSUME NEW s \in Sessions, LoadStep(s), ~Serve(s), ~Register(s)
      PROVE  UNCHANGED retained
  BY <1>7 DEF LoadStep, DecodeGuess, ListFiles, HashFiles, Lookup, TryCache,
     TryShipped, Prepare, Join
<1>8. ASSUME NEW s \in Sessions, SaveStep(s) \/ Start(s) \/ Close(s) \/ TakeParts(s)
      PROVE  UNCHANGED retained
  BY <1>8 DEF SaveStep, SaveRecording, CreateTemporary, WriteParts, Rename,
     SaveFails, Start, Close, TakeParts
<1> QED
  BY <1>2, <1>3, <1>4, <1>6, <1>7, <1>8 DEF Next, vars, ReadPart, Edit, Damage

\* At first nothing is kept.
LEMMA InitKept == Init => KeptInv
<1>1. <<>> \in Seq(Sessions) /\ Len(<<>>) = 0
  OBVIOUS
<1>2. Keeps(<<>>)
  BY <1>1, CacheAssumption DEF Keeps
<1> QED BY <1>1, <1>2 DEF Init, KeptInv

(***************************************************************************)
(* retain: RETAINED names a library once.                                   *)
(***************************************************************************)
THEOREM KeptOnce == Spec => []RetainedOnce
<1>1. Init => KeptInv
  BY InitKept
<1>2. StateInv /\ KeptInv /\ [Next]_vars => KeptInv'
  BY NextKept
<1>3. KeptInv => RetainedOnce
  <2> SUFFICES ASSUME KeptInv, NEW p \in Procs
               PROVE  Cardinality(Kept(retained[p])) = Len(retained[p])
    BY DEF RetainedOnce
  <2> DEFINE q == retained[p]
  <2>1. /\ q \in [1 .. Len(q) -> Sessions] /\ Len(q) \in Nat
        /\ \A i, j \in 1 .. Len(q) : q[i] = q[j] => i = j
    BY DEF KeptInv, Keeps
  <2> HIDE DEF q
  <2>2. Kept(q) = {q[i] : i \in 1 .. Len(q)}
    BY <2>1 DEF Kept
  <2>3. q \in Bijection(1 .. Len(q), Kept(q))
    <3>1. q \in [1 .. Len(q) -> Kept(q)]
      BY <2>1, <2>2
    <3>2. \A x \in Kept(q) : \E i \in 1 .. Len(q) : q[i] = x
      BY <2>2
    <3> QED BY <2>1, <3>1, <3>2, Fun_IsBij
  <2>4. ExistsBijection(1 .. Len(q), Kept(q))
    BY <2>3, Fun_ExistsBij
  <2>5. Cardinality(Kept(q)) = Len(q)
    BY <2>1, <2>4, FS_CountingElements
  <2> QED BY <2>5 DEF q
<1> QED
  BY <1>1, <1>2, <1>3, StateShape, PTL DEF Spec

----------------------------------------------------------------------------
(***************************************************************************)
(* Types.                                                                   *)
(***************************************************************************)

\* What TypeOK says that no invariant above does.
CountedInv ==
  /\ stamp <= MaxEdits
  /\ recordings \in [Contents -> Contents \cup {None}]
  /\ readers \subseteq Readers
  /\ asked \in [Sessions -> Contents \cup {None}]
  /\ damages \in 0 .. MaxDamage /\ crashes \in 0 .. MaxCrashes

\* Only parts of files that were decoded are being read.
LEMMA NextReaders ==
  ASSUME StateInv, CountedInv, [Next]_vars
  PROVE  readers' \subseteq Readers
<1>1. ASSUME NEW s \in Sessions, NEW f, NEW k \in Contents,
             NEW place \in {"cache", "shipped"},
             readers' = readers \cup Started(s, f, k, place)
      PROVE  readers' \subseteq Readers
  BY <1>1 DEF CountedInv, Started, Readers
<1>2. CASE readers' \subseteq readers
  BY <1>2 DEF CountedInv
<1>3. ASSUME NEW s \in Sessions, DecodeGuess(s) PROVE readers' \subseteq Readers
  <2>1. guess[s] \in Contents
    BY <1>3 DEF DecodeGuess, StateInv
  <2> QED BY <1>1, <1>2, <1>3, <2>1 DEF DecodeGuess
<1>4. ASSUME NEW s \in Sessions, TryCache(s) \/ TryShipped(s)
      PROVE  readers' \subseteq Readers
  <2>1. PhaseOf(s) /\ key[s] \in Contents \cup {None}
    BY DEF StateInv
  <2>2. key[s] \in Contents
    BY <1>4, <2>1 DEF TryCache, TryShipped, PhaseOf, Loading
  <2>3. CASE TryCache(s)
    BY <1>1, <1>2, <2>2, <2>3 DEF TryCache
  <2>4. CASE TryShipped(s)
    BY <1>1, <1>2, <2>2, <2>4 DEF TryShipped
  <2> QED BY <1>4, <2>3, <2>4
<1>5. ASSUME NEW s \in Sessions, LoadStep(s) \/ Start(s) \/ Close(s) \/ TakeParts(s),
             ~DecodeGuess(s), ~TryCache(s), ~TryShipped(s)
      PROVE  UNCHANGED readers
  BY <1>5 DEF LoadStep, ListFiles, HashFiles, Lookup, Serve, Prepare, Register,
     Join, Start, Close, TakeParts
<1>6. ASSUME NEW s \in Sessions, SaveStep(s) PROVE UNCHANGED readers
  BY <1>6 DEF SaveStep, SaveRecording, CreateTemporary, WriteParts, Rename,
     SaveFails
<1>7. ASSUME NEW p \in Procs, Exit(p) \/ Crash(p) PROVE readers' \subseteq readers
  BY <1>7 DEF Exit, Crash, Gone
<1> QED
  BY <1>2, <1>3, <1>4, <1>5, <1>6, <1>7
     DEF Next, vars, ReadPart, Release, Edit, Damage

\* A recording is that of a library, under a key; a load asks for one.
LEMMA NextRecorded ==
  ASSUME StateInv, CountedInv, [Next]_vars
  PROVE  /\ recordings' \in [Contents -> Contents \cup {None}]
         /\ asked' \in [Sessions -> Contents \cup {None}]
<1> USE DEF CountedInv
<1>1. ASSUME NEW s \in Sessions, SaveRecording(s)
      PROVE  recordings' \in [Contents -> Contents \cup {None}]
  <2>1. PhaseOf(s) /\ handle[s] \in Handles \cup {None} /\ saving[s] # "no"
    BY <1>1 DEF StateInv, SaveRecording
  <2>2. handle[s] \in Handles
    BY <2>1 DEF PhaseOf
  <2>3. handle[s].content \in Contents
    BY <2>2 DEF Handles
  <2>4. \/ recordings' = recordings
        \/ recordings' = [recordings EXCEPT ![key[s]] = handle[s].content]
    BY <1>1 DEF SaveRecording
  <2> QED BY <2>3, <2>4
<1>2. ASSUME NEW s \in Sessions, SaveStep(s), ~SaveRecording(s)
      PROVE  UNCHANGED recordings
  BY <1>2 DEF SaveStep, CreateTemporary, WriteParts, Rename, SaveFails
<1>3. ASSUME NEW s \in Sessions, SaveStep(s) PROVE UNCHANGED asked
  BY <1>3 DEF SaveStep, SaveRecording, CreateTemporary, WriteParts, Rename,
     SaveFails
<1>4. ASSUME NEW s \in Sessions, LoadStep(s) \/ TakeParts(s)
      PROVE  UNCHANGED <<recordings, asked>>
  BY <1>4 DEF LoadStep, DecodeGuess, ListFiles, HashFiles, Lookup, Serve,
     TryCache, TryShipped, Prepare, Register, Join, TakeParts
<1>5. ASSUME NEW s \in Sessions, Start(s) \/ Close(s)
      PROVE  /\ UNCHANGED recordings
             /\ asked' \in [Sessions -> Contents \cup {None}]
  BY <1>5 DEF Start, Close, StateInv
<1>6. ASSUME NEW p \in Procs, Exit(p) \/ Crash(p)
      PROVE  /\ UNCHANGED recordings
             /\ asked' \in [Sessions -> Contents \cup {None}]
  <2>1. /\ asked' = [s \in Sessions |-> IF ProcessOf[s] = p THEN None ELSE asked[s]]
        /\ UNCHANGED recordings
    BY <1>6 DEF Exit, Crash, Gone
  <2> QED BY <2>1
<1> QED
  BY <1>1, <1>2, <1>3, <1>4, <1>5, <1>6
     DEF Next, vars, ReadPart, Release, Edit, Damage

\* The bounds on a run.
LEMMA NextCounted ==
  ASSUME StateInv, CountedInv, [Next]_vars
  PROVE  CountedInv'
<1>1. readers' \subseteq Readers
  BY NextReaders
<1>2. /\ recordings' \in [Contents -> Contents \cup {None}]
      /\ asked' \in [Sessions -> Contents \cup {None}]
  BY NextRecorded
<1>3. stamp \in Nat /\ MaxEdits \in Nat /\ MaxDamage \in Nat /\ MaxCrashes \in Nat
  BY CacheAssumption DEF StateInv
<1>4. CASE UNCHANGED <<stamp, damages, crashes>>
  BY <1>1, <1>2, <1>4 DEF CountedInv
<1>5. ASSUME NEW c \in Contents, Edit(c) PROVE CountedInv'
  <2>1. stamp < MaxEdits /\ stamp' = stamp + 1 /\ UNCHANGED <<damages, crashes>>
    BY <1>5 DEF Edit
  <2> QED BY <1>1, <1>2, <1>3, <2>1 DEF CountedInv
<1>6. ASSUME NEW k \in Contents, Damage(k) PROVE CountedInv'
  <2>1. damages < MaxDamage /\ damages' = damages + 1 /\ UNCHANGED <<stamp, crashes>>
    BY <1>6 DEF Damage
  <2> QED BY <1>1, <1>2, <1>3, <2>1 DEF CountedInv
<1>7. ASSUME NEW p \in Procs, Crash(p) PROVE CountedInv'
  <2>1. crashes < MaxCrashes /\ crashes' = crashes + 1 /\ UNCHANGED <<stamp, damages>>
    BY <1>7 DEF Crash, Gone
  <2> QED BY <1>1, <1>2, <1>3, <2>1 DEF CountedInv
<1>8. ASSUME NEW s \in Sessions,
             LoadStep(s) \/ Start(s) \/ Close(s) \/ TakeParts(s) \/ SaveStep(s)
      PROVE  UNCHANGED <<stamp, damages, crashes>>
  BY <1>8 DEF LoadStep, DecodeGuess, ListFiles, HashFiles, Lookup, Serve,
     TryCache, TryShipped, Prepare, Register, Join, Start, Close, TakeParts,
     SaveStep, SaveRecording, CreateTemporary, WriteParts, Rename, SaveFails
<1>9. ASSUME NEW p \in Procs, Exit(p) \/ Release(p)
      PROVE  UNCHANGED <<stamp, damages, crashes>>
  BY <1>9 DEF Exit, Gone, Release
<1> QED
  BY <1>4, <1>5, <1>6, <1>7, <1>8, <1>9 DEF Next, vars, ReadPart

(***************************************************************************)
(* The variables have their types; RETAINED holds at most its limit.        *)
(***************************************************************************)
THEOREM TypeCorrect == Spec => []TypeOK
<1>1. Init => MemoListed /\ WholeInv /\ ShunInv /\ KeptInv /\ CountedInv
  <2> SUFFICES ASSUME Init
               PROVE  MemoListed /\ WholeInv /\ ShunInv /\ KeptInv /\ CountedInv
    OBVIOUS
  <2>1. MemoListed /\ ShunInv
    BY DEF Init, NoHandles, MemoListed, ShunInv
  <2>2. WholeInv
    BY InitWhole
  <2>3. KeptInv
    BY InitKept
  <2>4. CountedInv
    BY CacheAssumption DEF Init, NoHandles, NoEntries, CountedInv
  <2> QED BY <2>1, <2>2, <2>3, <2>4
<1>2. /\ StateInv /\ MemoListed /\ WholeInv /\ ShunInv /\ KeptInv /\ CountedInv
      /\ [Next]_vars
      => MemoListed' /\ WholeInv' /\ ShunInv' /\ KeptInv' /\ CountedInv'
  BY NextMemo, NextWhole, NextShun, NextKept, NextCounted
<1>3. StateInv /\ MemoListed /\ WholeInv /\ ShunInv /\ KeptInv /\ CountedInv => TypeOK
  <2> SUFFICES ASSUME StateInv, MemoListed, WholeInv, ShunInv, KeptInv, CountedInv
               PROVE  TypeOK
    OBVIOUS
  <2>1. stamp \in 0 .. MaxEdits /\ MaxEdits \in Nat
    BY CacheAssumption DEF StateInv, CountedInv
  <2>2. memo \in [Procs -> [stamp : 0 .. MaxEdits, key : Contents] \cup {None}]
    <3>1. ASSUME NEW p \in Procs, memo[p] # None
          PROVE  memo[p] \in [stamp : 0 .. MaxEdits, key : Contents]
      <4>1. memo[p] \in Listings /\ memo[p].stamp <= stamp
        BY <3>1 DEF StateInv, MemoListed
      <4> QED BY <2>1, <4>1 DEF Listings
    <3> QED BY <3>1 DEF StateInv
  <2>3. listing \in [Sessions -> 0 .. (MaxEdits + 1)]
    <3>1. \A s \in Sessions : listing[s] \in 0 .. (MaxEdits + 1)
      BY <2>1 DEF StateInv, MemoListed
    <3> QED BY <3>1 DEF StateInv
  <2>4. \A p \in Procs : /\ retained[p] \in Seq(Sessions)
                         /\ Len(retained[p]) <= RetainedLibraries
    BY DEF KeptInv, Keeps
  <2> QED
    BY <2>1, <2>2, <2>3, <2>4
       DEF StateInv, WholeInv, ShunInv, CountedInv, Pcs, SavePhases, TypeOK
<1> QED
  BY <1>1, <1>2, <1>3, StateShape, PTL DEF Spec
=============================================================================
