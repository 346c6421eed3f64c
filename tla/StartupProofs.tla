---------------------------- MODULE StartupProofs ---------------------------
(***************************************************************************)
(* Startup and shutdown of both programs, for every size the file may have *)
(* and take on while it is loaded, every size of memory, of the ROM and    *)
(* every offset.  The invariant says what is held at each call, and that   *)
(* on the way out exactly what destroy releases is.                        *)
(***************************************************************************)
EXTENDS Startup, TLAPS

\* What is held when a call comes: before the SDL calls, and at each of them.
Loading ==
  [create |-> {}, stat |-> {"emu"}, size |-> {"emu"}, fopen |-> {"emu"},
   calloc |-> {"emu", "file"}, fread |-> {"emu", "file", "memory"}]
Drawing ==
  [SDL_Init |-> {"emu", "memory"},
   SDL_CreateWindow |-> {"emu", "memory", "sdl"},
   SDL_CreateRenderer |-> {"emu", "memory", "sdl", "window"},
   SDL_RenderSetLogicalSize |-> {"emu", "memory", "sdl", "window", "renderer"},
   SDL_CreateTexture |-> {"emu", "memory", "sdl", "window", "renderer"},
   video_calloc |-> {"emu", "memory", "sdl", "window", "renderer", "texture"}]
LoadCalls == {"create", "stat", "size", "fopen", "calloc", "fread"}

\* Everything that destroy releases beside the members.
Rest == {"emu"} \union (IF game THEN {"sdl"} ELSE {})

Owned ==
  /\ stage \in LoadCalls => held = Loading[stage] /\ members = {}
  /\ stage \in SdlCalls => held = Drawing[stage] /\ members = {"memory"} /\ game
  /\ stage \in {"loop", "end"} =>
       /\ members = {"memory"} \union (IF game THEN SdlMembers ELSE {})
       /\ held = members \union Rest
  /\ stage = "fail" => /\ members \subseteq {"memory"}
                       /\ {"emu"} \union members \subseteq held
                       /\ held \subseteq members \union Rest
  /\ stage = "done" => held = {} /\ members = {}

\* The size that was tested is the size that is allocated for and read.
Fits ==
  /\ st_size \in Nat /\ loaded \in Nat
  /\ stage \in {"fopen", "calloc", "fread"} => SizeFits
  /\ stage \in LoadCalls => loaded = 0
  /\ stage \in SdlCalls \union {"loop"} => loaded > 0 /\ (game => loaded = RomSize)
  /\ loaded = 0 \/ loaded + (IF game THEN 0 ELSE Offset) <= UINT16_MAX

\* What the error paths of sdl_init have released twice or too late.
Ordered ==
  /\ twice = IF failed = "video_calloc" THEN {"texture"} ELSE {}
  /\ orphaned = IF failed = "video_calloc" THEN {"renderer", "texture"}
               ELSE IF failed \in {"SDL_RenderSetLogicalSize", "SDL_CreateTexture"} THEN {"renderer"}
               ELSE {}
  /\ failed = "none" \/ stage \in {"fail", "done"}

Inv ==
  /\ game \in BOOLEAN /\ file_size \in Sizes
  /\ stage \in LoadCalls \union SdlCalls \union {"loop", "end", "fail", "done"}
  /\ Owned /\ Fits /\ Ordered

LEMMA Start == Init => Inv
  BY DEF Init, Inv, Owned, Fits, Ordered, LoadCalls, SdlCalls, Loading

\* What the lists of one, two and three releases do, whatever is released.
LEMMA GiveOne ==
  ASSUME NEW a, Give(<<a>>)
  PROVE  /\ held' = held \ Frees(a)
         /\ twice' = twice \union ({a} \ held)
         /\ orphaned' = orphaned
  BY DEF Give, Release

LEMMA GiveTwo ==
  ASSUME NEW a, NEW b, Give(<<a, b>>)
  PROVE  /\ held' = held \ (Frees(a) \union Frees(b))
         /\ twice' = twice \union ({a} \ held) \union ({b} \ (held \ Frees(a)))
         /\ orphaned' = orphaned \union {x \in {b} : a \in MadeFrom(b)}
  BY DEF Give, Release

LEMMA GiveThree ==
  ASSUME NEW a, NEW b, NEW c, Give(<<a, b, c>>)
  PROVE  /\ held' = held \ (Frees(a) \union Frees(b) \union Frees(c))
         /\ twice' = twice \union ({a} \ held) \union ({b} \ (held \ Frees(a)))
                           \union ({c} \ (held \ (Frees(a) \union Frees(b))))
         /\ orphaned' = orphaned \union {x \in {b} : a \in MadeFrom(b)}
                                 \union {x \in {c} : {a, b} \intersect MadeFrom(c) # {}}
  BY DEF Give, Release

\* Destroy gives back all that is held, and its order frees nothing twice and
\* nothing before what is made from it.
LEMMA DestroyOrder ==
  ASSUME held \subseteq {destroy[n] : n \in 1 .. 7}, Release(destroy, held)
  PROVE  held' = {} /\ twice' = twice /\ orphaned' = orphaned
<1> DEFINE calls == {n \in 1 .. Len(destroy) : destroy[n] \in held}
           before(n) == {destroy[k] : k \in {m \in calls : m < n}}
           freed(n) == UNION {Frees(r) : r \in before(n)}
           again == {m \in calls : destroy[m] \notin held \ freed(m)}
           late == {m \in calls : MadeFrom(destroy[m]) \intersect before(m) # {}}
<1>1. /\ held' = held \ UNION {Frees(destroy[n]) : n \in calls}
      /\ twice' = twice \union {destroy[n] : n \in again}
      /\ orphaned' = orphaned \union {destroy[n] : n \in late}
  BY DEF Release
<1>2. Len(destroy) = 7
  BY DEF destroy
<1>3. \A m, n \in 1 .. 7 : m < n => /\ destroy[n] \notin Frees(destroy[m])
                                   /\ destroy[m] \notin MadeFrom(destroy[n])
  BY DEF destroy, Frees, MadeFrom
<1>4. again = {}
  BY <1>2, <1>3
<1>5. late = {}
  BY <1>2, <1>3
<1>6. held \subseteq UNION {Frees(destroy[n]) : n \in calls}
  BY <1>2 DEF Frees
<1> HIDE DEF again, late, calls
<1>7. QED
  BY <1>1, <1>4, <1>5, <1>6

\* The calls before SDL, and the failures that lead to destroy.
LEMMA LoadKeeps ==
  ASSUME Inv, Create \/ Stat \/ CheckSize \/ Open \/ Calloc \/ Resize
  PROVE  Inv'
<1>1. CASE Create
  BY <1>1 DEF Create, fileVars, Acquire, doneVars, Inv, Owned, Fits, Ordered, LoadCalls, SdlCalls, Loading
<1>2. CASE Stat
  BY <1>2, StartupAssumption DEF StartupAssumption, Stat, Fail, fileVars, Inv, Owned, Fits,
     Ordered, doneVars, LoadCalls, SdlCalls, Loading, Rest
<1>3. CASE CheckSize
  <2>1. /\ stage = "size" /\ held = {"emu"} /\ members = {}
        /\ failed = "none" /\ twice = {} /\ orphaned = {}
        /\ UNCHANGED <<game, file_size, st_size, held, members, loaded, twice, orphaned>>
    BY <1>3 DEF CheckSize, Fail, fileVars, doneVars, Inv, Owned, Ordered, LoadCalls, Loading
  <2>2. \/ SizeFits /\ stage' = "fopen" /\ failed' = "none"
        \/ stage' = "fail" /\ failed' = "size"
    BY <1>3, <2>1 DEF CheckSize, Fail
  <2>3. QED
    BY <2>1, <2>2 DEF Inv, Owned, Fits, Ordered, SizeFits, LoadCalls, SdlCalls, Loading, Rest
<1>4. CASE Open
  <2>1. stage = "fopen" /\ held = {"emu"} /\ members = {} /\ SizeFits
        /\ UNCHANGED <<game, file_size, st_size, members, loaded>>
        /\ failed = "none" /\ twice = {} /\ orphaned = {}
    BY <1>4 DEF Open, Fail, fileVars, Inv, Owned, Fits, Ordered, LoadCalls, Loading
  <2>2. CASE UNCHANGED <<held, doneVars>> /\ Fail
    BY <2>1, <2>2 DEF Fail, doneVars, Inv, Owned, Fits, Ordered, LoadCalls, SdlCalls, Rest
  <2>3. CASE ~(UNCHANGED <<held, doneVars>> /\ Fail)
    <3>1. /\ held' = {"emu", "file"} /\ twice' = {} /\ orphaned' = {}
          /\ stage' = "calloc" /\ failed' = "none"
      BY <1>4, <2>1, <2>3 DEF Open, Acquire, doneVars
    <3>2. QED
      BY <2>1, <3>1 DEF Inv, Owned, Fits, Ordered, SizeFits, LoadCalls, SdlCalls, Loading
  <2>4. QED  BY <2>2, <2>3
<1>5. CASE Calloc
  <2>1. stage = "calloc" /\ held = {"emu", "file"} /\ members = {} /\ SizeFits
        /\ UNCHANGED <<game, file_size, st_size, members, loaded>>
        /\ failed = "none" /\ twice = {} /\ orphaned = {}
    BY <1>5 DEF Calloc, Fail, fileVars, Inv, Owned, Fits, Ordered, LoadCalls, Loading
  <2>2. CASE Give(<<"file">>) /\ Fail
    <3>1. /\ held' = {"emu"} /\ twice' = {} /\ orphaned' = {}
          /\ stage' = "fail" /\ failed' = "calloc"
      BY <2>1, <2>2, GiveOne DEF Frees, Fail
    <3>2. QED  BY <2>1, <3>1 DEF Inv, Owned, Fits, Ordered, LoadCalls, SdlCalls, Rest
  <2>3. CASE ~(Give(<<"file">>) /\ Fail)
    <3>1. /\ held' = {"emu", "file", "memory"} /\ twice' = {} /\ orphaned' = {}
          /\ stage' = "fread" /\ failed' = "none"
      BY <1>5, <2>1, <2>3 DEF Calloc, Acquire, doneVars
    <3>2. QED
      BY <2>1, <3>1 DEF Inv, Owned, Fits, Ordered, SizeFits, LoadCalls, SdlCalls, Loading
  <2>4. QED  BY <2>2, <2>3
<1>6. CASE Resize
  BY <1>6 DEF Resize, doneVars, Inv, Owned, Fits, Ordered, SizeFits, LoadCalls, SdlCalls, Rest
<1>7. QED  BY <1>1, <1>2, <1>3, <1>4, <1>5, <1>6

LEMMA ReadKeeps ==
  ASSUME Inv, Read
  PROVE  Inv'
<1>1. stage = "fread" /\ held = {"emu", "file", "memory"} /\ members = {} /\ SizeFits
      /\ loaded = 0 /\ failed = "none" /\ twice = {} /\ orphaned = {}
  BY DEF Read, Inv, Owned, Fits, Ordered, LoadCalls, SdlCalls, Loading
<1>2. CASE Give(<<"file", "memory">>) /\ Fail
  <2>1. /\ held' = {"emu"} /\ twice' = {} /\ orphaned' = {}
        /\ stage' = "fail" /\ failed' = "fread"
        /\ UNCHANGED <<game, file_size, st_size, members, loaded>>
    BY <1>1, <1>2, GiveTwo DEF Frees, MadeFrom, Fail, fileVars
  <2>2. QED  BY <1>1, <2>1 DEF Inv, Owned, Fits, Ordered, LoadCalls, SdlCalls, Rest
<1>3. CASE ~(Give(<<"file", "memory">>) /\ Fail)
  <2>1. /\ held' = {"emu", "memory"} /\ twice' = {} /\ orphaned' = {}
        /\ members' = {"memory"} /\ failed' = "none" /\ loaded' = st_size /\ UNCHANGED <<game, file_size, st_size>>
        /\ stage' = IF game THEN "SDL_Init" ELSE "loop"
    BY <1>1, <1>3, GiveOne DEF Read, Frees, fileVars
  <2>2. st_size \in Nat /\ st_size > 0 /\ (game => st_size = RomSize)
        /\ st_size + (IF game THEN 0 ELSE Offset) <= UINT16_MAX
    BY <1>1, StartupAssumption DEF StartupAssumption, SizeFits, Inv, Fits
  <2>3. Fits'
    BY <2>1, <2>2 DEF Fits, LoadCalls, SdlCalls, Inv
  <2>4. Owned'
    BY <2>1 DEF Owned, LoadCalls, SdlCalls, Drawing, Rest, Inv
  <2>5. QED  BY <2>1, <2>3, <2>4 DEF Inv, Ordered, LoadCalls, SdlCalls
<1>4. QED  BY <1>2, <1>3

LEMMA SdlKeeps ==
  ASSUME Inv, SdlInit
  PROVE  Inv'
<1>1. /\ stage \in SdlCalls /\ game /\ held = Drawing[stage] /\ members = {"memory"}
      /\ twice = {} /\ orphaned = {} /\ failed = "none"
      /\ UNCHANGED <<game, file_size, st_size, loaded>>
  BY DEF SdlInit, Fail, fileVars, Inv, Owned, Ordered, LoadCalls, SdlCalls
<1>2. CASE Give(Undo[stage]) /\ Fail
  <2>1. stage' = "fail" /\ failed' = stage /\ members' = members
    BY <1>2 DEF Fail
  <2>2. held' \subseteq {"emu", "memory", "sdl"} /\ {"emu", "memory"} \subseteq held' /\ Ordered'
    <3>1. CASE stage = "SDL_Init" \/ stage = "SDL_CreateWindow"
      <4>1. Give(<<>>)
        BY <1>2, <3>1 DEF Undo, SdlCalls
      <4>2. held' = held /\ twice' = {} /\ orphaned' = {}
        BY <1>1, <4>1 DEF Give, Release
      <4>3. QED  BY <1>1, <2>1, <3>1, <4>2 DEF Drawing, Ordered
    <3>2. CASE stage = "SDL_CreateRenderer"
      <4>1. Give(<<"window">>)
        BY <1>2, <3>2 DEF Undo
      <4>2. held' = {"emu", "memory", "sdl"} /\ twice' = {} /\ orphaned' = {}
        BY <1>1, <3>2, <4>1, GiveOne DEF Drawing, Frees
      <4>3. QED  BY <1>1, <2>1, <3>2, <4>2 DEF Ordered
    <3>3. CASE stage = "SDL_RenderSetLogicalSize" \/ stage = "SDL_CreateTexture"
      <4>1. Give(<<"window", "renderer">>)
        BY <1>2, <3>3 DEF Undo
      <4>2. held' = {"emu", "memory", "sdl"} /\ twice' = {} /\ orphaned' = {"renderer"}
        BY <1>1, <3>3, <4>1, GiveTwo DEF Drawing, Frees, MadeFrom
      <4>3. QED  BY <1>1, <2>1, <3>3, <4>2 DEF Ordered
    <3>4. CASE stage = "video_calloc"
      <4>1. Give(<<"window", "renderer", "texture">>)
        BY <1>2, <3>4 DEF Undo
      <4>2. /\ held' = {"emu", "memory", "sdl"} /\ twice' = {"texture"}
            /\ orphaned' = {"renderer", "texture"}
        BY <1>1, <3>4, <4>1, GiveThree DEF Drawing, Frees, MadeFrom
      <4>3. QED  BY <1>1, <2>1, <3>4, <4>2 DEF Ordered
    <3>5. QED  BY <1>1, <3>1, <3>2, <3>3, <3>4 DEF SdlCalls
  <2>3. QED
    BY <1>1, <2>1, <2>2 DEF Inv, Owned, Fits, LoadCalls, SdlCalls, Rest
<1>3. CASE ~(Give(Undo[stage]) /\ Fail)
  <2>1. /\ held' = held \union Gives[stage] /\ twice' = {} /\ orphaned' = {}
        /\ stage' = After[stage] /\ failed' = "none"
        /\ members' = IF stage' = "loop" THEN members \union SdlMembers ELSE members
    BY <1>1, <1>3 DEF SdlInit, Acquire, doneVars
  <2>2. CASE stage = "video_calloc"
    BY <1>1, <2>1, <2>2 DEF Inv, Owned, Fits, Ordered, LoadCalls, SdlCalls, After, Gives, Drawing,
       SdlMembers, Rest
  <2>3. CASE stage # "video_calloc"
    <3>1. After[stage] \in SdlCalls /\ Drawing[stage] \union Gives[stage] = Drawing[After[stage]]
      BY <1>1, <2>3 DEF SdlCalls, After, Gives, Drawing
    <3>2. stage' \in SdlCalls /\ held' = Drawing[stage'] /\ members' = members
      BY <1>1, <2>1, <3>1 DEF SdlCalls
    <3>3. QED
      BY <1>1, <2>1, <3>2 DEF Inv, Owned, Fits, Ordered, LoadCalls, SdlCalls
  <2>4. QED  BY <2>2, <2>3
<1>4. QED  BY <1>2, <1>3

LEMMA EndKeeps ==
  ASSUME Inv, EndLoop \/ Destroy
  PROVE  Inv'
<1>1. CASE EndLoop
  BY <1>1 DEF EndLoop, fileVars, doneVars, Inv, Owned, Fits, Ordered, LoadCalls, SdlCalls, Rest
<1>2. CASE Destroy
  <2> DEFINE given == {"emu"} \union members
                      \union (IF game THEN held \intersect {"sdl"} ELSE {})
  <2>1. given = held /\ game \in BOOLEAN
    BY <1>2 DEF Destroy, Inv, Owned, Rest, SdlMembers
  <2>2. members = {"memory"} \union SdlMembers \/ members \subseteq {"memory"}
    BY <1>2 DEF Destroy, Inv, Owned
  <2>3. /\ Release(destroy, given) /\ members' = {} /\ stage' = "done"
        /\ UNCHANGED <<game, file_size, st_size, loaded, failed>>
    BY <1>2 DEF Destroy, fileVars
  <2>4. given \subseteq {destroy[n] : n \in 1 .. 7}
    <3>1. given \subseteq {"emu", "memory", "sdl"} \union SdlMembers
      BY <2>2
    <3>2. /\ destroy[1] = "texture" /\ destroy[2] = "renderer" /\ destroy[3] = "window"
          /\ destroy[4] = "sdl" /\ destroy[5] = "video_buffer"
          /\ destroy[6] = "memory" /\ destroy[7] = "emu"
      BY DEF destroy
    <3>3. QED  BY <3>1, <3>2 DEF SdlMembers
  <2>5. held' = {} /\ twice' = twice /\ orphaned' = orphaned
    BY <2>1, <2>3, <2>4, DestroyOrder
  <2>6. QED
    BY <2>3, <2>5 DEF Inv, Owned, Fits, Ordered, LoadCalls, SdlCalls
<1>3. QED  BY <1>1, <1>2

LEMMA Invariance == Spec => []Inv
<1>1. Inv /\ [Next]_vars => Inv'
  <2> SUFFICES ASSUME Inv, [Next]_vars PROVE Inv'
    OBVIOUS
  <2>1. CASE UNCHANGED vars
    BY <2>1 DEF vars, fileVars, doneVars, Inv, Owned, Fits, Ordered, SizeFits, Rest
  <2>2. QED  BY <2>1, LoadKeeps, ReadKeeps, SdlKeeps, EndKeeps DEF Next
<1>2. QED  BY <1>1, Start, PTL DEF Spec

(* No error path of load_file or sdl_init releases what it does not hold,  *)
(* nor does destroy after it, and no member of emu is left dangling; the   *)
(* texture alone is destroyed again, after its renderer has taken it along *)
(* on the last path of sdl_init.                                           *)
THEOREM NoDoubleRelease == Spec => []ReleasedOnce
<1>1. Inv => ReleasedOnce
  BY DEF Inv, Owned, Ordered, LoadCalls, SdlCalls, Loading, Drawing, Rest, ReleasedOnce
<1>2. QED  BY <1>1, Invariance, PTL

(* Renderer before window and texture before renderer: destroy keeps the   *)
(* order after every run of the game and every failure, and the last three *)
(* error paths of sdl_init are all that breaks it.                         *)
THEOREM ReleaseOrder == Spec => []OwnersLast
<1>1. Inv => OwnersLast
  BY DEF Inv, Ordered, OwnersLast
<1>2. QED  BY <1>1, Invariance, PTL

(* Whatever call fails, main ends with all of it released.                 *)
THEOREM NoLeak == Spec => []NothingLeaks
<1>1. Inv => NothingLeaks
  BY DEF Inv, Owned, NothingLeaks
<1>2. QED  BY <1>1, Invariance, PTL

(* The file is read into memory that holds it, whatever its size was and   *)
(* becomes, and the game starts with a whole ROM.                          *)
THEOREM FileFits == Spec => []LoadFits
<1>1. Inv => LoadFits
  BY DEF Inv, Fits, LoadFits
<1>2. QED  BY <1>1, Invariance, PTL
=============================================================================
