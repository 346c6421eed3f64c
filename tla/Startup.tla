------------------------------- MODULE Startup ------------------------------
(***************************************************************************)
(* The two mains from create to destroy: the file that is loaded, and what *)
(* both programs acquire, release on the way out of a failure and release  *)
(* at the end.  Every call to the system or to SDL may fail, and the file  *)
(* may change while it is being loaded.                                    *)
(***************************************************************************)
EXTENDS Integers, Sequences

CONSTANTS
  Sizes,        \* the sizes the file may have, in bytes
  UINT16_MAX,   \* 65535: bytes of memory allocated
  RomSize,      \* 8192: the size space-invaders.c wants
  Offset        \* 0x100: where i8080-emulator.c loads

ASSUME StartupAssumption ==
  /\ Sizes \subseteq Nat
  /\ UINT16_MAX \in Nat
  /\ RomSize \in Nat \ {0} /\ RomSize <= UINT16_MAX
  /\ Offset \in Nat

VARIABLES
  game,       \* TRUE in space-invaders.c, FALSE in i8080-emulator.c
  stage,      \* the call that comes next
  file_size,  \* external: the size of the file
  st_size,    \* the size stat has seen
  held,       \* what has been acquired and not been released
  members,    \* the members of emu that are not NULL
  loaded,     \* history: the bytes fread has stored, 0 before
  failed,     \* history: the call that failed, "none" before
  twice,      \* history: what was released without being held
  orphaned    \* history: what was released after what it was made from

fileVars == <<game, file_size>>
doneVars == <<twice, orphaned>>
vars == <<fileVars, stage, st_size, held, members, loaded, failed, doneVars>>

\* What space-invaders.c acquires in sdl_init, beside SDL itself, and keeps in
\* emu when all has gone well.
SdlMembers == {"window", "renderer", "texture", "video_buffer"}

\* The calls of sdl_init: what each gives, what comes next, and what its error
\* path releases by hand.
Gives ==
  [SDL_Init |-> {"sdl"}, SDL_CreateWindow |-> {"window"},
   SDL_CreateRenderer |-> {"renderer"}, SDL_RenderSetLogicalSize |-> {},
   SDL_CreateTexture |-> {"texture"}, video_calloc |-> {"video_buffer"}]
After ==
  [SDL_Init |-> "SDL_CreateWindow", SDL_CreateWindow |-> "SDL_CreateRenderer",
   SDL_CreateRenderer |-> "SDL_RenderSetLogicalSize",
   SDL_RenderSetLogicalSize |-> "SDL_CreateTexture",
   SDL_CreateTexture |-> "video_calloc", video_calloc |-> "loop"]
\* Fault: the path of SDL_CreateTexture forgets the renderer.
Undo_forgets ==
  [SDL_Init |-> <<>>, SDL_CreateWindow |-> <<>>, SDL_CreateRenderer |-> <<"window">>,
   SDL_RenderSetLogicalSize |-> <<"window", "renderer">>,
   SDL_CreateTexture |-> <<"window">>,
   video_calloc |-> <<"window", "renderer", "texture">>]
Undo ==
  [SDL_Init |-> <<>>, SDL_CreateWindow |-> <<>>, SDL_CreateRenderer |-> <<"window">>,
   SDL_RenderSetLogicalSize |-> <<"window", "renderer">>,
   SDL_CreateTexture |-> <<"window", "renderer">>,
   video_calloc |-> <<"window", "renderer", "texture">>]
SdlCalls == {"SDL_Init", "SDL_CreateWindow", "SDL_CreateRenderer",
             "SDL_RenderSetLogicalSize", "SDL_CreateTexture", "video_calloc"}

\* External: what a renderer and a texture are made from, and what is gone once
\* r has been released; SDL_DestroyRenderer frees the renderer's textures.
MadeFrom(r) ==
  IF r = "renderer" THEN {"window"} ELSE IF r = "texture" THEN {"renderer"} ELSE {}
Frees(r) == {r} \union (IF r = "renderer" THEN {"texture"} ELSE {})

\* The calls of destroy, in their order.  Faults: the renderer goes first, the
\* window goes first.
destroy_renderer_first ==
  <<"renderer", "texture", "window", "sdl", "video_buffer", "memory", "emu">>
destroy_window_first ==
  <<"window", "texture", "renderer", "sdl", "video_buffer", "memory", "emu">>
destroy == <<"texture", "renderer", "window", "sdl", "video_buffer", "memory", "emu">>

Init ==
  /\ game \in BOOLEAN
  /\ file_size \in Sizes
  /\ stage = "create"
  /\ st_size = 0 /\ held = {} /\ members = {} /\ loaded = 0
  /\ failed = "none" /\ twice = {} /\ orphaned = {}

Acquire(R) == held' = held \union R /\ UNCHANGED doneVars

\* The calls of a list, one after the other, that are given something: what is
\* not in given is a NULL pointer and left alone.
Release(list, given) ==
  LET calls == {n \in 1 .. Len(list) : list[n] \in given}
      before(n) == {list[k] : k \in {m \in calls : m < n}}
      freed(n) == UNION {Frees(r) : r \in before(n)}
  IN  /\ held' = held \ UNION {Frees(list[n]) : n \in calls}
      /\ twice' = twice \union
           {list[n] : n \in {m \in calls : list[m] \notin held \ freed(m)}}
      /\ orphaned' = orphaned \union
           {list[n] : n \in {m \in calls : MadeFrom(list[m]) \intersect before(m) # {}}}
Give(list) == Release(list, {list[n] : n \in 1 .. Len(list)})

\* Another program writes or truncates the file.
Resize ==
  /\ stage \in {"size", "fopen", "calloc", "fread"}
  /\ file_size' \in Sizes
  /\ UNCHANGED <<game, stage, st_size, held, members, loaded, failed, doneVars>>

\* calloc of struct emulator or struct spaceinvaders; main ends without it.
Create ==
  /\ stage = "create"
  /\ \/ Acquire({"emu"}) /\ stage' = "stat"
     \/ UNCHANGED <<held, doneVars>> /\ stage' = "done"
  /\ UNCHANGED <<fileVars, st_size, members, loaded, failed>>

\* The load fails: main calls destroy.
Fail ==
  /\ stage' = "fail" /\ failed' = stage
  /\ UNCHANGED <<fileVars, st_size, members, loaded>>

\* stat, and S_ISREG.
Stat ==
  /\ stage = "stat"
  /\ UNCHANGED <<held, doneVars>>
  /\ \/ /\ st_size' = file_size /\ stage' = "size"
        /\ UNCHANGED <<fileVars, members, loaded, failed>>
     \/ Fail

\* Fault: the offset is left out of the test.
SizeFits_no_offset ==
  IF game THEN st_size = RomSize ELSE st_size > 0 /\ st_size <= UINT16_MAX

SizeFits ==
  IF game THEN st_size = RomSize
  ELSE st_size > 0 /\ st_size <= UINT16_MAX /\ st_size + Offset <= UINT16_MAX

CheckSize ==
  /\ stage = "size"
  /\ UNCHANGED <<held, doneVars>>
  /\ \/ /\ SizeFits /\ stage' = "fopen"
        /\ UNCHANGED <<fileVars, st_size, members, loaded, failed>>
     \/ ~SizeFits /\ Fail

Open ==
  /\ stage = "fopen"
  /\ \/ /\ Acquire({"file"}) /\ stage' = "calloc"
        /\ UNCHANGED <<fileVars, st_size, members, loaded, failed>>
     \/ UNCHANGED <<held, doneVars>> /\ Fail

Calloc ==
  /\ stage = "calloc"
  /\ \/ /\ Acquire({"memory"}) /\ stage' = "fread"
        /\ UNCHANGED <<fileVars, st_size, members, loaded, failed>>
     \/ Give(<<"file">>) /\ Fail

\* Fault: the pointer is kept in emu before the read that may fail.
Read_keeps_pointer ==
  /\ stage = "fread"
  /\ members' = members \union {"memory"}
  /\ \/ /\ file_size >= st_size
        /\ Give(<<"file">>)
        /\ loaded' = st_size
        /\ stage' = IF game THEN "SDL_Init" ELSE "loop"
        /\ UNCHANGED failed
     \/ /\ Give(<<"file", "memory">>)
        /\ stage' = "fail" /\ failed' = stage
        /\ UNCHANGED loaded
  /\ UNCHANGED <<fileVars, st_size>>

\* fread of st_size bytes, all or nothing; fclose.
Read ==
  /\ stage = "fread"
  /\ \/ /\ file_size >= st_size
        /\ Give(<<"file">>)
        /\ members' = members \union {"memory"}
        /\ loaded' = st_size
        /\ stage' = IF game THEN "SDL_Init" ELSE "loop"
        /\ UNCHANGED <<fileVars, st_size, failed>>
     \/ Give(<<"file", "memory">>) /\ Fail

\* sdl_init, call by call; the last one fills in emu.
SdlInit ==
  /\ stage \in SdlCalls
  /\ \/ /\ Acquire(Gives[stage])
        /\ stage' = After[stage]
        /\ members' = IF stage' = "loop" THEN members \union SdlMembers ELSE members
        /\ UNCHANGED <<fileVars, st_size, loaded, failed>>
     \/ Give(Undo[stage]) /\ Fail

\* The loop of main has ended: halted, or exit_flag.
EndLoop ==
  /\ stage = "loop"
  /\ stage' = "end"
  /\ UNCHANGED <<fileVars, st_size, held, members, loaded, failed, doneVars>>

\* destroy.  A member that is NULL is not released; SDL_Quit comes in the game
\* alone, and may come without SDL_Init.
Destroy ==
  /\ stage \in {"fail", "end"}
  /\ Release(destroy, {"emu"} \union members
                       \union (IF game THEN held \intersect {"sdl"} ELSE {}))
  /\ members' = {}
  /\ stage' = "done"
  /\ UNCHANGED <<fileVars, st_size, loaded, failed>>

Next ==
  \/ Resize
  \/ Create \/ Stat \/ CheckSize \/ Open \/ Calloc \/ Read
  \/ SdlInit
  \/ EndLoop \/ Destroy

Spec == Init /\ [][Next]_vars

-----------------------------------------------------------------------------
(* Neither an error path of load_file or sdl_init nor destroy after it     *)
(* releases what is already gone, and no member of emu outlives what it    *)
(* points to; but where there is no memory for the video buffer, the       *)
(* renderer goes first and takes the texture with it, and the texture is   *)
(* then destroyed again.                                                   *)
ReleasedOnce ==
  /\ twice = IF failed = "video_calloc" THEN {"texture"} ELSE {}
  /\ members \subseteq held

(* Textures go before their renderer and the renderer before its window,   *)
(* at the end of the game and after every failure of load_file, of         *)
(* SDL_Init, of the window and of the renderer.  The three later error     *)
(* paths of sdl_init go from the window to the texture instead.            *)
OwnersLast ==
  orphaned = IF failed = "video_calloc" THEN {"renderer", "texture"}
            ELSE IF failed \in {"SDL_RenderSetLogicalSize", "SDL_CreateTexture"} THEN {"renderer"}
            ELSE {}

(* When main ends, by whichever call that failed, nothing is left.         *)
NothingLeaks == stage = "done" => held = {}

(* What fread stores fits the memory behind it, from the offset on, though *)
(* the file may have changed since its size was checked; and the game only *)
(* starts with a whole ROM.                                                *)
LoadFits ==
  /\ loaded + (IF game THEN 0 ELSE Offset) <= UINT16_MAX \/ loaded = 0
  /\ stage = "loop" => loaded > 0 /\ (game => loaded = RomSize)
=============================================================================
