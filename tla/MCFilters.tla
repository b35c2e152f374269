----------------------------- MODULE MCFilters ------------------------------
(***************************************************************************)
(* What a filter and its pins keep: the connection of this filter's pin    *)
(* and the classes everything is built from (both in MCClasses, extended   *)
(* here), the volume and formats of its device, and of the base classes    *)
(* the allocators negotiated by a filter in place, the window and geometry *)
(* of a video renderer, its drop of frames, deferred commands, the times   *)
(* of a stream control and registration.  They share nothing, so that a    *)
(* behaviour is about one of them, chosen at the start.                    *)
(***************************************************************************)
EXTENDS MCClasses

CONSTANTS
  \* the video window: its palettes and samples, a bound on the changes of format
  vw_Palettes, vw_Samples, vw_Changes,
  \* the place of a window: what is asked for, CW_USEDEFAULT, the size of the screen
  wc_Coordinates, wc_Origin, wc_Screen,
  \* rectangles: half of the values of a LONG, the sizes of the videos, what is asked for at once
  vc_Half, vc_Images, vc_Extents,
  \* quality of a renderer: times of a frame and its drawing, proportions, a bound
  vq_Duration, vq_Advances, vq_DrawTimes, vq_Proportions, vq_Frames,
  \* quality of a decoder: limits of VideoTransform and a bound
  vt_Wait, vt_Frame, vt_Silly, vt_PeriodMax,
  \* deferred commands: the commands and the bounds of CmdQueue
  cq_Cmds, cq_MaxTime, cq_Clocks, cq_Runs, cq_Offset, cq_INFINITE,
  \* a stream control: a bound on the times
  sc_MaxTime,
  \* registration: the number of templates, and which of them are filters
  rg_N, rg_Filters,
  \* the device: threads, volumes and balances asked for, AL libraries
  ba_Callers, ba_Volumes, ba_Balances, ba_Libraries

MCImages    == {<<1, 2>>, <<2, 1>>}
MCExtents   == {<<1, 1>>, <<3, 3>>}
MCVolumes   == {-10001, -10000, -600, 1}
MCBalances  == {500, 10001}
MCLibraries == {{}, {"float32", "MCFORMATS", "X-Fi"}}

ASSUME AudioAssumption ==
  ba_Volumes \subseteq Int /\ ba_Balances \subseteq Int /\ "sound" \notin ba_Callers
ASSUME ControlAssumption == sc_MaxTime \in Nat
\* Times are numbers, and a command is told from none.
ASSUME CommandAssumption ==
  cq_MaxTime \in Nat /\ cq_Offset \in Nat /\ "NULL" \notin cq_Cmds
\* There is a template, and each filter is one.
ASSUME RegistrationAssumption == rg_N \in Nat \ {0} /\ rg_Filters \subseteq 1..rg_N
\* Places on a screen, and what a LONG can be; a picture has an extent.
ASSUME PlaceAssumption ==
  wc_Coordinates \subseteq Int /\ wc_Origin \in Int /\ wc_Screen \in Int
ASSUME RectangleAssumption ==
  /\ vc_Half \in Nat \ {0}
  /\ vc_Extents \subseteq (-vc_Half .. vc_Half - 1) \X (-vc_Half .. vc_Half - 1)
  /\ vc_Images \subseteq (1 .. vc_Half - 1) \X (1 .. vc_Half - 1)
\* A frame lasts, and takes its time to come and to be drawn.
ASSUME QualityAssumption ==
  /\ vq_Duration \in Nat \ {0}
  /\ vq_Advances \subseteq Nat /\ vq_DrawTimes \subseteq Nat /\ vq_Proportions \subseteq Nat
\* No frame lasts the 30 seconds that a decoder takes for an error.
ASSUME DecoderAssumption ==
  /\ vt_Wait \in Nat \ {0} /\ vt_PeriodMax \in Nat
  /\ vt_Frame \in Nat /\ vt_Silly \in Nat /\ vt_Frame <= vt_Silly

VARIABLES
  unit,  \* the unit this behaviour is about
  ti_modifies, ti_in, ti_out, ti_inAlloc, ti_outAlloc, ti_readOnly, ti_told,
  ti_upReadOnly, ti_offers, ti_pendingIn, ti_pendingOut,
  vw_exists, vw_hwnd, vw_dcs, vw_activated, vw_post, vw_noRealize, vw_window,
  vw_palette, vw_wpal, vw_hpal, vw_live, vw_format, vw_version, vw_changes,
  vw_sample, vw_shown, vw_inbox, vw_thread,
  wc_place, wc_parent, wc_owner, wc_visible, wc_topmost, wc_step,
  wc_WindowRect, wc_asked,
  vc_size, vc_Source, vc_Target, vc_State,
  vq_now, vq_next, vq_q, vq_waiting, vq_throttle, vq_seen, vq_proportion,
  vq_shownAt, vq_dropped, vq_accuracies,
  vt_qm, vt_waitForKey, vt_skipped, vt_quality, vt_hole, vt_awaited, vt_last,
  cq_now, cq_hasClock, cq_changes, cq_running, cq_runs, cq_lists, cq_due,
  cq_advised, cq_alarm, cq_cmd, cq_user, cq_coarse, cq_pc, cq_taken,
  cq_broken,
  sc_stream, sc_onStop, sc_startTime, sc_stopTime, sc_filter, sc_flushing,
  sc_sendExtra, sc_extraSent, sc_event, sc_spc, sc_sample, sc_answer,
  sc_hasClock,
  rg_server, rg_filter, rg_denied, rg_call, rg_pc, rg_at, rg_mapper,
  rg_answer, rg_excused,
  ba_supports, ba_context, ba_m_source, ba_gain, ba_m_volume,
  ba_m_fake_balance, ba_pc, ba_arguments, ba_sound, ba_raced

tiVars ==
  <<ti_modifies, ti_in, ti_out, ti_inAlloc, ti_outAlloc, ti_readOnly,
    ti_told, ti_upReadOnly, ti_offers, ti_pendingIn, ti_pendingOut>>
vwVars ==
  <<vw_exists, vw_hwnd, vw_dcs, vw_activated, vw_post, vw_noRealize,
    vw_window, vw_palette, vw_wpal, vw_hpal, vw_live, vw_format, vw_version,
    vw_changes, vw_sample, vw_shown, vw_inbox, vw_thread>>
wcVars ==
  <<wc_place, wc_parent, wc_owner, wc_visible, wc_topmost, wc_step,
    wc_WindowRect, wc_asked>>
vcVars ==
  <<vc_size, vc_Source, vc_Target, vc_State>>
vqVars ==
  <<vq_now, vq_next, vq_q, vq_waiting, vq_throttle, vq_seen, vq_proportion,
    vq_shownAt, vq_dropped, vq_accuracies>>
vtVars ==
  <<vt_qm, vt_waitForKey, vt_skipped, vt_quality, vt_hole, vt_awaited,
    vt_last>>
cqVars ==
  <<cq_now, cq_hasClock, cq_changes, cq_running, cq_runs, cq_lists, cq_due,
    cq_advised, cq_alarm, cq_cmd, cq_user, cq_coarse, cq_pc, cq_taken,
    cq_broken>>
scVars ==
  <<sc_stream, sc_onStop, sc_startTime, sc_stopTime, sc_filter, sc_flushing,
    sc_sendExtra, sc_extraSent, sc_event, sc_spc, sc_sample, sc_answer,
    sc_hasClock>>
rgVars ==
  <<rg_server, rg_filter, rg_denied, rg_call, rg_pc, rg_at, rg_mapper,
    rg_answer, rg_excused>>
baVars ==
  <<ba_supports, ba_context, ba_m_source, ba_gain, ba_m_volume,
    ba_m_fake_balance, ba_pc, ba_arguments, ba_sound, ba_raced>>

TI == INSTANCE TransInPlace WITH
  modifies <- ti_modifies, in <- ti_in, out <- ti_out, inAlloc <- ti_inAlloc,
  outAlloc <- ti_outAlloc, readOnly <- ti_readOnly, told <- ti_told,
  upReadOnly <- ti_upReadOnly, offers <- ti_offers,
  pendingIn <- ti_pendingIn, pendingOut <- ti_pendingOut

VW == INSTANCE VideoWindow WITH
  Palettes <- vw_Palettes, Samples <- vw_Samples, Changes <- vw_Changes,
  exists <- vw_exists, hwnd <- vw_hwnd, dcs <- vw_dcs,
  activated <- vw_activated, post <- vw_post, noRealize <- vw_noRealize,
  window <- vw_window, palette <- vw_palette, wpal <- vw_wpal,
  hpal <- vw_hpal, live <- vw_live, format <- vw_format,
  version <- vw_version, changes <- vw_changes, sample <- vw_sample,
  shown <- vw_shown, inbox <- vw_inbox, thread <- vw_thread

WC == INSTANCE WindowControl WITH
  Coordinates <- wc_Coordinates, Origin <- wc_Origin, Screen <- wc_Screen,
  place <- wc_place, parent <- wc_parent, owner <- wc_owner,
  visible <- wc_visible, topmost <- wc_topmost, step <- wc_step,
  WindowRect <- wc_WindowRect, asked <- wc_asked

VC == INSTANCE VideoControl WITH
  Half <- vc_Half, Images <- vc_Images, Extents <- vc_Extents,
  size <- vc_size, Source <- vc_Source, Target <- vc_Target,
  State <- vc_State

VQ == INSTANCE VideoQuality WITH
  Duration <- vq_Duration, Advances <- vq_Advances,
  DrawTimes <- vq_DrawTimes, Proportions <- vq_Proportions,
  Frames <- vq_Frames, now <- vq_now, next <- vq_next, q <- vq_q,
  waiting <- vq_waiting, throttle <- vq_throttle, seen <- vq_seen,
  proportion <- vq_proportion, shownAt <- vq_shownAt, dropped <- vq_dropped,
  accuracies <- vq_accuracies

VT == INSTANCE VideoTransform WITH
  Wait <- vt_Wait, Frame <- vt_Frame, Silly <- vt_Silly,
  PeriodMax <- vt_PeriodMax, qm <- vt_qm, waitForKey <- vt_waitForKey,
  skipped <- vt_skipped, quality <- vt_quality, hole <- vt_hole,
  awaited <- vt_awaited, last <- vt_last

CQ == INSTANCE CmdQueue WITH
  Cmds <- cq_Cmds, MaxTime <- cq_MaxTime, Clocks <- cq_Clocks,
  Runs <- cq_Runs, Offset <- cq_Offset, INFINITE <- cq_INFINITE,
  now <- cq_now, hasClock <- cq_hasClock, changes <- cq_changes,
  running <- cq_running, runs <- cq_runs, lists <- cq_lists, due <- cq_due,
  advised <- cq_advised, alarm <- cq_alarm, cmd <- cq_cmd, user <- cq_user,
  coarse <- cq_coarse, pc <- cq_pc, taken <- cq_taken, broken <- cq_broken

SC == INSTANCE StreamControl WITH
  MaxTime <- sc_MaxTime, stream <- sc_stream, onStop <- sc_onStop,
  startTime <- sc_startTime, stopTime <- sc_stopTime, filter <- sc_filter,
  flushing <- sc_flushing, sendExtra <- sc_sendExtra,
  extraSent <- sc_extraSent, event <- sc_event, spc <- sc_spc,
  sample <- sc_sample, answer <- sc_answer, hasClock <- sc_hasClock

RG == INSTANCE Registration WITH
  N <- rg_N, Filters <- rg_Filters, server <- rg_server, filter <- rg_filter,
  denied <- rg_denied, call <- rg_call, pc <- rg_pc, at <- rg_at,
  mapper <- rg_mapper, answer <- rg_answer, excused <- rg_excused

BA == INSTANCE BasicAudio WITH
  Callers <- ba_Callers, Volumes <- ba_Volumes, Balances <- ba_Balances,
  Libraries <- ba_Libraries, supports <- ba_supports, context <- ba_context,
  m_source <- ba_m_source, gain <- ba_gain, m_volume <- ba_m_volume,
  m_fake_balance <- ba_m_fake_balance, pc <- ba_pc,
  arguments <- ba_arguments, sound <- ba_sound, raced <- ba_raced

all == <<unit,
        vars, tiVars, vwVars, wcVars, vcVars, vqVars, vtVars, cqVars, scVars,
        olVars, mdVars, myVars, rgVars, baVars>>

\* A unit that rests has one initial state.
MCInit ==
  /\ unit \in {"connection", "in_place", "window", "place", "rectangles",
               "quality", "key_frames", "commands", "control", "object",
               "arithmetic", "types", "registry", "audio"}
  /\ Init
  /\ TI!Init /\ (unit # "in_place" => ~ti_modifies /\ ~ti_upReadOnly /\ ~ti_offers)
  /\ VW!Init /\ (unit # "window" => ~vw_post /\ ~vw_noRealize)
  /\ WC!Init /\ (unit # "place" => wc_place.width = 0)
  /\ VC!Init /\ (unit # "rectangles" => vc_size = <<1, 2>>)
  /\ VQ!Init
  /\ VT!Init /\ (unit # "key_frames" => vt_waitForKey = 0)
  /\ CQ!Init /\ (unit # "commands" => cq_coarse)
  /\ SC!Init /\ (unit # "control" => sc_hasClock)
  /\ OL!Init
  /\ MD!Init
  /\ MY!Init
  /\ RG!Init /\ (unit # "registry" => rg_denied = "nothing")
  /\ BA!Init /\ (unit # "audio" => ba_supports = {} /\ ba_context)

\* The other units rest.
Rest ==
  /\ UNCHANGED unit
  /\ IF unit = "connection" THEN TRUE ELSE UNCHANGED vars
  /\ IF unit = "in_place" THEN TRUE ELSE UNCHANGED tiVars
  /\ IF unit = "window" THEN TRUE ELSE UNCHANGED vwVars
  /\ IF unit = "place" THEN TRUE ELSE UNCHANGED wcVars
  /\ IF unit = "rectangles" THEN TRUE ELSE UNCHANGED vcVars
  /\ IF unit = "quality" THEN TRUE ELSE UNCHANGED vqVars
  /\ IF unit = "key_frames" THEN TRUE ELSE UNCHANGED vtVars
  /\ IF unit = "commands" THEN TRUE ELSE UNCHANGED cqVars
  /\ IF unit = "control" THEN TRUE ELSE UNCHANGED scVars
  /\ IF unit = "object" THEN TRUE ELSE UNCHANGED olVars
  /\ IF unit = "arithmetic" THEN TRUE ELSE UNCHANGED mdVars
  /\ IF unit = "types" THEN TRUE ELSE UNCHANGED myVars
  /\ IF unit = "registry" THEN TRUE ELSE UNCHANGED rgVars
  /\ IF unit = "audio" THEN TRUE ELSE UNCHANGED baVars

MCNext ==
  \/ unit = "connection" /\ Next /\ Rest
  \/ unit = "in_place" /\ TI!Next /\ Rest
  \/ unit = "window" /\ VW!Next /\ Rest
  \/ unit = "place" /\ WC!Next /\ Rest
  \/ unit = "rectangles" /\ VC!Next /\ Rest
  \/ unit = "quality" /\ VQ!Next /\ Rest
  \/ unit = "key_frames" /\ VT!Next /\ Rest
  \/ unit = "commands" /\ CQ!Next /\ Rest
  \/ unit = "control" /\ SC!Next /\ Rest
  \/ unit = "object" /\ OL!Next /\ Rest
  \/ unit = "arithmetic" /\ MD!Next /\ Rest
  \/ unit = "types" /\ MY!Next /\ Rest
  \/ unit = "registry" /\ RG!Next /\ Rest
  \/ unit = "audio" /\ BA!Next /\ Rest

MCSpec == MCInit /\ [][MCNext]_all

-----------------------------------------------------------------------------

\* Behaviours of the connection only.
PinSpec == MCInit /\ unit = "connection" /\ [][MCNext]_all

(***************************************************************************)
(* Properties of several units.                                            *)
(***************************************************************************)

\* The volume holds whenever and by whom it was put, before there is a source and
\* after its end, and frames have the size AL takes for the format.
DeviceSound == unit = "audio" => BA!VolumeHolds /\ BA!FramesFitFormat

\* Stream control: the answer to each sample is the one the comment of
\* CheckSampleTimes (strmctl.cpp) promises for the times set.  And a worker invokes
\* the earliest of the deferred commands whose time has come.
DoneInTime ==
  [][/\ unit = "control" => SC!TypeOK /\ SC!PendingStop /\ SC!SampleIsTold
     /\ unit = "commands" => CQ!TakesEarliest]_all

\* No thread uses a palette that was deleted, or stays waiting for another with a
\* lock that one needs, and no image has the colours of an earlier format.
WindowSound ==
  unit = "window" => VW!PaletteLives /\ VW!RightColours /\ VW!NobodyStuck

\* The window is where and as visible as it was asked to be last, and the rectangles
\* of the picture are inside it, whatever was asked for and however it overflows.
GeometrySound ==
  /\ unit = "place" => WC!WindowAsAsked
  /\ unit = "rectangles" => VC!RectanglesSound

\* A late renderer drops frames, but never for a second, and computes with numbers
\* that mean something; a late decoder shows no frame without the one it is made of.
\* A filter in place copies exactly when it would change what upstream keeps.
PictureSound ==
  /\ unit = "quality" => VQ!NeverFrozen /\ VQ!FiguresReal
  /\ unit = "key_frames" => VT!TypeOK /\ VT!WholeImages
  /\ unit = "in_place" => TI!TypeOK /\ TI!CopiesWhenItMust

\* An object, and the library, lives as long as somebody refers to it, and no longer;
\* the format of a media type as long as the type, which owns it alone; and a filter
\* is registered no longer than its server.
ObjectsLast ==
  /\ unit = "object" => OL!LivesWhileReferenced
  /\ unit = "types" => /\ MY!TypeOK /\ MY!OwnsItsFormat
                       /\ MY!ReferencesHeld /\ MY!CopyIsEqual
  /\ unit = "registry" => RG!TypeOK /\ RG!ServerBehindFilter /\ RG!CallsAreWhole

\* Products, sums and quotients of 64 bits are exact wherever the result fits.
ArithmeticExact == unit = "arithmetic" => MD!QuotientExact
=============================================================================
