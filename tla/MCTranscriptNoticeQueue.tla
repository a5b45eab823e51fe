------------------------ MODULE MCTranscriptNoticeQueue ---------------------
(* Instance of TranscriptNoticeQueue for TLC.                              *)
EXTENDS TranscriptNoticeQueue
=============================================================================
