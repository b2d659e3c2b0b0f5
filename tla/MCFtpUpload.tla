---------------------------- MODULE MCFtpUpload ----------------------------
(* FtpUpload with an image that is read in two parts and, after it, a status line. *)
EXTENDS FtpUpload

ImageAndStatus == <<2, 1>>
OneBuffer == <<1>>
=============================================================================
