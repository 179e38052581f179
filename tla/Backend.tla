------------------------------- MODULE Backend -------------------------------
(***************************************************************************)
(* resources/static/client.js: the client of the HTTP interface, generated *)
(* from its description.  Every method sends one request and looks at the  *)
(* status of the answer in a switch; each arm calls the callback that has  *)
(* the place of the arm among the method's parameters, if the caller gave  *)
(* one.  Some arms decode the body for their callback, others hand over    *)
(* the request as it is.                                                   *)
(*                                                                         *)
(* A method is given by its verb, its arms in the order of its parameters  *)
(* and the statuses whose arms decode the body.  Abstracted: URLs,         *)
(* parameters and the content of the answers.                              *)
(***************************************************************************)
EXTENDS Naturals, Sequences

\* Errors are decoded, the good answer too where it is JSON.
Raw(verb, ok, errors) ==
  [verb |-> verb, arms |-> <<ok>> \o errors, parsed |-> {errors[k] : k \in DOMAIN errors}]
Json(verb, ok, errors) ==
  [verb |-> verb, arms |-> <<ok>> \o errors, parsed |-> {ok} \cup {errors[k] : k \in DOMAIN errors}]

\* Mutant: only the verb is another one.
HeadOfParsing(m) == [m EXCEPT !.verb = "HEAD"]

\* The HEAD twin of a GET method: no body, nothing to decode.
HeadOf(m) == [m EXCEPT !.verb = "HEAD", !.parsed = {}]
-----------------------------------------------------------------------------
showMain == Raw("GET", 204, <<400, 500>>)
showMain2 == HeadOf(showMain)
controlAddAlbum == Raw("GET", 200, <<400, 401, 500>>)
controlAddAlbum2 == HeadOf(controlAddAlbum)
controlCreateAlbum == Json("POST", 200, <<400, 401, 500>>)
controlUpdatePhotoAlbum == Raw("PUT", 204, <<400, 401, 500>>)
getAlbumContents == Json("GET", 200, <<400, 500>>)
getAlbumContents2 == HeadOf(getAlbumContents)
controlSetAlbumImageTime == Raw("PUT", 204, <<401>>)
controlAddDirectoryRecursive == Json("POST", 200, <<400, 401, 500>>)
controlGetPhotoAlbum == Json("GET", 200, <<400, 401, 500>>)
controlGetPhotoAlbum2 == HeadOf(controlGetPhotoAlbum)
controlDeleteAlbum == Raw("DELETE", 204, <<401, 500>>)
controlAddToAlbum == Raw("POST", 204, <<401, 500>>)
downloadAlbum == Raw("GET", 204, << >>)
downloadAlbum2 == HeadOf(downloadAlbum)
controlAddDirectory == Json("POST", 200, <<400, 401, 500>>)
controlAddRemote == Json("POST", 200, <<400, 401, 500>>)
controlRemoveFromAlbum == Raw("DELETE", 204, <<500>>)
getAlbums == Json("GET", 200, <<401, 500>>)
getAlbums2 == HeadOf(getAlbums)
controlCleanupRemote == Raw("POST", 202, <<401>>)
controlEditAlbum == Raw("GET", 200, <<400, 401, 500>>)
controlEditAlbum2 == HeadOf(controlEditAlbum)
controlEditImage == Raw("GET", 200, <<400, 401, 500>>)
controlEditImage2 == HeadOf(controlEditImage)
controlSettingsEditAdminPassword == Raw("GET", 200, <<401, 500>>)
controlSettingsEditAdminPassword2 == HeadOf(controlSettingsEditAdminPassword)
controlSettingsEdit == Raw("GET", 200, <<401, 500>>)
controlSettingsEdit2 == HeadOf(controlSettingsEdit)
controlUpdatePhotoExif == Raw("PUT", 204, <<400, 401, 500>>)
controlGetPhotoExif == Json("GET", 200, <<400, 401, 500>>)
controlGetPhotoExif2 == HeadOf(controlGetPhotoExif)
serveFavicon == Raw("GET", 204, << >>)
serveFavicon2 == HeadOf(serveFavicon)
deleteFavorite == Raw("DELETE", 204, << >>)
getFavorite == Json("GET", 200, << >>)
getFavorite2 == HeadOf(getFavorite)
addFavorite == Raw("POST", 204, << >>)
controlGatherFiles == Json("POST", 200, <<400, 401, 500>>)
controlUpdatePhotoGps == Raw("PUT", 204, <<400, 401, 500>>)
controlGetPhotoGps == Json("GET", 200, <<400, 401, 500>>)
controlGetPhotoGps2 == HeadOf(controlGetPhotoGps)
helpIndex == Raw("GET", 204, << >>)
helpIndex2 == HeadOf(helpIndex)
helpServeFile == Raw("GET", 204, << >>)
helpServeFile2 == HeadOf(helpServeFile)
helpMarkdown == Raw("GET", 204, << >>)
helpMarkdown2 == HeadOf(helpMarkdown)
controlUpdatePhotoImage == Raw("PUT", 204, <<400, 401, 500>>)
getImageInfo == Json("GET", 200, <<401>>)
getImageInfo2 == HeadOf(getImageInfo)
showImage3 == Raw("GET", 204, << >>)
showImage4 == HeadOf(showImage3)
showImage == Raw("GET", 204, << >>)
showImage2 == HeadOf(showImage)
controlGetPhotoImage == Json("GET", 200, <<400, 401, 500>>)
controlGetPhotoImage2 == HeadOf(controlGetPhotoImage)
controlIndexRemote == Raw("POST", 202, <<400, 401, 500>>)
controlIndexAlbum == Raw("POST", 202, <<400, 401, 500>>)
swaggestJsonformGoRepositoryGetSchema == Json("GET", 200, <<404>>)
swaggestJsonformGoRepositoryGetSchema2 == HeadOf(swaggestJsonformGoRepositoryGetSchema)
controlLogin == Raw("GET", 200, <<401>>)
controlLogin2 == HeadOf(controlLogin)
mapTile == Raw("GET", 204, << >>)
mapTile2 == HeadOf(mapTile)
addMessage == Json("POST", 200, << >>)
controlApproveMessage == Raw("POST", 204, <<401>>)
oG == Raw("GET", 204, << >>)
oG4 == [oG EXCEPT !.verb = "DELETE"]
oG6 == [oG EXCEPT !.verb = "HEAD"]
oG5 == [oG EXCEPT !.verb = "OPTIONS"]
oG7 == [oG EXCEPT !.verb = "PATCH"]
oG3 == [oG EXCEPT !.verb = "POST"]
oG2 == [oG EXCEPT !.verb = "PUT"]
oG8 == [oG EXCEPT !.verb = "TRACE"]
downloadImagesPoiGpx == Raw("GET", 204, <<400, 500>>)
downloadImagesPoiGpx2 == HeadOf(downloadImagesPoiGpx)
searchImages == Raw("GET", 204, <<400, 500>>)
searchImages2 == HeadOf(searchImages)
controlSettingsSetAppearance == Raw("POST", 204, <<401>>)
controlSettingsSetExternalAPI == Raw("POST", 204, <<401>>)
controlSettingsSetImagePrompt == Raw("POST", 204, <<401>>)
controlSettingsSetIndexing == Raw("POST", 204, <<401>>)
controlSettingsSetMaps == Raw("POST", 204, <<401>>)
controlSettingsSetPassword == Raw("POST", 204, <<401>>)
controlSettingsSetPrivacy == Raw("POST", 204, <<401>>)
controlSelfUpdate == Raw("GET", 204, <<401>>)
controlSelfUpdate2 == HeadOf(controlSelfUpdate)
controlSettingsSetStorage == Raw("POST", 204, <<401>>)
controlVersion == Raw("GET", 204, <<401>>)
controlVersion2 == HeadOf(controlVersion)
controlSettingsSetVisitors == Raw("POST", 204, <<401>>)
serveSiteFile == Raw("GET", 204, << >>)
serveSiteFile2 == HeadOf(serveSiteFile)
collectStats == Raw("GET", 204, << >>)
collectStats2 == HeadOf(collectStats)
statsShowDailyTotal == Raw("GET", 204, <<401>>)
statsShowDailyTotal2 == HeadOf(statsShowDailyTotal)
statsShowRefers == Raw("GET", 204, <<401>>)
statsShowRefers2 == HeadOf(statsShowRefers)
statsTopImages == Raw("GET", 204, <<401>>)
statsTopImages2 == HeadOf(statsTopImages)
statsTopPages == Raw("GET", 204, <<401>>)
statsTopPages2 == HeadOf(statsTopPages)
statsShowVisitor == Raw("GET", 204, <<401>>)
statsShowVisitor2 == HeadOf(statsShowVisitor)
showThumb == Raw("GET", 204, << >>)
showThumb2 == HeadOf(showThumb)
downloadGpx == Raw("GET", 204, << >>)
downloadGpx2 == HeadOf(downloadGpx)
showAlbum == Raw("GET", 204, <<400, 403, 500>>)
showAlbum2 == HeadOf(showAlbum)
showPano == Raw("GET", 204, <<400, 500>>)
showPano2 == HeadOf(showPano)
showAlbumAtImage == Raw("GET", 204, <<400, 500>>)
showAlbumAtImage2 == HeadOf(showAlbumAtImage)
-----------------------------------------------------------------------------
\* All of them; methods that differ in their URL only are one here.
Methods ==
  {showMain, showMain2, controlAddAlbum, controlAddAlbum2, controlCreateAlbum,
   controlUpdatePhotoAlbum, getAlbumContents, getAlbumContents2,
   controlSetAlbumImageTime, controlAddDirectoryRecursive, controlGetPhotoAlbum,
   controlGetPhotoAlbum2, controlDeleteAlbum, controlAddToAlbum, downloadAlbum,
   downloadAlbum2, controlAddDirectory, controlAddRemote, controlRemoveFromAlbum,
   getAlbums, getAlbums2, controlCleanupRemote, controlEditAlbum, controlEditAlbum2,
   controlEditImage, controlEditImage2, controlSettingsEditAdminPassword,
   controlSettingsEditAdminPassword2, controlSettingsEdit, controlSettingsEdit2,
   controlUpdatePhotoExif, controlGetPhotoExif, controlGetPhotoExif2, serveFavicon,
   serveFavicon2, deleteFavorite, getFavorite, getFavorite2, addFavorite,
   controlGatherFiles, controlUpdatePhotoGps, controlGetPhotoGps, controlGetPhotoGps2,
   helpIndex, helpIndex2, helpServeFile, helpServeFile2, helpMarkdown, helpMarkdown2,
   controlUpdatePhotoImage, getImageInfo, getImageInfo2, showImage3, showImage4,
   showImage, showImage2, controlGetPhotoImage, controlGetPhotoImage2,
   controlIndexRemote, controlIndexAlbum, swaggestJsonformGoRepositoryGetSchema,
   swaggestJsonformGoRepositoryGetSchema2, controlLogin, controlLogin2, mapTile,
   mapTile2, addMessage, controlApproveMessage, oG, oG4, oG6, oG5, oG7, oG3, oG2, oG8,
   downloadImagesPoiGpx, downloadImagesPoiGpx2, searchImages, searchImages2,
   controlSettingsSetAppearance, controlSettingsSetExternalAPI,
   controlSettingsSetImagePrompt, controlSettingsSetIndexing, controlSettingsSetMaps,
   controlSettingsSetPassword, controlSettingsSetPrivacy, controlSelfUpdate,
   controlSelfUpdate2, controlSettingsSetStorage, controlVersion, controlVersion2,
   controlSettingsSetVisitors, serveSiteFile, serveSiteFile2, collectStats,
   collectStats2, statsShowDailyTotal, statsShowDailyTotal2, statsShowRefers,
   statsShowRefers2, statsTopImages, statsTopImages2, statsTopPages, statsTopPages2,
   statsShowVisitor, statsShowVisitor2, showThumb, showThumb2, downloadGpx,
   downloadGpx2, showAlbum, showAlbum2, showPano, showPano2, showAlbumAtImage,
   showAlbumAtImage2}

\* The callbacks that belong to a status, by their place: one or none.
Arm(m, status) == {k \in DOMAIN m.arms : m.arms[k] = status}

\* What comes of an answer when the caller gave the first callbacks only.
Outcome(m, given, status, json) ==
  CASE Arm(m, status) = {} -> "unexpected"
    [] \E k \in Arm(m, status) : k > given -> "silent"
    [] \E k \in Arm(m, status) : k <= given /\ status \in m.parsed /\ ~json -> "syntax"
    [] OTHER -> "called"

=============================================================================
